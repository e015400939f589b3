------------------------------ MODULE HttpProofs ------------------------------
(***************************************************************************)
(* The properties of HttpParser, for every width of content_length, every  *)
(* set of digits and of headers, and every way to cut messages into calls. *)
(*                                                                         *)
(* Most cases of the switch only move between states of one part of a      *)
(* message; HeadStep and SizeStep say once what such a move must keep, and *)
(* FailStep what an error leaves.  The cases that change the length or the *)
(* history have a proof of their own.                                      *)
(***************************************************************************)
EXTENDS HttpParser, FiniteSetTheorems, TLAPS

\* The states between messages, of the start line, and of headers or trailers;
\* of the latter, those where a value has not begun, and where it is read.
IdleState == {"start_req", "start_res", "dead"}

LineState == {"res_line", "res_status", "req_method", "req_spaces", "req_url",
              "req_http", "line_almost_done"}

DiscardState == {"header_value_discard_ws", "header_value_discard_ws_almost_done",
                 "header_value_discard_lws"}

ValueState == {"header_value_start", "header_value", "header_almost_done",
               "header_value_lws"}

FieldState == {"header_field_start", "header_field", "headers_almost_done"}
                \cup DiscardState \cup ValueState

\* The size of a chunk, after its first digit; and bytes of a body of known length.
SizeState == {"chunk_size", "chunk_parameters", "chunk_size_almost_done"}

ReadState == {"body_identity", "chunk_data"}

\* What may stop the parser.
Error == {"HEADER_OVERFLOW", "CLOSED_CONNECTION", "INVALID_CONSTANT",
  "INVALID_METHOD", "INVALID_STATUS", "INVALID_URL", "INVALID_VERSION",
  "LF_EXPECTED", "INVALID_HEADER_TOKEN", "STRICT", "CONTENT_LENGTH",
  "INVALID_CONTENT_LENGTH", "UNEXPECTED_CONTENT_LENGTH",
  "INVALID_TRANSFER_ENCODING", "INVALID_CHUNK_SIZE"}

Record ==
  [type : {"request", "response"}, state : HeadState \cup BodyState,
   header : HeaderState, flags : SUBSET Flag, usesTE : BOOLEAN,
   length : 0..MaxLength, http11 : BOOLEAN, noBody : BOOLEAN,
   switching : BOOLEAN, connect : BOOLEAN, upgrade : BOOLEAN, errno : Error \cup {"OK"}]

\* TypeOK, and the fields that it leaves out.
Typed ==
  /\ parser \in Record
  /\ nread \in 0..Many
  /\ byte \in Byte \cup {NoByte}
  /\ inCall \in BOOLEAN
  /\ value \in Nat /\ owed \in Nat /\ pending \in Nat
  /\ phase \in {"idle", "head", "body"}

\* The mark that may be set in a state, whether its byte was looked at or not.
MarkFor(state) ==
  Resumed(state) \cup IF state = "chunk_data_almost_done" THEN {"body"} ELSE {}

Marked == marks \subseteq MarkFor(parser.state)

\* The digits read so far, none of them lost.
Spelled == parser.length = value /\ value < MaxLength

\* What holds of the length even when an error has stopped the parser.
Bounded ==
  /\ parser.state \in ChunkState => "chunked" \in parser.flags
  /\ parser.state \in SizeState => Spelled
  /\ parser.state = "header_value" /\ parser.header \in Numeric => Spelled
  /\ parser.state \in ReadState =>
       /\ parser.length \in 1..(MaxLength - 1)
       /\ pending = 0 /\ parser.length = owed
  /\ parser.state = "chunk_data_almost_done" => parser.length = 0

CallFits ==
  /\ byte # NoByte => inCall
  /\ inCall => parser.errno = "OK"

\* The part of a message that a state belongs to.  Trailers are headers that
\* come after the body.
PhaseFits ==
  /\ parser.state \in IdleState => phase = "idle"
  /\ parser.state \in LineState \cup {"headers_done"} =>
       phase = "head" /\ "trailing" \notin parser.flags
  /\ parser.state \in FieldState =>
       phase = IF "trailing" \in parser.flags THEN "body" ELSE "head"
  /\ parser.state \in ChunkState \cup BodyState => phase = "body"

\* What header_state can be in a state.  A number is Spelled until its line is
\* through, also when it is folded; that of Content-Length, until the body.
HeaderFits ==
  /\ parser.state \in DiscardState => parser.header \in Name \cup {"general"}
  /\ parser.state = "header_value" => parser.header \notin Name
  /\ parser.state \in ValueState /\ parser.header \in Numeric => Spelled
  /\ phase = "head" =>
       IF "content_length" \in parser.flags THEN Spelled ELSE parser.length = MaxLength

\* Outside a body nothing is owed, and nothing waits for EndOfData.
OwedFits ==
  /\ parser.state \notin ReadState \cup {"chunk_data_almost_done"} =>
       owed = 0 /\ pending = 0
  /\ parser.state = "chunk_data_almost_done" => owed = pending

\* nread is reset before the size of a chunk, and counts its first byte once.
SizeCounted ==
  parser.state = "chunk_size_start" => nread = IF byte = NoByte THEN 0 ELSE 1

Running ==
  parser.errno = "OK" => PhaseFits /\ HeaderFits /\ OwedFits /\ SizeCounted

\* The inductive invariant.
IInv == Typed /\ Marked /\ Bounded /\ CallFits /\ Running


-----------------------------------------------------------------------------
(* States, marks, and what a step does to the fields.                      *)

States == HeadState \cup BodyState

LEMMA SmallModulus ==
  ASSUME NEW i \in Nat, NEW m \in Nat, i <= m
  PROVE  i % (m + 1) = i
OBVIOUS

\* The parts have no state in common.
LEMMA StatesOf ==
  /\ States = IdleState \cup LineState \cup FieldState \cup ChunkState
                \cup BodyState \cup {"headers_done"}
  /\ IdleState \cap (LineState \cup FieldState \cup ChunkState \cup BodyState
                \cup {"headers_done"}) = {}
  /\ LineState \cap (FieldState \cup ChunkState \cup BodyState \cup {"headers_done"}) = {}
  /\ FieldState \cap (ChunkState \cup BodyState \cup {"headers_done"}) = {}
  /\ "headers_done" \notin ChunkState \cup BodyState
  /\ SizeState \subseteq ChunkState /\ ReadState \subseteq ChunkState \cup BodyState
  /\ DiscardState \subseteq FieldState /\ ValueState \subseteq FieldState
  /\ DiscardState \cap ValueState = {}
BY DEF States, HeadState, IdleState, LineState, FieldState, DiscardState, ValueState,
       ChunkState, BodyState, SizeState, ReadState

LEMMA MarksOf ==
  /\ MarkFor("header_field") = {"header_field"}
  /\ MarkFor("header_value") = {"header_value"}
  /\ MarkFor("req_url") = {"url"}
  /\ MarkFor("res_status") = {"status"}
  /\ MarkFor("chunk_data_almost_done") = {"body"}
  /\ \A t \in States \ {"header_field", "header_value", "req_url", "res_status",
                        "chunk_data_almost_done"} : MarkFor(t) = {}
BY DEF MarkFor, Resumed, MarkOf

\* That no byte is to be looked at is not taken for a byte.
LEMMA ByteIsByte == NoByte \notin Byte
BY ByteAssumption DEF Byte, Token, Ends, Blank, NoByte

LEMMA Unchanged ==
  ASSUME IInv, UNCHANGED vars
  PROVE  IInv'
BY DEF vars, history, IInv, Typed, Marked, Bounded, CallFits, Running, PhaseFits,
       HeaderFits, OwedFits, SizeCounted, Spelled

LEMMA AtFields ==
  ASSUME parser \in Record, NEW t \in States
  PROVE  /\ At(t) \in Record
         /\ At(t).state = t /\ At(t).header = parser.header
         /\ At(t).flags = parser.flags /\ At(t).length = parser.length
         /\ At(t).errno = parser.errno
BY DEF At, Record, States

LEMMA ClearedFields ==
  ASSUME NEW p \in Record
  PROVE  Cleared(p) \in Record /\ Cleared(p).state = p.state
<1>1. MaxLength \in 0..MaxLength
  BY MaxLengthAssumption
<1>2. QED
  BY <1>1 DEF Cleared, Record

LEMMA StatusLineType ==
  ASSUME NEW p \in Record, NEW v \in BOOLEAN, NEW n \in BOOLEAN, NEW w \in BOOLEAN
  PROVE  [p EXCEPT !.state = "res_status", !.http11 = v, !.noBody = n, !.switching = w]
            \in Record
<1>1. "res_status" \in HeadState
  BY DEF HeadState
<1>2. QED
  BY <1>1 DEF Record

LEMMA StatusLineFields ==
  ASSUME NEW p \in Record, NEW v \in BOOLEAN, NEW status
  PROVE  LET q == StatusLine(p, v, status)
         IN  /\ q \in Record
             /\ q.state = "res_status" /\ q.header = p.header /\ q.flags = p.flags
             /\ q.length = p.length /\ q.errno = p.errno
<1>1. (status # "plain") \in BOOLEAN /\ (status = "switching") \in BOOLEAN
  OBVIOUS
<1>2. StatusLine(p, v, status) \in Record
  BY <1>1, StatusLineType DEF StatusLine
<1>3. QED
  BY <1>2 DEF StatusLine, Record

LEMMA RequestLineFields ==
  ASSUME parser \in Record, NEW v \in BOOLEAN
  PROVE  LET q == RequestLine(v)
         IN  /\ q \in Record /\ q.state \in {"line_almost_done", "header_field_start"}
             /\ q.flags = parser.flags /\ q.length = parser.length
             /\ q.errno = parser.errno /\ MarkFor(q.state) = {}
<1>1. RequestLine(v).state \in {"line_almost_done", "header_field_start"}
  BY DEF RequestLine, Record
<1>2. QED
  BY <1>1, MarksOf DEF RequestLine, Record, States, HeadState

\* A move within the head of a message, or between messages: the length, and
\* whether there is one, stay; a number goes on only where one was.
LEMMA HeadStep ==
  ASSUME IInv, inCall, byte # NoByte,
         NEW p \in Record, NEW ms,
         Takes(p, ms) \/ Again(p, ms),
         ms \subseteq MarkFor(p.state),
         p.errno = parser.errno, p.length = parser.length,
         "content_length" \in p.flags <=> "content_length" \in parser.flags,
         "trailing" \in p.flags <=> "trailing" \in parser.flags,
         \/ parser.state \in IdleState /\ p.state \in IdleState
         \/ parser.state \in LineState /\ p.state \in LineState
         \/ parser.state \in LineState \cup FieldState /\ p.state \in FieldState,
         p.state \in DiscardState => p.header \in Name \cup {"general"},
         p.state = "header_value" => p.header \notin Name,
         p.state \in ValueState /\ p.header \in Numeric =>
           parser.state \in ValueState /\ parser.header \in Numeric
  PROVE  IInv'
<1>1. parser' = p /\ marks' = ms /\ byte' \in {byte, NoByte}
      /\ UNCHANGED <<nread, inCall, value, phase, owed, pending>>
  BY DEF Takes, Again, Step, history
<1>2. parser.errno = "OK" /\ Running
  BY DEF IInv, CallFits, Running
<1>3. p.state \in States /\ parser.state \in States
  BY DEF IInv, Typed, Record, States
<1>4. Typed'
  BY <1>1 DEF IInv, Typed
<1>5. Marked'
  BY <1>1 DEF Marked
<1>6. parser'.state \notin ChunkState \cup BodyState \cup {"headers_done"}
      /\ parser'.state \notin SizeState \cup ReadState \cup {"chunk_data_almost_done"}
      /\ parser.state \notin SizeState \cup ReadState \cup {"chunk_data_almost_done"}
  BY <1>1, <1>3, StatesOf DEF BodyState
<1>7. Bounded'
  BY <1>1, <1>2, <1>6, StatesOf DEF Bounded, Running, HeaderFits, Spelled, ValueState, ChunkState
<1>8. CallFits'
  BY <1>1, <1>2 DEF CallFits
<1>9. PhaseFits'
  BY <1>1, <1>2, <1>6, StatesOf DEF Running, PhaseFits
<1>10. HeaderFits'
  BY <1>1, <1>2 DEF Running, HeaderFits, Spelled
<1>11. OwedFits'
  BY <1>1, <1>2, <1>6 DEF Running, OwedFits
<1>12. SizeCounted'
  BY <1>1, <1>6 DEF SizeCounted, ChunkState
<1>13. QED
  BY <1>4, <1>5, <1>7, <1>8, <1>9, <1>10, <1>11, <1>12 DEF IInv, Running

\* An error: only Bounded is asked of the parser that is left behind.
LEMMA FailStep ==
  ASSUME IInv, NEW p \in Record, NEW e \in Error, Fails(p, e),
         \/ p = parser /\ parser.state \notin ReadState
         \/ p.state \in IdleState
         \/ p.state = "header_value" /\ p.header \notin Numeric
  PROVE  IInv'
<1>1. /\ parser' \in Record /\ parser'.state = p.state /\ parser'.header = p.header
      /\ parser'.flags = p.flags /\ parser'.length = p.length /\ parser'.errno = e
  BY DEF Fails, Record
<1>2. /\ inCall' = FALSE /\ byte' = NoByte /\ marks' = {} /\ pending' = 0
      /\ UNCHANGED <<nread, value, phase, owed>>
  BY DEF Fails
<1>3. p.state \in States
  BY DEF Record, States
<1>4. Typed'
  BY <1>1, <1>2 DEF IInv, Typed
<1>5. Marked'
  BY <1>2 DEF Marked
<1>6. Bounded'
  <2>1. CASE p = parser /\ parser.state \notin ReadState
    BY <1>1, <1>2, <2>1 DEF IInv, Bounded, Spelled
  <2>2. CASE p.state \in IdleState
    BY <1>1, <2>2 DEF Bounded, IdleState, ChunkState, SizeState, ReadState
  <2>3. CASE p.state = "header_value" /\ p.header \notin Numeric
    BY <1>1, <2>3 DEF Bounded, ChunkState, SizeState, ReadState
  <2>4. QED
    BY <2>1, <2>2, <2>3
<1>7. CallFits'
  BY <1>2 DEF CallFits
<1>8. Running'
  BY <1>1 DEF Running, Error
<1>9. QED
  BY <1>4, <1>5, <1>6, <1>7, <1>8 DEF IInv

\* The error that leaves the parser as it was.
LEMMA FailsHere ==
  ASSUME IInv, NEW e \in Error, Fails(parser, e),
         parser.state \notin ReadState
  PROVE  IInv'
<1>1. parser \in Record
  BY DEF IInv, Typed
<1>2. QED
  BY <1>1, FailStep

-----------------------------------------------------------------------------
(* The cases of the switch.                                                *)

\* COUNT_HEADER_SIZE, in the states that are counted.
LEMMA ByteCounted ==
  ASSUME IInv, nread' = Counted(nread)
  PROVE  nread' \in 0..Many /\ (nread = 0 /\ parser.state \notin BodyState => nread' = 1)
BY DEF IInv, Typed, Counted, Many

\* A call begins, goes to the next byte, ends.
LEMMA CallStep ==
  ASSUME IInv, CallNext
  PROVE  IInv'
<1>1. ASSUME NEW c \in Byte, Call(c) PROVE IInv'
  <2>1. Typed'
    BY <1>1, ByteCounted DEF Call, IInv, Typed, history
  <2>2. Marked'
    BY <1>1 DEF Call, Marked, MarkFor
  <2>3. Bounded' /\ CallFits'
    BY <1>1 DEF Call, IInv, Bounded, CallFits, Spelled, history
  <2>4. PhaseFits' /\ HeaderFits' /\ OwedFits'
    BY <1>1 DEF Call, IInv, Running, PhaseFits, HeaderFits, OwedFits, Spelled, history
  <2>5. SizeCounted'
    <3>1. nread = 0 /\ parser.state \notin BodyState => nread' = 1
      BY <1>1, ByteCounted DEF Call
    <3>2. byte = NoByte /\ byte' # NoByte /\ SizeCounted /\ parser' = parser
      BY <1>1, ByteIsByte DEF Call, IInv, Running, CallFits
    <3>3. QED
      BY <3>1, <3>2 DEF SizeCounted, BodyState
  <2>6. QED
    BY <2>1, <2>2, <2>3, <2>4, <2>5 DEF IInv, Running
<1>2. ASSUME NEW c \in Byte, NextByte(c) PROVE IInv'
  <2>1. Typed'
    BY <1>2, ByteCounted DEF NextByte, IInv, Typed, history
  <2>2. Marked'
    BY <1>2 DEF NextByte, IInv, Marked
  <2>3. Bounded' /\ CallFits'
    BY <1>2 DEF NextByte, IInv, Bounded, CallFits, Spelled, history
  <2>4. PhaseFits' /\ HeaderFits' /\ OwedFits'
    BY <1>2 DEF NextByte, IInv, Running, PhaseFits, HeaderFits, OwedFits, Spelled,
                CallFits, history
  <2>5. SizeCounted'
    <3>1. nread = 0 /\ parser.state \notin BodyState => nread' = 1
      BY <1>2, ByteCounted DEF NextByte
    <3>2. byte = NoByte /\ byte' # NoByte /\ SizeCounted /\ parser' = parser
      BY <1>2, ByteIsByte DEF NextByte, IInv, Running, CallFits
    <3>3. QED
      BY <3>1, <3>2 DEF SizeCounted, BodyState
  <2>6. QED
    BY <2>1, <2>2, <2>3, <2>4, <2>5 DEF IInv, Running
<1>3. ASSUME EndOfData PROVE IInv'
  <2>1. /\ parser' = parser /\ inCall' = FALSE /\ byte' = byte /\ byte = NoByte
        /\ marks' = {} /\ pending' = 0 /\ owed' = owed - pending
        /\ UNCHANGED <<nread, value, phase>>
    BY <1>3 DEF EndOfData
  <2>2. parser.errno = "OK" /\ Running
    BY <1>3 DEF EndOfData, IInv, CallFits, Running
  <2>3. /\ owed \in Nat /\ pending \in Nat
        /\ IF parser.state \in ReadState
           THEN pending = 0 /\ owed' = owed ELSE owed' = 0
        /\ owed' \in Nat
    BY <2>1, <2>2 DEF IInv, Typed, Running, OwedFits, Bounded
  <2>4. Typed'
    BY <2>1, <2>3 DEF IInv, Typed
  <2>5. Marked' /\ CallFits'
    BY <2>1 DEF Marked, CallFits
  <2>6. Bounded'
    BY <2>1, <2>3 DEF IInv, Bounded, Spelled
  <2>7. PhaseFits' /\ HeaderFits' /\ SizeCounted'
    BY <2>1, <2>2 DEF Running, PhaseFits, HeaderFits, SizeCounted, Spelled
  <2>8. OwedFits'
    BY <2>1, <2>3 DEF OwedFits, ReadState
  <2>9. QED
    BY <2>4, <2>5, <2>6, <2>7, <2>8 DEF IInv, Running
<1>4. ASSUME HeaderOverflow PROVE IInv'
  <2>1. parser \in Record /\ parser.state \notin ReadState
    <3>1. CallFits /\ parser \in Record /\ inCall
      BY <1>4 DEF HeaderOverflow, IInv, CallFits, Typed
    <3>2. QED
      BY <1>4, <3>1 DEF HeaderOverflow, BodyState, ReadState
  <2>2. Fails(parser, "HEADER_OVERFLOW")
    BY <1>4 DEF HeaderOverflow
  <2>3. QED
    BY <2>1, <2>2, FailsHere DEF Error
<1>5. ASSUME CallAfterError PROVE IInv'
  BY <1>5, Unchanged DEF CallAfterError
<1>6. QED
  BY <1>1, <1>2, <1>3, <1>4, <1>5 DEF CallNext

-----------------------------------------------------------------------------

\* What a case of the switch starts from.
LEMMA AtByte ==
  ASSUME IInv, NEW t \in States, In(t)
  PROVE  /\ inCall /\ byte # NoByte /\ parser \in Record /\ parser.state = t
         /\ parser.errno = "OK" /\ marks \subseteq MarkFor(t)
         /\ PhaseFits /\ HeaderFits /\ OwedFits /\ SizeCounted
BY DEF In, IInv, Typed, CallFits, Marked, Running

\* HeadStep within the start line, and from it to the first header.
LEMMA LineStep ==
  ASSUME IInv, inCall, byte # NoByte, parser.state \in LineState,
         NEW p \in Record, NEW ms,
         Takes(p, ms) \/ Again(p, ms),
         ms \subseteq MarkFor(p.state),
         p.errno = parser.errno, p.length = parser.length, p.flags = parser.flags,
         p.state \in LineState \cup {"header_field_start"}
  PROVE  IInv'
<1>1. /\ p.state \in LineState \/ p.state \in FieldState
      /\ p.state \notin DiscardState \cup ValueState
  BY DEF LineState, FieldState, DiscardState, ValueState
<1>2. p.state # "header_value"
  BY DEF LineState
<1>3. QED
  BY <1>1, <1>2, HeadStep

\* message_begin: flags and length are set back.
LEMMA BeginStep ==
  ASSUME IInv, inCall, byte # NoByte, parser.state \in IdleState,
         NEW t \in {"res_line", "req_method"}, Begins(t)
  PROVE  IInv'
<1>1. parser \in Record /\ MaxLength \in 0..MaxLength
  BY MaxLengthAssumption DEF IInv, Typed
<1>2. /\ parser' \in Record /\ parser'.state = t /\ parser'.header = parser.header
      /\ parser'.flags = {} /\ parser'.length = MaxLength /\ parser'.errno = parser.errno
  BY <1>1 DEF Begins, Step, Cleared, Record, HeadState
<1>3. /\ marks' = marks /\ byte' = NoByte /\ phase' = "head"
      /\ UNCHANGED <<nread, inCall, value, owed, pending>>
  BY DEF Begins, Step
<1>4. parser.errno = "OK" /\ Running /\ marks \subseteq MarkFor(parser.state)
  BY DEF IInv, CallFits, Running, Marked
<1>5. t \in LineState /\ t \in States /\ MarkFor(t) = {} /\ MarkFor(parser.state) = {}
  BY MarksOf DEF LineState, States, HeadState, IdleState
<1>6. /\ t \notin FieldState \cup ChunkState \cup BodyState \cup IdleState
      /\ t \notin SizeState \cup ReadState \cup DiscardState \cup ValueState
      /\ parser.state \notin ReadState \cup {"chunk_data_almost_done"}
  BY <1>5, StatesOf DEF IdleState, ReadState
<1>7. Typed'
  BY <1>2, <1>3 DEF IInv, Typed
<1>8. Marked' /\ CallFits'
  BY <1>2, <1>3, <1>4, <1>5 DEF Marked, CallFits
<1>9. Bounded'
  BY <1>2, <1>6 DEF Bounded
<1>10. PhaseFits'
  BY <1>2, <1>3, <1>6 DEF PhaseFits
<1>11. HeaderFits'
  BY <1>2, <1>3, <1>6 DEF HeaderFits
<1>12. OwedFits' /\ SizeCounted'
  BY <1>2, <1>3, <1>4, <1>6 DEF OwedFits, SizeCounted, Running
<1>13. QED
  BY <1>7, <1>8, <1>9, <1>10, <1>11, <1>12 DEF IInv, Running

\* The cases of the start line.
LEMMA StartLineStep ==
  ASSUME IInv, StartLineNext
  PROVE  IInv'
<1> USE DEF LineState, IdleState, States, HeadState, Error, ReadState
<1>1. ASSUME BlankLine PROVE IInv'
  <2>1. /\ inCall /\ byte # NoByte /\ parser \in Record /\ parser.state \in IdleState
        /\ marks \subseteq MarkFor(parser.state)
    BY <1>1 DEF BlankLine, In, IInv, Typed, Marked
  <2>2. /\ Takes(parser, marks)
        /\ parser.state \notin DiscardState \cup ValueState
        /\ parser.state # "header_value"
    BY <1>1, <2>1 DEF BlankLine, DiscardState, ValueState
  <2>3. QED
    BY <2>1, <2>2, HeadStep
<1>2. ASSUME Dead PROVE IInv'
  BY <1>2, FailsHere, AtByte DEF Dead
<1>3. ASSUME StartRes PROVE IInv'
  <2>1. inCall /\ byte # NoByte /\ parser.state = "start_res" /\ parser \in Record
    BY <1>3, AtByte DEF StartRes
  <2>2. ASSUME Begins("res_line") PROVE IInv'
    BY <2>1, <2>2, BeginStep
  <2>3. ASSUME Fails(Cleared(parser), "INVALID_CONSTANT") PROVE IInv'
    BY <2>1, <2>3, FailStep, ClearedFields
  <2>4. QED
    BY <1>3, <2>2, <2>3 DEF StartRes
<1>4. ASSUME StartReq PROVE IInv'
  <2>1. inCall /\ byte # NoByte /\ parser.state = "start_req" /\ parser \in Record
    BY <1>4, AtByte DEF StartReq
  <2>2. ASSUME Begins("req_method") PROVE IInv'
    BY <2>1, <2>2, BeginStep
  <2>3. ASSUME Fails(Cleared(parser), "INVALID_METHOD") PROVE IInv'
    BY <2>1, <2>3, FailStep, ClearedFields
  <2>4. QED
    BY <1>4, <2>2, <2>3 DEF StartReq
<1>5. ASSUME ResLine PROVE IInv'
  <2>1. /\ inCall /\ byte # NoByte /\ parser.state = "res_line" /\ parser \in Record
        /\ marks \subseteq MarkFor("res_line") /\ MarkFor("res_line") = {}
        /\ MarkFor("res_status") = {"status"}
    BY <1>5, AtByte, MarksOf DEF ResLine
  <2>2. ASSUME Takes(parser, marks) PROVE IInv'
    BY <2>1, <2>2, LineStep
  <2>3. ASSUME NEW v \in BOOLEAN, NEW st \in {"none", "switching", "plain"},
               \/ Takes(StatusLine(parser, v, st), marks \cup {"status"})
               \/ Again(StatusLine(parser, v, st), marks \cup {"status"})
        PROVE IInv'
    BY <2>1, <2>3, LineStep, StatusLineFields
  <2>4. ASSUME Fails(parser, "INVALID_STATUS") PROVE IInv'
    BY <2>1, <2>4, FailsHere
  <2>5. QED
    BY <1>5, <2>2, <2>3, <2>4 DEF ResLine
<1>6. ASSUME ResStatus PROVE IInv'
  <2>1. /\ inCall /\ byte # NoByte /\ parser.state = "res_status" /\ parser \in Record
        /\ marks \subseteq MarkFor("res_status") /\ marks \ {"status"} = {}
    BY <1>6, AtByte, MarksOf DEF ResStatus
  <2>2. ASSUME Takes(parser, marks) PROVE IInv'
    BY <2>1, <2>2, LineStep
  <2>3. ASSUME NEW t \in {"line_almost_done", "header_field_start"},
               Takes(At(t), marks \ {"status"})
        PROVE IInv'
    BY <2>1, <2>3, LineStep, AtFields
  <2>4. QED
    BY <1>6, <2>2, <2>3 DEF ResStatus
<1>7. ASSUME ReqMethod PROVE IInv'
  <2>1. /\ inCall /\ byte # NoByte /\ parser.state = "req_method" /\ parser \in Record
        /\ marks = {} /\ MarkFor("req_method") = {} /\ MarkFor("req_spaces") = {}
    BY <1>7, AtByte, MarksOf DEF ReqMethod
  <2>2. ASSUME Takes(parser, marks) PROVE IInv'
    BY <2>1, <2>2, LineStep
  <2>3. ASSUME NEW c \in BOOLEAN, Takes([At("req_spaces") EXCEPT !.connect = c], marks)
        PROVE IInv'
    <3>1. LET p == [At("req_spaces") EXCEPT !.connect = c]
          IN  /\ p \in Record /\ p.state = "req_spaces" /\ p.flags = parser.flags
              /\ p.length = parser.length /\ p.errno = parser.errno
      BY <2>1 DEF At, Record
    <3>2. QED
      BY <2>1, <2>3, <3>1, LineStep
  <2>4. ASSUME Fails(parser, "INVALID_METHOD") PROVE IInv'
    BY <2>1, <2>4, FailsHere
  <2>5. QED
    BY <1>7, <2>2, <2>3, <2>4 DEF ReqMethod
<1>8. ASSUME ReqSpaces PROVE IInv'
  <2>1. /\ inCall /\ byte # NoByte /\ parser.state = "req_spaces" /\ parser \in Record
        /\ marks = {} /\ MarkFor("req_spaces") = {} /\ MarkFor("req_url") = {"url"}
    BY <1>8, AtByte, MarksOf DEF ReqSpaces
  <2>2. ASSUME Takes(parser, marks) PROVE IInv'
    BY <2>1, <2>2, LineStep
  <2>3. ASSUME Takes(At("req_url"), marks \cup {"url"}) PROVE IInv'
    BY <2>1, <2>3, LineStep, AtFields
  <2>4. ASSUME Fails(parser, "INVALID_URL") PROVE IInv'
    BY <2>1, <2>4, FailsHere
  <2>5. QED
    BY <1>8, <2>2, <2>3, <2>4 DEF ReqSpaces
<1>9. ASSUME ReqUrl PROVE IInv'
  <2>1. /\ inCall /\ byte # NoByte /\ parser.state = "req_url" /\ parser \in Record
        /\ marks \subseteq MarkFor("req_url") /\ marks \ {"url"} = {}
    BY <1>9, AtByte, MarksOf DEF ReqUrl
  <2>2. ASSUME Takes(parser, marks) PROVE IInv'
    BY <2>1, <2>2, LineStep
  <2>3. ASSUME Takes(At("req_http"), marks \ {"url"}) PROVE IInv'
    BY <2>1, <2>3, LineStep, AtFields
  <2>4. ASSUME Takes(RequestLine(FALSE), marks \ {"url"}) PROVE IInv'
    BY <2>1, <2>4, LineStep, RequestLineFields
  <2>5. ASSUME Fails(parser, "INVALID_URL") PROVE IInv'
    BY <2>1, <2>5, FailsHere
  <2>6. QED
    BY <1>9, <2>2, <2>3, <2>4, <2>5 DEF ReqUrl
<1>10. ASSUME ReqHttp PROVE IInv'
  <2>1. /\ inCall /\ byte # NoByte /\ parser.state = "req_http" /\ parser \in Record
        /\ marks = {} /\ MarkFor("req_http") = {}
    BY <1>10, AtByte, MarksOf DEF ReqHttp
  <2>2. ASSUME Takes(parser, marks) PROVE IInv'
    BY <2>1, <2>2, LineStep
  <2>3. ASSUME NEW v \in BOOLEAN, Takes(RequestLine(v), marks) PROVE IInv'
    BY <2>1, <2>3, LineStep, RequestLineFields
  <2>4. ASSUME Fails(parser, "INVALID_VERSION") PROVE IInv'
    BY <2>1, <2>4, FailsHere
  <2>5. QED
    BY <1>10, <2>2, <2>3, <2>4 DEF ReqHttp
<1>11. ASSUME LineAlmostDone PROVE IInv'
  <2>1. /\ inCall /\ byte # NoByte /\ parser.state = "line_almost_done"
        /\ parser \in Record /\ marks = {}
    BY <1>11, AtByte, MarksOf DEF LineAlmostDone
  <2>2. ASSUME Takes(At("header_field_start"), marks) PROVE IInv'
    BY <2>1, <2>2, LineStep, AtFields
  <2>3. ASSUME Fails(parser, "LF_EXPECTED") PROVE IInv'
    BY <2>1, <2>3, FailsHere
  <2>4. QED
    BY <1>11, <2>2, <2>3 DEF LineAlmostDone
<1>12. QED
  BY <1>1, <1>2, <1>3, <1>4, <1>5, <1>6, <1>7, <1>8, <1>9, <1>10, <1>11 DEF StartLineNext

-----------------------------------------------------------------------------

\* What a header says adds flags, and none of those that bear on the length.
LEMMA SaidFields ==
  ASSUME NEW p \in Record
  PROVE  /\ Said(p) \in Record
         /\ Said(p).state = p.state /\ Said(p).header = p.header
         /\ Said(p).length = p.length /\ Said(p).errno = p.errno
         /\ \A f \in {"content_length", "trailing"} : f \in Said(p).flags <=> f \in p.flags
         /\ p.flags \subseteq Said(p).flags
<1>1. CASE p.header \in Connection
  <2>1. Said(p) = [p EXCEPT !.flags = @ \cup {p.header}]
    BY <1>1 DEF Said, Connection
  <2>2. p.flags \cup {p.header} \in SUBSET Flag
    BY <1>1 DEF Record, Flag
  <2>3. QED
    BY <1>1, <2>1, <2>2 DEF Record, Connection
<1>2. CASE p.header = "te_chunked"
  <2>1. Said(p) = [p EXCEPT !.flags = @ \cup {"chunked"}]
    BY <1>2 DEF Said, Connection
  <2>2. p.flags \cup {"chunked"} \in SUBSET Flag
    BY DEF Record, Flag
  <2>3. QED
    BY <2>1, <2>2 DEF Record
<1>3. CASE p.header \notin Connection /\ p.header # "te_chunked"
  BY <1>3 DEF Said
<1>4. QED
  BY <1>1, <1>2, <1>3

LEMMA HeaderDoneFields ==
  ASSUME NEW p \in Record
  PROVE  /\ HeaderDone(p) \in Record
         /\ HeaderDone(p).state = "header_field_start"
         /\ HeaderDone(p).header = "general"
         /\ HeaderDone(p).length = p.length /\ HeaderDone(p).errno = p.errno
         /\ \A f \in {"content_length", "trailing"} :
              f \in HeaderDone(p).flags <=> f \in p.flags
<1>1. "header_field_start" \in States /\ "general" \in HeaderState
  BY DEF States, HeadState, HeaderState
<1>2. Said(p) \in Record
  BY SaidFields
<1>3. /\ HeaderDone(p) \in Record
      /\ HeaderDone(p).state = "header_field_start"
      /\ HeaderDone(p).header = "general"
      /\ HeaderDone(p).length = Said(p).length /\ HeaderDone(p).errno = Said(p).errno
      /\ HeaderDone(p).flags = Said(p).flags
  BY <1>1, <1>2 DEF HeaderDone, Record, States
<1>4. QED
  BY <1>3, SaidFields

\* HeadStep for a step that only changes the state.
LEMMA FieldMove ==
  ASSUME IInv, inCall, byte # NoByte, parser.state \in FieldState,
         NEW t \in FieldState, NEW ms,
         Takes(At(t), ms) \/ Again(At(t), ms),
         ms \subseteq MarkFor(t),
         t \in DiscardState => parser.header \in Name \cup {"general"},
         t = "header_value" => parser.header \notin Name,
         t \in ValueState /\ parser.header \in Numeric => parser.state \in ValueState
  PROVE  IInv'
<1>1. t \in States /\ parser \in Record
  BY StatesOf DEF IInv, Typed
<1>2. /\ At(t) \in Record
      /\ At(t).state = t /\ At(t).header = parser.header
      /\ At(t).flags = parser.flags /\ At(t).length = parser.length
      /\ At(t).errno = parser.errno
  BY <1>1, AtFields
<1>3. QED
  BY <1>2, HeadStep

\* HeadStep for the end of a header.
LEMMA DoneStep ==
  ASSUME IInv, inCall, byte # NoByte, parser.state \in FieldState,
         Again(HeaderDone(parser), {})
  PROVE  IInv'
<1>1. parser \in Record
  BY DEF IInv, Typed
<1>2. /\ "header_field_start" \in FieldState
      /\ "header_field_start" \notin DiscardState \cup ValueState
  BY DEF FieldState, DiscardState, ValueState
<1>3. QED
  BY <1>1, <1>2, HeaderDoneFields, HeadStep

\* The cases of a header's name and of the space before its value.
LEMMA HeaderNameStep ==
  ASSUME IInv, HeaderFieldStart \/ HeaderField \/ DiscardWs \/ DiscardWsAlmostDone
                 \/ DiscardLws
  PROVE  IInv'
<1> USE DEF FieldState, DiscardState, ValueState, ReadState, Error
<1>1. ASSUME HeaderFieldStart PROVE IInv'
  <2>1. /\ inCall /\ byte # NoByte /\ parser.state = "header_field_start"
        /\ parser \in Record /\ marks = {} /\ MarkFor("header_field") = {"header_field"}
    BY <1>1, AtByte, MarksOf DEF HeaderFieldStart, States, HeadState
  <2>2. ASSUME \/ Takes(At("headers_almost_done"), marks)
               \/ Again(At("headers_almost_done"), marks)
        PROVE IInv'
    BY <2>1, <2>2, FieldMove
  <2>3. ASSUME Takes(At("header_field"), marks \cup {"header_field"}) PROVE IInv'
    BY <2>1, <2>3, FieldMove
  <2>4. ASSUME Fails(parser, "INVALID_HEADER_TOKEN") PROVE IInv'
    BY <2>1, <2>4, FailsHere
  <2>5. QED
    BY <1>1, <2>2, <2>3, <2>4 DEF HeaderFieldStart
<1>2. ASSUME HeaderField PROVE IInv'
  <2>1. /\ inCall /\ byte # NoByte /\ parser.state = "header_field" /\ parser \in Record
        /\ marks \subseteq MarkFor("header_field") /\ marks \ {"header_field"} = {}
    BY <1>2, AtByte, MarksOf DEF HeaderField, States, HeadState
  <2>2. ASSUME Takes(parser, marks) PROVE IInv'
    BY <2>1, <2>2, HeadStep
  <2>3. ASSUME NEW h \in Names \cup {"general"}, NEW te \in BOOLEAN,
               Takes([At("header_value_discard_ws") EXCEPT
                        !.header = h, !.usesTE = @ \/ te], {})
        PROVE IInv'
    <3>1. h \in HeaderState /\ h \in Name \cup {"general"}
      BY HeadersAssumption DEF HeaderState
    <3>2. LET p == [At("header_value_discard_ws") EXCEPT
                      !.header = h, !.usesTE = @ \/ te]
          IN  /\ p \in Record /\ p.state = "header_value_discard_ws" /\ p.header = h
              /\ p.flags = parser.flags /\ p.length = parser.length
              /\ p.errno = parser.errno
      BY <2>1, <3>1 DEF At, Record, HeadState
    <3>3. QED
      BY <2>1, <2>3, <3>1, <3>2, HeadStep
  <2>4. ASSUME Fails(parser, "INVALID_HEADER_TOKEN") PROVE IInv'
    BY <2>1, <2>4, FailsHere
  <2>5. QED
    BY <1>2, <2>1, <2>2, <2>3, <2>4 DEF HeaderField
<1>3. ASSUME DiscardWs PROVE IInv'
  <2>1. /\ inCall /\ byte # NoByte /\ parser.state = "header_value_discard_ws"
        /\ parser \in Record /\ marks = {}
        /\ parser.header \in Name \cup {"general"} /\ parser.header \notin Numeric
    BY <1>3, AtByte, MarksOf DEF DiscardWs, States, HeadState, HeaderFits, Name, Numeric
  <2>2. ASSUME Takes(parser, marks) PROVE IInv'
    BY <2>1, <2>2, HeadStep
  <2>3. ASSUME NEW t \in {"header_value_discard_ws_almost_done",
                          "header_value_discard_lws", "header_value_start"},
               Takes(At(t), marks) \/ Again(At(t), marks)
        PROVE IInv'
    BY <2>1, <2>3, FieldMove
  <2>4. QED
    BY <1>3, <2>2, <2>3 DEF DiscardWs
<1>4. ASSUME DiscardWsAlmostDone PROVE IInv'
  <2>1. /\ inCall /\ byte # NoByte
        /\ parser.state = "header_value_discard_ws_almost_done"
        /\ parser \in Record /\ marks = {} /\ parser.header \in Name \cup {"general"}
    BY <1>4, AtByte, MarksOf DEF DiscardWsAlmostDone, States, HeadState, HeaderFits
  <2>2. ASSUME Takes(At("header_value_discard_lws"), marks) PROVE IInv'
    BY <2>1, <2>2, FieldMove
  <2>3. ASSUME Fails(parser, "STRICT") PROVE IInv'
    BY <2>1, <2>3, FailsHere
  <2>4. QED
    BY <1>4, <2>2, <2>3 DEF DiscardWsAlmostDone
<1>5. ASSUME DiscardLws PROVE IInv'
  <2>1. /\ inCall /\ byte # NoByte /\ parser.state = "header_value_discard_lws"
        /\ parser \in Record /\ marks = {} /\ marks \ {"header_value"} = {}
        /\ parser.header \in Name \cup {"general"}
    BY <1>5, AtByte, MarksOf DEF DiscardLws, States, HeadState, HeaderFits
  <2>2. ASSUME Takes(At("header_value_discard_ws"), marks) PROVE IInv'
    BY <2>1, <2>2, FieldMove
  <2>3. ASSUME Again(HeaderDone(parser), {}) PROVE IInv'
    BY <2>1, <2>3, DoneStep
  <2>4. ASSUME Fails(parser, "INVALID_CONTENT_LENGTH") PROVE IInv'
    BY <2>1, <2>4, FailsHere
  <2>5. QED
    BY <1>5, <2>1, <2>2, <2>3, <2>4 DEF DiscardLws
<1>6. QED
  BY <1>1, <1>2, <1>3, <1>4, <1>5

-----------------------------------------------------------------------------

\* The conservative test leaves room for any digit: the sum does not wrap, and
\* stays below ULLONG_MAX.
LEMMA FoldIsExact ==
  ASSUME NEW p \in Record, NEW base \in {10, 16}, NEW d \in 0..(base - 1),
         ~TooLong(p, base)
  PROVE  /\ Fold(p, base, d) \in Record
         /\ Fold(p, base, d).length = p.length * base + d
         /\ p.length * base + d \in Nat /\ p.length * base + d < MaxLength
         /\ Fold(p, base, d).state = p.state /\ Fold(p, base, d).header = p.header
         /\ Fold(p, base, d).flags = p.flags /\ Fold(p, base, d).errno = p.errno
<1> DEFINE n == p.length * base + d
<1>1. p.length \in Nat /\ MaxLength \in Nat /\ MaxLength >= 16
  BY MaxLengthAssumption DEF Record
<1>2. n \in Nat /\ n < MaxLength
  <2>1. CASE base = 10
    BY <1>1, <2>1 DEF TooLong
  <2>2. CASE base = 16
    BY <1>1, <2>2 DEF TooLong
  <2>3. QED
    BY <2>1, <2>2
<1>3. n % (MaxLength + 1) = n /\ n \in 0..MaxLength
  BY <1>1, <1>2, SmallModulus
<1>4. Fold(p, base, d) = [p EXCEPT !.length = n]
  BY <1>3 DEF Fold, Record
<1>5. QED
  BY <1>2, <1>3, <1>4 DEF Record

\* A value is never looked at as a name, and no number begins with it.
LEMMA ValueBeginsFields ==
  ASSUME NEW q \in Record, q.header # "content_length", NEW p \in ValueBegins(q)
  PROVE  /\ p \in Record /\ p.state = q.state /\ p.length = q.length
         /\ p.errno = q.errno
         /\ \A f \in {"content_length", "trailing"} : f \in p.flags <=> f \in q.flags
         /\ p.header \notin Name /\ (p.header \in Numeric => q.header \in Numeric)
<1> DEFINE New == {"te_token", "te_matching", "conn_token", "conn_matching"}
<1>1. CASE q.header \in {"transfer_encoding", "connection"}
  <2>1. PICK h \in New : p = [q EXCEPT !.header = h]
    BY <1>1 DEF ValueBegins
  <2>2. h \in HeaderState /\ h \notin Name \cup Numeric
    BY DEF HeaderState, Name, Numeric
  <2>3. QED
    BY <2>1, <2>2 DEF Record
<1>2. CASE q.header = "upgrade"
  <2>1. p = [q EXCEPT !.flags = @ \cup {"upgrade"}, !.header = "general"]
    BY <1>2 DEF ValueBegins
  <2>2. "general" \in HeaderState /\ "general" \notin Name \cup Numeric
        /\ "upgrade" \in Flag
    BY DEF HeaderState, Name, Numeric, Flag
  <2>3. QED
    BY <2>1, <2>2 DEF Record
<1>3. CASE q.header \in {"te_start", "conn_start", "content_length_ws"}
  BY <1>3 DEF ValueBegins, Name
<1>4. CASE q.header \notin {"transfer_encoding", "connection", "upgrade", "te_start",
                            "conn_start", "content_length_ws"}
  <2>1. p = [q EXCEPT !.header = "general"]
    BY <1>4 DEF ValueBegins
  <2>2. "general" \in HeaderState /\ "general" \notin Name \cup Numeric
    BY DEF HeaderState, Name, Numeric
  <2>3. QED
    BY <2>1, <2>2 DEF Record
<1>5. QED
  BY <1>1, <1>2, <1>3, <1>4

\* Nor does it become either later on.
LEMMA GoesOnFields ==
  ASSUME IInv, parser.header \notin Name \cup Numeric, NEW h \in ValueGoesOn
  PROVE  h \in HeaderState /\ h \notin Name \cup Numeric
<1> DEFINE Header == HeaderState \ (Name \cup Numeric)
<1>1. parser.header \in Header /\ Options \subseteq Header
  BY HeadersAssumption DEF IInv, Typed, Record, HeaderState, Name, Numeric, Connection
<1>2. {"general", "te_start", "te_matching", "te_token", "te_chunked",
       "conn_start", "conn_matching", "conn_token"} \subseteq Header
  BY DEF HeaderState, Name, Numeric
<1>3. /\ TokenStart("te_matching", "te_token") \subseteq Header
      /\ TokenStart("conn_matching", "conn_token") \subseteq Header
  BY <1>1, <1>2 DEF TokenStart
<1>4. ValueGoesOn \subseteq Header
  BY <1>1, <1>2, <1>3 DEF ValueGoesOn
<1>5. QED
  BY <1>4

\* The length of a header, before and after a digit of it.
LEMMA DigitStep ==
  ASSUME IInv, inCall, byte # NoByte,
         parser.state \in {"header_value_start", "header_value"},
         NEW p \in Record, NEW ms \in SUBSET {"header_value"}, Step(p, ms),
         byte' = NoByte, UNCHANGED <<phase, owed, pending>>,
         p.state = "header_value", p.header = "content_length_num",
         p.errno = parser.errno,
         "trailing" \in p.flags <=> "trailing" \in parser.flags,
         phase = "head" => "content_length" \in p.flags,
         value' \in Nat, p.length = value', value' < MaxLength
  PROVE  IInv'
<1>1. parser' = p /\ marks' = ms /\ UNCHANGED <<nread, inCall>>
  BY DEF Step
<1>2. parser.errno = "OK" /\ Running
  BY DEF IInv, CallFits, Running
<1>3. Typed'
  BY <1>1 DEF IInv, Typed
<1>4. Marked'
  BY <1>1, MarksOf DEF Marked
<1>5. Bounded'
  BY <1>1 DEF Bounded, Spelled, ChunkState, SizeState, ReadState
<1>6. CallFits'
  BY <1>1, <1>2 DEF CallFits
<1>7. "header_value" \in FieldState /\ parser.state \in FieldState
  BY DEF FieldState, ValueState
<1>8. PhaseFits'
  BY <1>1, <1>2, <1>7, StatesOf DEF PhaseFits, Running
<1>9. HeaderFits'
  BY <1>1, <1>2 DEF HeaderFits, Running, Spelled, DiscardState, Name
<1>10. OwedFits' /\ SizeCounted'
  BY <1>1, <1>2 DEF OwedFits, SizeCounted, Running, ReadState
<1>11. QED
  BY <1>3, <1>4, <1>5, <1>6, <1>8, <1>9, <1>10 DEF IInv, Running

LEMMA FirstDigitFields ==
  ASSUME NEW p \in Record, NEW d \in 0..15
  PROVE  LET q == FirstDigit(p, d)
         IN  /\ q \in Record /\ q.state = p.state /\ q.header = "content_length_num"
             /\ q.errno = p.errno /\ q.length = d
             /\ q.flags = p.flags \cup {"content_length"}
<1>1. d \in 0..MaxLength /\ "content_length_num" \in HeaderState /\ "content_length" \in Flag
  BY MaxLengthAssumption DEF HeaderState, Flag
<1>2. QED
  BY <1>1 DEF FirstDigit, Record

\* The cases of a header's value.
LEMMA HeaderValueStep ==
  ASSUME IInv, HeaderValueStart \/ HeaderValue \/ ContentLength
  PROVE  IInv'
<1> USE DEF FieldState, DiscardState, ValueState, ReadState, Error
<1>1. ASSUME HeaderValueStart PROVE IInv'
  <2>1. /\ inCall /\ byte # NoByte /\ parser.state = "header_value_start"
        /\ parser \in Record /\ parser.errno = "OK" /\ marks = {}
        /\ MarkFor("header_value") = {"header_value"}
    BY <1>1, AtByte, MarksOf DEF HeaderValueStart, States, HeadState
  <2> DEFINE q == At("header_value")
  <2>2. /\ q \in Record /\ q.state = "header_value" /\ q.header = parser.header
        /\ q.flags = parser.flags /\ q.length = parser.length /\ q.errno = parser.errno
    BY <2>1, AtFields DEF States, HeadState
  <2> HIDE DEF q
  <2>3. ASSUME parser.header # "content_length", NEW p \in ValueBegins(q),
               Takes(p, marks \cup {"header_value"})
        PROVE IInv'
    <3>1. /\ p \in Record /\ p.state = "header_value" /\ p.length = parser.length
          /\ p.errno = parser.errno
          /\ \A f \in {"content_length", "trailing"} :
               f \in p.flags <=> f \in parser.flags
          /\ p.header \notin Name /\ (p.header \in Numeric => parser.header \in Numeric)
      BY <2>2, <2>3, ValueBeginsFields
    <3>2. QED
      BY <2>1, <2>3, <3>1, HeadStep
  <2>4. ASSUME byte \in DOMAIN Digit, Step(FirstDigit(q, Digit[byte]), {"header_value"}),
               byte' = NoByte, value' = Digit[byte], UNCHANGED <<phase, owed, pending>>
        PROVE IInv'
    <3>1. Digit[byte] \in 0..9 /\ Digit[byte] \in 0..15 /\ Digit[byte] < MaxLength
      BY <2>4, DigitAssumption, MaxLengthAssumption
    <3>2. QED
      BY <2>1, <2>2, <2>4, <3>1, FirstDigitFields, DigitStep
  <2>5. ASSUME parser.header = "content_length", Fails(q, "CONTENT_LENGTH") PROVE IInv'
    BY <2>2, <2>5, FailStep DEF Numeric
  <2>6. QED
    BY <1>1, <2>1, <2>3, <2>4, <2>5 DEF HeaderValueStart, q
<1>2. ASSUME HeaderValue PROVE IInv'
  <2>1. /\ inCall /\ byte # NoByte /\ parser.state = "header_value"
        /\ parser \in Record /\ marks \subseteq MarkFor("header_value")
        /\ parser.header \notin Name \cup Numeric
    BY <1>2, AtByte DEF HeaderValue, States, HeadState, HeaderFits
  <2>2. PICK h \in ValueGoesOn :
          Takes([OptionEnds(parser) EXCEPT !.header = h], marks)
    BY <1>2 DEF HeaderValue
  <2>3. h \in HeaderState /\ h \notin Name \cup Numeric
    BY <2>1, GoesOnFields
  <2>4. /\ OptionEnds(parser) \in Record
        /\ OptionEnds(parser).state = parser.state
        /\ OptionEnds(parser).length = parser.length
        /\ OptionEnds(parser).errno = parser.errno
        /\ \A f \in {"content_length", "trailing"} :
             f \in OptionEnds(parser).flags <=> f \in parser.flags
    BY <2>1, SaidFields DEF OptionEnds
  <2> DEFINE p == [OptionEnds(parser) EXCEPT !.header = h]
  <2>5. /\ p \in Record /\ p.state = "header_value" /\ p.header = h
        /\ p.length = parser.length /\ p.errno = parser.errno
        /\ \A f \in {"content_length", "trailing"} : f \in p.flags <=> f \in parser.flags
    BY <2>1, <2>3, <2>4 DEF Record
  <2> HIDE DEF p
  <2>6. Takes(p, marks)
    BY <2>2 DEF p
  <2>7. QED
    BY <2>1, <2>3, <2>5, <2>6, HeadStep
<1>3. ASSUME ContentLength PROVE IInv'
  <2>1. /\ inCall /\ byte # NoByte /\ parser.state = "header_value"
        /\ parser \in Record /\ marks \subseteq MarkFor("header_value")
        /\ parser.header \in Numeric /\ HeaderFits /\ MarkFor("header_value") = {"header_value"}
    BY <1>3, AtByte, MarksOf DEF ContentLength, States, HeadState
  <2>2. ASSUME Takes([parser EXCEPT !.header = "content_length_ws"], marks) PROVE IInv'
    <3>1. LET p == [parser EXCEPT !.header = "content_length_ws"]
          IN  /\ p \in Record /\ p.state = parser.state /\ p.header = "content_length_ws"
              /\ p.flags = parser.flags /\ p.length = parser.length
              /\ p.errno = parser.errno
      BY <2>1 DEF Record, HeaderState
    <3>2. "content_length_ws" \notin Name
      BY DEF Name
    <3>3. QED
      BY <2>1, <2>2, <3>1, <3>2, HeadStep
  <2>3. ASSUME parser.header = "content_length_num", byte \in DOMAIN Digit,
               ~TooLong(parser, 10), Step(Fold(parser, 10, Digit[byte]), marks),
               byte' = NoByte, value' = value * 10 + Digit[byte],
               UNCHANGED <<phase, owed, pending>>
        PROVE IInv'
    <3> DEFINE p == Fold(parser, 10, Digit[byte])
    <3>1. Digit[byte] \in 0..9
      BY <2>3, DigitAssumption
    <3>2. /\ p \in Record /\ p.length = parser.length * 10 + Digit[byte]
          /\ p.length \in Nat /\ p.length < MaxLength
          /\ p.state = "header_value" /\ p.header = "content_length_num"
          /\ p.flags = parser.flags /\ p.errno = parser.errno
      BY <2>1, <2>3, <3>1, FoldIsExact
    <3>3. parser.length = value
      BY <2>1 DEF HeaderFits, Spelled
    <3> HIDE DEF p
    <3>4. phase = "head" => "content_length" \in parser.flags
      BY <2>1, MaxLengthAssumption DEF HeaderFits, Spelled
    <3>5. QED
      BY <2>1, <2>3, <3>2, <3>3, <3>4, DigitStep DEF p
  <2>4. ASSUME Fails(parser, "INVALID_CONTENT_LENGTH") PROVE IInv'
    BY <2>1, <2>4, FailsHere
  <2>5. QED
    BY <1>3, <2>2, <2>3, <2>4 DEF ContentLength
<1>4. QED
  BY <1>1, <1>2, <1>3

\* A number that is folded stays one.
LEMMA FoldedFields ==
  ASSUME parser \in Record
  PROVE  LET q == Folded(At("header_value_start"))
         IN  /\ q \in Record /\ q.state = "header_value_start"
             /\ q.flags = parser.flags /\ q.length = parser.length
             /\ q.errno = parser.errno
             /\ q.header \in Numeric => parser.header \in Numeric
<1> DEFINE r == At("header_value_start")
           h == IF r.header = "content_length_num" THEN "content_length_ws" ELSE r.header
<1>1. /\ r \in Record /\ r.state = "header_value_start" /\ r.header = parser.header
      /\ r.flags = parser.flags /\ r.length = parser.length /\ r.errno = parser.errno
  BY AtFields DEF States, HeadState
<1> HIDE DEF r
<1>2. h \in HeaderState /\ (h \in Numeric => parser.header \in Numeric)
  BY <1>1 DEF Record, HeaderState, Numeric
<1>3. Folded(r) = [r EXCEPT !.header = h]
  BY DEF Folded
<1> HIDE DEF h
<1>4. /\ Folded(r) \in Record /\ Folded(r).state = r.state /\ Folded(r).header = h
      /\ Folded(r).flags = r.flags /\ Folded(r).length = r.length
      /\ Folded(r).errno = r.errno
  BY <1>1, <1>2, <1>3 DEF Record
<1>5. QED
  BY <1>1, <1>2, <1>4 DEF r

\* The end of a value, and of its line.
LEMMA HeaderEndStep ==
  ASSUME IInv, HeaderValueEnds \/ HeaderAlmostDone \/ HeaderValueLws
  PROVE  IInv'
<1> USE DEF FieldState, DiscardState, ValueState, ReadState, Error
<1>1. ASSUME HeaderValueEnds PROVE IInv'
  <2>1. /\ inCall /\ byte # NoByte /\ parser.state = "header_value"
        /\ marks \ {"header_value"} = {}
    BY <1>1, AtByte, MarksOf DEF HeaderValueEnds, States, HeadState
  <2>2. ASSUME \/ Takes(At("header_almost_done"), {})
               \/ Again(At("header_almost_done"), {})
        PROVE IInv'
    BY <2>1, <2>2, FieldMove
  <2>3. ASSUME Fails(parser, "INVALID_HEADER_TOKEN") PROVE IInv'
    BY <2>1, <2>3, FailsHere
  <2>4. QED
    BY <1>1, <2>1, <2>2, <2>3 DEF HeaderValueEnds
<1>2. ASSUME HeaderAlmostDone PROVE IInv'
  <2>1. inCall /\ byte # NoByte /\ parser.state = "header_almost_done" /\ marks = {}
    BY <1>2, AtByte, MarksOf DEF HeaderAlmostDone, States, HeadState
  <2>2. ASSUME Takes(At("header_value_lws"), {}) PROVE IInv'
    BY <2>1, <2>2, FieldMove
  <2>3. ASSUME Fails(parser, "LF_EXPECTED") PROVE IInv'
    BY <2>1, <2>3, FailsHere
  <2>4. QED
    BY <1>2, <2>1, <2>2, <2>3 DEF HeaderAlmostDone
<1>3. ASSUME HeaderValueLws PROVE IInv'
  <2>1. /\ inCall /\ byte # NoByte /\ parser.state = "header_value_lws"
        /\ parser \in Record /\ marks = {}
    BY <1>3, AtByte, MarksOf DEF HeaderValueLws, States, HeadState
  <2>2. ASSUME Again(Folded(At("header_value_start")), {}) PROVE IInv'
    <3> DEFINE q == Folded(At("header_value_start"))
    <3>1. /\ q \in Record /\ q.state = "header_value_start"
          /\ q.flags = parser.flags /\ q.length = parser.length
          /\ q.errno = parser.errno
          /\ q.header \in Numeric => parser.header \in Numeric
      BY <2>1, FoldedFields
    <3> HIDE DEF q
    <3>2. Again(q, {})
      BY <2>2 DEF q
    <3>3. QED
      BY <2>1, <3>1, <3>2, HeadStep
  <2>3. ASSUME Again(HeaderDone(parser), {}) PROVE IInv'
    BY <2>1, <2>3, DoneStep
  <2>4. QED
    BY <1>3, <2>1, <2>2, <2>3 DEF HeaderValueLws
<1>4. QED
  BY <1>1, <1>2, <1>3

-----------------------------------------------------------------------------

\* message_complete, from the head or from the body.
LEMMA CompleteStep ==
  ASSUME IInv, inCall, Completes, marks = {}, nread' \in 0..Many, value' \in Nat,
         owed = 0, pending = 0, UNCHANGED <<owed, pending>>
  PROVE  IInv'
<1>1. parser \in Record /\ parser.errno = "OK"
  BY DEF IInv, Typed, CallFits
<1>2. NewMessage(parser) \in IdleState
  BY DEF NewMessage, StartState, IdleState
<1>3. NewMessage(parser) \in States
  BY <1>2, StatesOf
<1>4. /\ parser' \in Record /\ parser'.state \in IdleState /\ parser'.errno = "OK"
  BY <1>1, <1>2, <1>3, AtFields DEF Completes
<1>5. parser.upgrade \in BOOLEAN
  BY <1>1 DEF Record
<1>6. inCall' \in BOOLEAN
  BY <1>5 DEF Completes
<1>7. byte' = NoByte /\ phase' = "idle" /\ marks' = {}
  BY DEF Completes
<1>8. Typed'
  BY <1>4, <1>6, <1>7 DEF IInv, Typed
<1>9. Marked' /\ CallFits'
  BY <1>4, <1>7 DEF Marked, CallFits
<1>10. /\ parser'.state \notin LineState \cup FieldState \cup ChunkState \cup BodyState
       /\ parser'.state \notin SizeState \cup ReadState \cup DiscardState \cup ValueState
       /\ parser'.state \notin {"headers_done", "header_value", "chunk_size_start",
                                "chunk_data_almost_done"}
  BY <1>4 DEF IdleState, LineState, FieldState, ChunkState, BodyState, SizeState,
              ReadState, DiscardState, ValueState
<1>11. Bounded' /\ PhaseFits' /\ HeaderFits' /\ OwedFits' /\ SizeCounted'
  BY <1>7, <1>10 DEF Bounded, PhaseFits, HeaderFits, OwedFits, SizeCounted
<1>12. QED
  BY <1>8, <1>9, <1>11 DEF IInv, Running

\* The end of the headers, or trailers: a body of known length is owed as many
\* bytes as its digits spell.
LEMMA HeadersEndStep ==
  ASSUME IInv, HeadersAlmostDone \/ HeadersDone
  PROVE  IInv'
<1> USE DEF FieldState, DiscardState, ValueState, ReadState, Error, States, HeadState,
            BodyState
<1>1. ASSUME HeadersAlmostDone PROVE IInv'
  <2>1. /\ inCall /\ byte # NoByte /\ parser.state = "headers_almost_done" /\ marks = {}
        /\ parser \in Record /\ parser.errno = "OK"
        /\ PhaseFits /\ HeaderFits /\ OwedFits /\ SizeCounted
    BY <1>1, AtByte, MarksOf DEF HeadersAlmostDone
  <2>2. owed = 0 /\ pending = 0
        /\ phase = IF "trailing" \in parser.flags THEN "body" ELSE "head"
    BY <2>1 DEF OwedFits, PhaseFits
  <2>3. ASSUME NEW p \in Record, Again(p, {}),
               p.errno = "OK", p.length = parser.length, p.flags = parser.flags,
               \/ p.state = "message_done" /\ "trailing" \in parser.flags
               \/ p.state = "headers_done" /\ "trailing" \notin parser.flags
        PROVE IInv'
    <3>1. /\ parser' = p /\ marks' = {}
          /\ UNCHANGED <<byte, nread, inCall, value, phase, owed, pending>>
      BY <2>3 DEF Again, Step, history
    <3>2. Typed' /\ Marked' /\ CallFits'
      BY <2>3, <3>1 DEF IInv, Typed, Marked, CallFits
    <3>3. Bounded' /\ OwedFits' /\ SizeCounted'
      BY <2>2, <2>3, <3>1 DEF Bounded, OwedFits, SizeCounted, ChunkState, SizeState
    <3>4. PhaseFits'
      BY <2>2, <2>3, <3>1 DEF PhaseFits, IdleState, LineState, ChunkState
    <3>5. HeaderFits'
      BY <2>1, <2>3, <3>1 DEF HeaderFits, Spelled
    <3>6. QED
      BY <3>2, <3>3, <3>4, <3>5 DEF IInv, Running
  <2>4. ASSUME Again(At("message_done"), {}), "trailing" \in parser.flags PROVE IInv'
    BY <2>1, <2>3, <2>4, AtFields
  <2>5. ASSUME Again([At("headers_done") EXCEPT !.upgrade = Upgrades(parser)], {}),
               "trailing" \notin parser.flags
        PROVE IInv'
    <3>1. Upgrades(parser) \in BOOLEAN
      BY <2>1 DEF Upgrades, Record
    <3> DEFINE p == [At("headers_done") EXCEPT !.upgrade = Upgrades(parser)]
    <3>2. /\ p \in Record /\ p.state = "headers_done" /\ p.errno = "OK"
          /\ p.length = parser.length /\ p.flags = parser.flags
      BY <2>1, <3>1 DEF At, Record
    <3> HIDE DEF p
    <3>3. Again(p, {})
      BY <2>5 DEF p
    <3>4. QED
      BY <2>3, <2>5, <3>2, <3>3
  <2>6. ASSUME NEW e \in {"STRICT", "UNEXPECTED_CONTENT_LENGTH"}, Fails(parser, e)
        PROVE IInv'
    BY <2>1, <2>6, FailsHere
  <2>7. QED
    BY <1>1, <2>1, <2>4, <2>5, <2>6 DEF HeadersAlmostDone
<1>2. ASSUME HeadersDone PROVE IInv'
  <2>1. /\ inCall /\ byte # NoByte /\ parser.state = "headers_done" /\ marks = {}
        /\ parser \in Record /\ parser.errno = "OK"
        /\ PhaseFits /\ HeaderFits /\ OwedFits /\ SizeCounted
    BY <1>2, AtByte, MarksOf DEF HeadersDone
  <2>2. /\ owed = 0 /\ pending = 0 /\ phase = "head" /\ "trailing" \notin parser.flags
        /\ IF "content_length" \in parser.flags THEN Spelled ELSE parser.length = MaxLength
    BY <2>1 DEF OwedFits, PhaseFits, HeaderFits
  <2>3. nread' = 0 /\ value' = 0 /\ pending' = 0
    BY <1>2, <2>2 DEF HeadersDone
  <2>4. ASSUME Completes, UNCHANGED owed PROVE IInv'
    BY <2>1, <2>2, <2>3, <2>4, CompleteStep DEF Many
  <2>5. ASSUME parser' = [parser EXCEPT !.errno = "INVALID_TRANSFER_ENCODING"],
               inCall' = FALSE, byte' = NoByte, marks' = {}, UNCHANGED <<phase, owed>>
        PROVE IInv'
    <3>1. /\ parser' \in Record /\ parser'.state = "headers_done"
          /\ parser'.errno = "INVALID_TRANSFER_ENCODING"
      BY <2>1, <2>5 DEF Record
    <3>2. /\ inCall' = FALSE /\ byte' = NoByte /\ marks' = {}
          /\ phase' = phase /\ owed' = owed
      BY <2>5
    <3>3. Marked' /\ CallFits'
      BY <3>2 DEF Marked, CallFits
    <3>4. nread' \in 0..Many /\ value' \in Nat /\ pending' \in Nat
      BY <2>3 DEF Many
    <3>5. owed' \in Nat /\ phase' \in {"idle", "head", "body"}
      BY <3>2 DEF IInv, Typed
    <3>6. Typed'
      BY <3>1, <3>2, <3>4, <3>5 DEF Typed
    <3>7. Bounded' /\ Running'
      BY <3>1 DEF Bounded, Running, ChunkState, SizeState
    <3>8. QED
      BY <3>3, <3>6, <3>7 DEF IInv
  <2>6. ASSUME ~Bodyless(parser), ~Unreadable(parser), parser' = At(BodyStart(parser)),
               byte' = NoByte, phase' = "body",
               owed' = IF BodyStart(parser) = "body_identity" THEN value ELSE 0,
               UNCHANGED <<inCall, marks>>
        PROVE IInv'
    <3> DEFINE t == BodyStart(parser)
    <3>1. /\ t \in {"chunk_size_start", "body_identity", "body_identity_eof"}
          /\ t = "chunk_size_start" => "chunked" \in parser.flags
          /\ t = "body_identity" => parser.length # MaxLength /\ parser.length # 0
      BY <2>6 DEF BodyStart, Bodyless
    <3>2. t = "body_identity" =>
            parser.length = value /\ parser.length \in 1..(MaxLength - 1)
      BY <2>1, <2>2, <3>1, MaxLengthAssumption DEF Spelled, Record
    <3>3. /\ parser' \in Record /\ parser'.state = t /\ parser'.errno = "OK"
          /\ parser'.flags = parser.flags /\ parser'.length = parser.length
      BY <2>1, <2>6, <3>1, AtFields
    <3>4. owed' = IF t = "body_identity" THEN value ELSE 0
      BY <2>6
    <3> HIDE DEF t
    <3>5. owed' \in Nat
      BY <3>4 DEF IInv, Typed
    <3>6. Typed' /\ Marked' /\ CallFits'
      BY <2>1, <2>3, <2>6, <3>3, <3>5 DEF IInv, Typed, Marked, CallFits, Many
    <3>7. Bounded' /\ OwedFits' /\ SizeCounted'
      BY <2>3, <2>6, <3>1, <3>2, <3>3, <3>4
         DEF Bounded, OwedFits, SizeCounted, ChunkState, SizeState
    <3>8. PhaseFits' /\ HeaderFits'
      BY <2>6, <3>1, <3>3 DEF PhaseFits, HeaderFits, IdleState, LineState, ChunkState
    <3>9. QED
      BY <3>6, <3>7, <3>8 DEF IInv, Running
  <2>7. QED
    BY <1>2, <2>4, <2>5, <2>6 DEF HeadersDone
<1>3. QED
  BY <1>1, <1>2

-----------------------------------------------------------------------------

\* k bytes of the data are read.
LEMMA ReadFields ==
  ASSUME parser \in Record, NEW k \in 0..parser.length
  PROVE  /\ Read(k) \in Record /\ Read(k).length = parser.length - k
         /\ Read(k).state = parser.state /\ Read(k).header = parser.header
         /\ Read(k).flags = parser.flags /\ Read(k).errno = parser.errno
<1>1. parser.length - k \in 0..MaxLength
  BY MaxLengthAssumption DEF Record
<1>2. QED
  BY <1>1 DEF Read, Record

LEMMA ReadAllFields ==
  ASSUME parser \in Record, NEW t \in States
  PROVE  LET q == [Read(parser.length) EXCEPT !.state = t]
         IN  /\ q \in Record /\ q.length = 0 /\ q.state = t
             /\ q.flags = parser.flags /\ q.errno = parser.errno
<1>1. parser.length \in 0..parser.length /\ parser.length - parser.length = 0
  BY DEF Record
<1>2. /\ Read(parser.length) \in Record /\ Read(parser.length).length = 0
      /\ Read(parser.length).flags = parser.flags
      /\ Read(parser.length).errno = parser.errno
  BY <1>1, ReadFields
<1>3. QED
  BY <1>2 DEF Record, States

\* The length of a body, or a chunk, is exact, and at least one byte of it is left
\* when some is read: a body is not read backwards.
LEMMA BodyShrinks ==
  ASSUME IInv, parser.state \in {"body_identity", "chunk_data"},
         StartLineNext \/ HeaderNext \/ BodyNext
  PROVE  /\ parser.length - parser'.length - 1 \in Nat
         /\ \/ \E k \in 1..(MaxLength - 1) : BodyPart(k)
            \/ BodyIdentity
            \/ ChunkData
<1>1. parser \in Record /\ parser.length \in 1..(MaxLength - 1)
  BY DEF IInv, Typed, Bounded, ReadState
<1>2. BodyNext
  BY DEF StartLineNext, BlankLine, Dead, StartRes, ResLine, ResStatus, StartReq,
       ReqMethod, ReqSpaces, ReqUrl, ReqHttp, LineAlmostDone,
       HeaderNext, HeaderFieldStart, HeaderField, DiscardWs, DiscardWsAlmostDone,
       DiscardLws, HeaderValueStart, HeaderValue, ContentLength, HeaderValueEnds,
       HeaderAlmostDone, HeaderValueLws, HeadersAlmostDone, HeadersDone, In
<1>3. \/ \E k \in 1..(MaxLength - 1) : BodyPart(k)
      \/ BodyIdentity
      \/ ChunkData
  BY <1>2 DEF BodyNext, BodyIdentityEof, MessageDone, ChunkSizeStart, ChunkSize,
       ChunkParameters, ChunkSizeAlmostDone, ChunkDataAlmostDone, ChunkDataDone, In
<1>4. CASE \E k \in 1..(MaxLength - 1) : BodyPart(k)
  <2>1. PICK k \in 1..(MaxLength - 1) : BodyPart(k)
    BY <1>4
  <2>2. k < parser.length /\ parser' = Read(k)
    BY <2>1 DEF BodyPart, PartOf
  <2>3. k \in 0..parser.length
    BY <1>1, <2>2, MaxLengthAssumption
  <2>4. parser'.length = parser.length - k
    BY <1>1, <2>2, <2>3, ReadFields
  <2>5. parser.length - (parser.length - k) - 1 \in Nat
    BY <1>1, MaxLengthAssumption
  <2>6. QED
    BY <1>3, <2>4, <2>5
<1>5. CASE BodyIdentity \/ ChunkData
  <2>1. \/ parser' = [Read(parser.length) EXCEPT !.state = "message_done"]
        \/ parser' = [Read(parser.length) EXCEPT !.state = "chunk_data_almost_done"]
    BY <1>5 DEF BodyIdentity, ChunkData, Step
  <2>2. parser'.length = 0
    BY <1>1, <2>1, ReadAllFields DEF States, BodyState
  <2>3. parser.length - 0 - 1 \in Nat
    BY <1>1, MaxLengthAssumption
  <2>4. QED
    BY <1>3, <2>2, <2>3
<1>6. QED
  BY <1>3, <1>4, <1>5

\* Bodies without chunks, and the end of a message.
LEMMA BodyStep ==
  ASSUME IInv, BodyIdentity \/ BodyIdentityEof \/ MessageDone
                 \/ \E k \in 1..(MaxLength - 1) : BodyPart(k)
  PROVE  IInv'
<1> USE DEF ReadState, States, HeadState, BodyState
<1>1. ASSUME NEW k \in 1..(MaxLength - 1), BodyPart(k) PROVE IInv'
  <2>1. /\ inCall /\ byte # NoByte /\ parser.state \in ReadState
        /\ parser \in Record /\ parser.errno = "OK"
        /\ PhaseFits /\ Bounded
    BY <1>1, AtByte DEF BodyPart, IInv
  <2>2. /\ phase = "body" /\ pending = 0 /\ parser.length = owed
        /\ parser.length \in 1..(MaxLength - 1)
    BY <2>1 DEF PhaseFits, Bounded
  <2>3. /\ parser' = Read(k) /\ k < parser.length /\ owed' = owed - (pending + k)
        /\ pending' = 0 /\ byte' = NoByte /\ inCall' = FALSE /\ marks' = {}
        /\ UNCHANGED <<nread, value, phase>>
    BY <1>1 DEF BodyPart, PartOf
  <2>4. k \in 0..parser.length /\ owed' = parser.length - k
        /\ owed' \in 1..(MaxLength - 1) /\ owed' \in Nat
    BY <2>2, <2>3, MaxLengthAssumption
  <2>5. /\ parser' \in Record /\ parser'.length = owed'
        /\ parser'.state = parser.state /\ parser'.flags = parser.flags
        /\ parser'.errno = "OK"
    BY <2>1, <2>3, <2>4, ReadFields
  <2>6. Typed'
    BY <2>3, <2>4, <2>5 DEF IInv, Typed
  <2>7. Marked' /\ CallFits'
    BY <2>3 DEF Marked, CallFits
  <2>8. Bounded'
    BY <2>1, <2>3, <2>4, <2>5 DEF Bounded, SizeState
  <2>9. PhaseFits' /\ HeaderFits' /\ OwedFits' /\ SizeCounted'
    BY <2>1, <2>2, <2>3, <2>5 DEF PhaseFits, HeaderFits, OwedFits, SizeCounted, IdleState,
       LineState, FieldState, DiscardState, ValueState
  <2>10. QED
    BY <2>6, <2>7, <2>8, <2>9 DEF IInv, Running
<1>2. ASSUME BodyIdentity PROVE IInv'
  <2>1. /\ inCall /\ byte # NoByte /\ parser.state = "body_identity" /\ marks = {}
        /\ parser \in Record /\ parser.errno = "OK"
        /\ PhaseFits /\ Bounded
    BY <1>2, AtByte, MarksOf DEF BodyIdentity, IInv
  <2>2. phase = "body" /\ pending = 0 /\ parser.length = owed /\ owed \in Nat
    BY <2>1 DEF PhaseFits, Bounded, IInv, Typed
  <2>3. /\ parser' = [Read(parser.length) EXCEPT !.state = "message_done"]
        /\ marks' = {} /\ pending' = 0 /\ owed' = owed - (pending + parser.length)
        /\ UNCHANGED <<byte, nread, inCall, value, phase>>
    BY <1>2, <2>1 DEF BodyIdentity, Step
  <2>4. owed' = 0
    BY <2>2, <2>3
  <2>5. /\ parser' \in Record /\ parser'.state = "message_done"
        /\ parser'.errno = "OK"
    BY <2>1, <2>3, ReadAllFields
  <2>6. Typed' /\ Marked' /\ CallFits'
    BY <2>1, <2>3, <2>4, <2>5 DEF IInv, Typed, Marked, CallFits
  <2>7. Bounded'
    BY <2>5 DEF Bounded, ChunkState, SizeState
  <2>8. PhaseFits' /\ HeaderFits' /\ OwedFits' /\ SizeCounted'
    BY <2>2, <2>3, <2>4, <2>5 DEF PhaseFits, HeaderFits, OwedFits, SizeCounted, IdleState,
       LineState, FieldState, DiscardState, ValueState
  <2>9. QED
    BY <2>6, <2>7, <2>8 DEF IInv, Running
<1>3. ASSUME BodyIdentityEof PROVE IInv'
  <2>1. /\ parser.state = "body_identity_eof" /\ parser.errno = "OK" /\ Running
        /\ inCall' = FALSE /\ byte' = NoByte /\ marks' = {}
        /\ UNCHANGED <<parser, nread, value, phase, owed, pending>>
    BY <1>3, AtByte DEF BodyIdentityEof, history, IInv
  <2>2. Typed' /\ Marked' /\ CallFits'
    BY <2>1 DEF IInv, Typed, Marked, CallFits
  <2>3. Bounded' /\ PhaseFits' /\ HeaderFits' /\ OwedFits' /\ SizeCounted'
    BY <2>1 DEF IInv, Bounded, Running, PhaseFits, HeaderFits, OwedFits, SizeCounted, Spelled
  <2>4. QED
    BY <2>2, <2>3 DEF IInv, Running
<1>4. ASSUME MessageDone PROVE IInv'
  <2>1. /\ inCall /\ parser.state = "message_done" /\ marks = {} /\ OwedFits
    BY <1>4, AtByte, MarksOf DEF MessageDone
  <2>2. Completes /\ owed = 0 /\ pending = 0 /\ UNCHANGED <<nread, value, owed, pending>>
    BY <1>4, <2>1 DEF MessageDone, OwedFits
  <2>3. nread' \in 0..Many /\ value' \in Nat
    BY <2>2 DEF IInv, Typed
  <2>4. QED
    BY <2>1, <2>2, <2>3, CompleteStep
<1>5. QED
  BY <1>1, <1>2, <1>3, <1>4

LEMMA DigitLengthFields ==
  ASSUME parser \in Record, NEW d \in 0..15
  PROVE  LET q == [At("chunk_size") EXCEPT !.length = d]
         IN  /\ q \in Record /\ q.state = "chunk_size" /\ q.length = d
             /\ q.flags = parser.flags /\ q.errno = parser.errno
<1>1. d \in 0..MaxLength
  BY MaxLengthAssumption
<1>2. QED
  BY <1>1 DEF At, Record, HeadState

\* A step within the line that gives the size of a chunk.
LEMMA SizeStep ==
  ASSUME IInv, inCall, byte # NoByte,
         parser.state \in SizeState \cup {"chunk_size_start"},
         NEW p \in Record, Step(p, marks), byte' = NoByte,
         UNCHANGED <<phase, owed, pending>>,
         p.state \in SizeState, p.errno = parser.errno, p.flags = parser.flags,
         value' \in Nat, p.length = value', value' < MaxLength
  PROVE  IInv'
<1> USE DEF SizeState
<1>1. parser' = p /\ marks' = marks /\ UNCHANGED <<nread, inCall>>
  BY DEF Step
<1>2. parser.errno = "OK" /\ Running /\ "chunked" \in parser.flags /\ marks = {}
  BY MarksOf DEF IInv, CallFits, Running, Bounded, ChunkState, Marked, States, HeadState
<1>3. Typed'
  BY <1>1 DEF IInv, Typed
<1>4. Marked' /\ CallFits'
  BY <1>1, <1>2 DEF Marked, CallFits
<1>5. Bounded'
  BY <1>1, <1>2 DEF Bounded, Spelled, ReadState
<1>6. parser.state \in ChunkState /\ p.state \in ChunkState
  BY DEF ChunkState
<1>7. PhaseFits' /\ HeaderFits'
  <2>1. phase = "body"
    BY <1>2, <1>6 DEF Running, PhaseFits
  <2>2. QED
    BY <1>1, <1>6, <2>1, StatesOf DEF PhaseFits, HeaderFits
<1>8. OwedFits' /\ SizeCounted'
  BY <1>1, <1>2 DEF Running, OwedFits, SizeCounted, ReadState
<1>9. QED
  BY <1>3, <1>4, <1>5, <1>7, <1>8 DEF IInv, Running

\* The line with the size of a chunk.
LEMMA ChunkSizeStep ==
  ASSUME IInv, ChunkSizeStart \/ ChunkSize \/ ChunkParameters
  PROVE  IInv'
<1> USE DEF SizeState, ReadState, Error
<1>1. ASSUME ChunkSizeStart PROVE IInv'
  <2>1. /\ inCall /\ byte # NoByte /\ parser.state = "chunk_size_start"
        /\ parser \in Record
    BY <1>1, AtByte DEF ChunkSizeStart, States, HeadState
  <2>2. ASSUME byte \in DOMAIN HexDigit,
               Step([At("chunk_size") EXCEPT !.length = HexDigit[byte]], marks),
               byte' = NoByte, value' = HexDigit[byte], UNCHANGED <<phase, owed, pending>>
        PROVE IInv'
    <3>1. HexDigit[byte] \in 0..15 /\ HexDigit[byte] \in Nat /\ HexDigit[byte] < MaxLength
      BY <2>2, DigitAssumption, MaxLengthAssumption
    <3> DEFINE p == [At("chunk_size") EXCEPT !.length = HexDigit[byte]]
    <3>2. /\ p \in Record /\ p.state = "chunk_size" /\ p.length = HexDigit[byte]
          /\ p.flags = parser.flags /\ p.errno = parser.errno
      BY <2>1, <3>1, DigitLengthFields
    <3> HIDE DEF p
    <3>3. Step(p, marks)
      BY <2>2 DEF p
    <3>4. QED
      BY <2>1, <2>2, <3>1, <3>2, <3>3, SizeStep
  <2>3. ASSUME Fails(parser, "INVALID_CHUNK_SIZE") PROVE IInv'
    BY <2>1, <2>3, FailsHere
  <2>4. QED
    BY <1>1, <2>2, <2>3 DEF ChunkSizeStart
<1>2. ASSUME ChunkSize PROVE IInv'
  <2>1. /\ inCall /\ byte # NoByte /\ parser.state = "chunk_size"
        /\ parser \in Record /\ Spelled /\ value \in Nat
    BY <1>2, AtByte DEF ChunkSize, States, HeadState, IInv, Bounded, Typed
  <2>2. ASSUME NEW t \in {"chunk_size_almost_done", "chunk_parameters"},
               Takes(At(t), marks)
        PROVE IInv'
    <3>1. /\ Step(At(t), marks) /\ byte' = NoByte
          /\ UNCHANGED <<value, phase, owed, pending>>
      BY <2>2 DEF Takes, history
    <3>2. /\ At(t) \in Record /\ At(t).state = t /\ At(t).length = parser.length
          /\ At(t).flags = parser.flags /\ At(t).errno = parser.errno
      BY <2>1, AtFields DEF States, HeadState
    <3>3. QED
      BY <2>1, <3>1, <3>2, SizeStep DEF Spelled
  <2>3. ASSUME byte \in DOMAIN HexDigit, ~TooLong(parser, 16),
               Step(Fold(parser, 16, HexDigit[byte]), marks), byte' = NoByte,
               value' = value * 16 + HexDigit[byte], UNCHANGED <<phase, owed, pending>>
        PROVE IInv'
    <3> DEFINE p == Fold(parser, 16, HexDigit[byte])
    <3>1. HexDigit[byte] \in 0..15
      BY <2>3, DigitAssumption
    <3>2. /\ p \in Record /\ p.length = parser.length * 16 + HexDigit[byte]
          /\ p.length \in Nat /\ p.length < MaxLength
          /\ p.state = "chunk_size" /\ p.flags = parser.flags /\ p.errno = parser.errno
      BY <2>1, <2>3, <3>1, FoldIsExact
    <3>3. value' = p.length
      BY <2>1, <2>3, <3>2 DEF Spelled
    <3> HIDE DEF p
    <3>4. Step(p, marks)
      BY <2>3 DEF p
    <3>5. QED
      BY <2>1, <2>3, <3>2, <3>3, <3>4, SizeStep
  <2>4. ASSUME NEW e \in {"INVALID_CONTENT_LENGTH", "INVALID_CHUNK_SIZE"}, Fails(parser, e)
        PROVE IInv'
    BY <2>1, <2>4, FailsHere
  <2>5. QED
    BY <1>2, <2>2, <2>3, <2>4 DEF ChunkSize
<1>3. ASSUME ChunkParameters PROVE IInv'
  <2>1. /\ inCall /\ byte # NoByte /\ parser.state = "chunk_parameters"
        /\ parser \in Record /\ Spelled /\ value \in Nat
    BY <1>3, AtByte DEF ChunkParameters, States, HeadState, IInv, Bounded, Typed
  <2>2. PICK p \in {At("chunk_size_almost_done"), parser} : Takes(p, marks)
    BY <1>3 DEF ChunkParameters
  <2>3. /\ Step(p, marks) /\ byte' = NoByte
        /\ UNCHANGED <<value, phase, owed, pending>>
    BY <2>2 DEF Takes, history
  <2>4. /\ p \in Record /\ p.state \in SizeState /\ p.length = parser.length
        /\ p.flags = parser.flags /\ p.errno = parser.errno
    BY <2>1, <2>2, AtFields DEF States, HeadState
  <2>5. QED
    BY <2>1, <2>3, <2>4, SizeStep DEF Spelled
<1>4. QED
  BY <1>1, <1>2, <1>3

LEMMA TrailingFields ==
  ASSUME parser \in Record
  PROVE  LET q == [At("header_field_start") EXCEPT !.flags = @ \cup {"trailing"}]
         IN  /\ q \in Record /\ q.state = "header_field_start"
             /\ q.flags = parser.flags \cup {"trailing"}
             /\ q.length = parser.length /\ q.errno = parser.errno
<1>1. parser.flags \cup {"trailing"} \in SUBSET Flag
  BY DEF Record, Flag
<1>2. QED
  BY <1>1 DEF At, Record, HeadState

\* From the size of a chunk to that of the next.
LEMMA ChunkStep ==
  ASSUME IInv, ChunkSizeAlmostDone \/ ChunkData \/ ChunkDataAlmostDone \/ ChunkDataDone
  PROVE  IInv'
<1> USE DEF ReadState, Error, SizeState
<1>1. ASSUME ChunkSizeAlmostDone PROVE IInv'
  <2>1. /\ inCall /\ byte # NoByte /\ parser.state = "chunk_size_almost_done"
        /\ parser \in Record /\ parser.errno = "OK" /\ marks = {}
        /\ Bounded /\ PhaseFits /\ OwedFits
    BY <1>1, AtByte, MarksOf DEF ChunkSizeAlmostDone, States, HeadState, IInv
  <2>2. /\ Spelled /\ "chunked" \in parser.flags /\ phase = "body"
        /\ pending = 0 /\ value \in Nat
    BY <2>1 DEF Bounded, PhaseFits, OwedFits, ChunkState, IInv, Typed
  <2>3. ASSUME parser' = IF parser.length = 0
                         THEN [At("header_field_start") EXCEPT !.flags = @ \cup {"trailing"}]
                         ELSE At("chunk_data"),
               byte' = NoByte, nread' = 0, owed' = value, value' = 0,
               UNCHANGED <<inCall, marks, phase, pending>>
        PROVE IInv'
    <3>1. byte' = NoByte /\ nread' = 0 /\ owed' = value /\ value' = 0 /\ inCall' = inCall
          /\ marks' = {} /\ phase' = "body" /\ pending' = 0
      BY <2>1, <2>2, <2>3
    <3>2. /\ parser' \in Record /\ parser'.errno = "OK"
          /\ "chunked" \in parser'.flags /\ parser'.length = parser.length
          /\ \/ /\ parser'.state = "header_field_start" /\ "trailing" \in parser'.flags
                /\ parser.length = 0
             \/ parser'.state = "chunk_data" /\ parser.length # 0
      <4>1. CASE parser.length = 0
        BY <2>1, <2>2, <2>3, <4>1, TrailingFields
      <4>2. CASE parser.length # 0
        BY <2>1, <2>2, <2>3, <4>2, AtFields DEF States, BodyState
      <4>3. QED
        BY <4>1, <4>2
    <3>3. parser.length = value /\ (parser.length # 0 => parser.length \in 1..(MaxLength - 1))
      BY <2>2, MaxLengthAssumption DEF Spelled
    <3>4. nread' \in 0..Many /\ value' \in Nat /\ owed' \in Nat /\ pending' \in Nat
      BY <2>2, <3>1 DEF Many
    <3>5. Typed'
      BY <2>1, <3>1, <3>2, <3>4 DEF IInv, Typed
    <3>6. Marked' /\ CallFits'
      BY <3>1, <3>2 DEF Marked, CallFits
    <3>7. Bounded'
      BY <3>1, <3>2, <3>3 DEF Bounded, ChunkState
    <3>8. PhaseFits' /\ HeaderFits' /\ OwedFits' /\ SizeCounted'
      BY <3>1, <3>2, <3>3 DEF PhaseFits, HeaderFits, OwedFits, SizeCounted, IdleState,
         LineState, FieldState, DiscardState, ValueState, ChunkState, BodyState
    <3>9. QED
      BY <3>5, <3>6, <3>7, <3>8 DEF IInv, Running
  <2>4. ASSUME Fails(parser, "STRICT") PROVE IInv'
    BY <2>1, <2>4, FailsHere
  <2>5. QED
    BY <1>1, <2>3, <2>4 DEF ChunkSizeAlmostDone
<1>2. ASSUME ChunkData PROVE IInv'
  <2>1. /\ inCall /\ byte # NoByte /\ parser.state = "chunk_data"
        /\ parser \in Record /\ parser.errno = "OK" /\ marks = {}
        /\ Bounded /\ PhaseFits
    BY <1>2, AtByte, MarksOf DEF ChunkData, States, BodyState, IInv
  <2>2. /\ "chunked" \in parser.flags /\ phase = "body" /\ pending = 0
        /\ parser.length = owed /\ owed \in Nat
    BY <2>1 DEF Bounded, PhaseFits, ChunkState, IInv, Typed
  <2>3. /\ parser' = [Read(parser.length) EXCEPT !.state = "chunk_data_almost_done"]
        /\ marks' = {"body"} /\ byte' = NoByte /\ pending' = pending + parser.length
        /\ UNCHANGED <<nread, inCall, value, phase, owed>>
    BY <1>2, <2>1 DEF ChunkData, Step
  <2>4. pending' = owed
    BY <2>2, <2>3
  <2>5. /\ parser' \in Record /\ parser'.state = "chunk_data_almost_done"
        /\ parser'.length = 0 /\ parser'.flags = parser.flags /\ parser'.errno = "OK"
    BY <2>1, <2>3, ReadAllFields DEF States, BodyState
  <2>6. /\ byte' = NoByte /\ inCall' = inCall /\ phase' = phase /\ owed' = owed
        /\ nread' = nread /\ value' = value
    BY <2>3
  <2>7. Typed' /\ CallFits'
    BY <2>1, <2>2, <2>4, <2>5, <2>6 DEF IInv, Typed, CallFits
  <2>8. Marked'
    BY <2>3, <2>5, MarksOf DEF Marked
  <2>9. Bounded'
    BY <2>2, <2>5 DEF Bounded
  <2>10. PhaseFits' /\ HeaderFits' /\ OwedFits' /\ SizeCounted'
    BY <2>2, <2>4, <2>5, <2>6 DEF PhaseFits, HeaderFits, OwedFits, SizeCounted, IdleState,
       LineState, FieldState, DiscardState, ValueState
  <2>11. QED
    BY <2>7, <2>8, <2>9, <2>10 DEF IInv, Running
<1>3. ASSUME ChunkDataAlmostDone PROVE IInv'
  <2>1. /\ inCall /\ byte # NoByte /\ parser.state = "chunk_data_almost_done"
        /\ parser \in Record /\ parser.errno = "OK" /\ marks \ {"body"} = {}
        /\ Bounded /\ PhaseFits /\ OwedFits
    BY <1>3, AtByte, MarksOf DEF ChunkDataAlmostDone, States, BodyState, IInv
  <2>2. /\ "chunked" \in parser.flags /\ phase = "body" /\ owed = pending /\ owed \in Nat
    BY <2>1 DEF Bounded, PhaseFits, OwedFits, ChunkState, IInv, Typed
  <2>3. ASSUME Step(At("chunk_data_done"), {}), byte' = NoByte,
               owed' = owed - pending, pending' = 0, UNCHANGED <<value, phase>>
        PROVE IInv'
    <3>1. /\ owed' = 0 /\ pending' = 0 /\ byte' = NoByte /\ marks' = {} /\ inCall' = inCall
          /\ phase' = phase /\ nread' = nread /\ value' = value
      BY <2>2, <2>3 DEF Step
    <3>2. /\ parser' \in Record /\ parser'.state = "chunk_data_done"
          /\ parser'.flags = parser.flags /\ parser'.errno = "OK"
      BY <2>1, <2>3, AtFields DEF Step, States, BodyState
    <3>3. Typed' /\ Marked' /\ CallFits'
      BY <2>1, <3>1, <3>2 DEF IInv, Typed, Marked, CallFits
    <3>4. Bounded'
      BY <2>2, <3>2 DEF Bounded
    <3>5. PhaseFits' /\ HeaderFits' /\ OwedFits' /\ SizeCounted'
      BY <2>2, <3>1, <3>2 DEF PhaseFits, HeaderFits, OwedFits, SizeCounted, IdleState,
         LineState, FieldState, DiscardState, ValueState
    <3>6. QED
      BY <3>3, <3>4, <3>5 DEF IInv, Running
  <2>4. ASSUME Fails(parser, "STRICT") PROVE IInv'
    BY <2>1, <2>4, FailsHere
  <2>5. QED
    BY <1>3, <2>1, <2>3, <2>4 DEF ChunkDataAlmostDone
<1>4. ASSUME ChunkDataDone PROVE IInv'
  <2>1. /\ inCall /\ byte # NoByte /\ parser.state = "chunk_data_done"
        /\ parser \in Record /\ parser.errno = "OK" /\ marks = {}
        /\ Bounded /\ PhaseFits /\ OwedFits
    BY <1>4, AtByte, MarksOf DEF ChunkDataDone, States, BodyState, IInv
  <2>2. "chunked" \in parser.flags /\ phase = "body" /\ owed = 0 /\ pending = 0
    BY <2>1 DEF Bounded, PhaseFits, OwedFits, ChunkState
  <2>3. ASSUME parser' = At("chunk_size_start"), nread' = 0, byte' = NoByte,
               UNCHANGED <<inCall, marks, history>>
        PROVE IInv'
    <3>1. /\ byte' = NoByte /\ nread' = 0 /\ marks' = {} /\ inCall' = inCall /\ phase' = phase
          /\ owed' = 0 /\ pending' = 0 /\ value' = value
      BY <2>1, <2>2, <2>3 DEF history
    <3>2. /\ parser' \in Record /\ parser'.state = "chunk_size_start"
          /\ parser'.flags = parser.flags /\ parser'.errno = "OK"
      BY <2>1, <2>3, AtFields DEF States, HeadState
    <3>3. Typed' /\ Marked' /\ CallFits'
      BY <2>1, <3>1, <3>2 DEF IInv, Typed, Marked, CallFits, Many
    <3>4. Bounded'
      BY <2>2, <3>2 DEF Bounded
    <3>5. PhaseFits' /\ HeaderFits' /\ OwedFits' /\ SizeCounted'
      BY <2>2, <3>1, <3>2 DEF PhaseFits, HeaderFits, OwedFits, SizeCounted, IdleState,
         LineState, FieldState, DiscardState, ValueState
    <3>6. QED
      BY <3>3, <3>4, <3>5 DEF IInv, Running
  <2>4. ASSUME Fails(parser, "STRICT") PROVE IInv'
    BY <2>1, <2>4, FailsHere
  <2>5. QED
    BY <1>4, <2>3, <2>4 DEF ChunkDataDone
<1>5. QED
  BY <1>1, <1>2, <1>3, <1>4

-----------------------------------------------------------------------------

LEMMA FreshFields ==
  ASSUME NEW type \in {"request", "response"}
  PROVE  /\ Fresh(type) \in Record /\ Fresh(type).state \in IdleState
         /\ Fresh(type).errno = "OK"
<1>1. 0 \in 0..MaxLength
  BY MaxLengthAssumption
<1>2. QED
  BY <1>1 DEF Fresh, Record, StartState, HeadState, HeaderState, Error, IdleState

LEMMA InitEstablishes == Init => IInv
<1> SUFFICES ASSUME Init PROVE IInv
  OBVIOUS
<1>1. /\ parser \in Record /\ parser.state \in IdleState /\ parser.errno = "OK"
  BY FreshFields DEF Init
<1>2. /\ nread = 0 /\ byte = NoByte /\ inCall = FALSE /\ marks = {} /\ value = 0
      /\ phase = "idle" /\ owed = 0 /\ pending = 0
  BY DEF Init
<1>3. Typed /\ Marked /\ CallFits
  <2>1. nread \in 0..Many
    BY <1>2 DEF Many
  <2>2. inCall \in BOOLEAN
    BY <1>2
  <2>3. QED
    BY <1>1, <1>2, <2>1, <2>2 DEF Typed, Marked, CallFits
<1>4. /\ Bounded /\ PhaseFits /\ HeaderFits /\ OwedFits /\ SizeCounted
  BY <1>1, <1>2 DEF Bounded, PhaseFits, HeaderFits, OwedFits, SizeCounted, IdleState,
     LineState, FieldState, DiscardState, ValueState, ChunkState, SizeState, ReadState,
     BodyState
<1>5. QED
  BY <1>3, <1>4 DEF IInv, Running

LEMMA NextPreserves == IInv /\ [Next]_vars => IInv'
<1> SUFFICES ASSUME IInv, [Next]_vars PROVE IInv'
  OBVIOUS
<1>1. CASE CallNext
  BY <1>1, CallStep
<1>2. CASE StartLineNext
  BY <1>2, StartLineStep
<1>3. CASE HeaderNext
  BY <1>3, HeaderNameStep, HeaderValueStep, HeaderEndStep, HeadersEndStep DEF HeaderNext
<1>4. CASE BodyNext
  BY <1>4, BodyStep, ChunkSizeStep, ChunkStep DEF BodyNext
<1>5. CASE UNCHANGED vars
  BY <1>5, Unchanged
<1>6. QED
  BY <1>1, <1>2, <1>3, <1>4, <1>5 DEF Next

LEMMA Invariance == Spec => []IInv
BY InitEstablishes, NextPreserves, PTL DEF Spec

-----------------------------------------------------------------------------
(* The theorems.                                                           *)

\* The fields of the parser and the variables keep their types: content_length
\* in its width, whatever number the bytes spell.
THEOREM TypeCorrectness == Spec => []TypeOK
<1>1. IInv => TypeOK
  <2> SUFFICES ASSUME IInv PROVE TypeOK
    OBVIOUS
  <2>1. DOMAIN parser = DOMAIN Fresh("request")
    BY DEF IInv, Typed, Record, Fresh
  <2>2. parser.state \in States /\ MarkFor(parser.state) \subseteq
           {"header_field", "header_value", "url", "status", "body"}
    BY MarksOf DEF IInv, Typed, Record, States
  <2>3. marks \subseteq {"header_field", "header_value", "url", "status", "body"}
    BY <2>2 DEF IInv, Marked
  <2>4. /\ parser.state \in HeadState \cup BodyState /\ parser.header \in HeaderState
        /\ parser.flags \subseteq Flag /\ parser.length \in 0..MaxLength
    BY DEF IInv, Typed, Record
  <2>5. QED
    BY <2>1, <2>3, <2>4 DEF IInv, Typed, TypeOK
<1>2. QED
  BY <1>1, Invariance, PTL

\* No assert() of http_parser_execute fails, for any bytes and any cuts.
THEOREM AssertsCorrectness == Spec => []AssertsHold
<1>1. IInv => AssertsHold
  <2> SUFFICES ASSUME IInv PROVE AssertsHold
    OBVIOUS
  <2>1. In("chunk_size_start") => nread = 1
    BY AtByte DEF SizeCounted, States, HeadState
  <2>2. parser.state \in ReadState => parser.length # 0 /\ parser.length # MaxLength
    BY MaxLengthAssumption DEF IInv, Bounded
  <2>3. In("header_value") => parser.header \notin Name
    BY AtByte DEF HeaderFits, States, HeadState
  <2>4. QED
    BY <2>1, <2>2, <2>3 DEF AssertsHold, IInv, Bounded, ReadState
<1>2. QED
  BY <1>1, Invariance, PTL

\* At the end of the data of a call one mark at most is set, that of the state
\* of the parser, so that no data is handed to two callbacks or to none.
THEOREM MarksCorrectness == Spec => []OneMark
<1>1. IInv => OneMark
  <2> SUFFICES ASSUME IInv PROVE OneMark
    OBVIOUS
  <2>1. marks \subseteq MarkFor(parser.state) /\ parser.state \in States
    BY DEF IInv, Marked, Typed, Record, States
  <2>2. \E m : marks \subseteq {m}
    BY <2>1, MarksOf
  <2>3. PICK m : marks = {} \/ marks = {m}
    BY <2>2
  <2>4. Cardinality(marks) \in {0, 1}
    BY <2>3, FS_EmptySet, FS_Singleton
  <2>5. QED
    BY <2>1, <2>4 DEF OneMark, MarkFor
<1>2. QED
  BY <1>1, Invariance, PTL

\* content_length is what its digits spell, less what was read of the body: it
\* never wraps, and never is the value that stands for no length.
THEOREM LengthCorrectness == Spec => []LengthIsExact
<1>1. IInv => LengthIsExact
  BY DEF IInv, Bounded, Typed, Spelled, LengthIsExact, SizeState, ReadState
<1>2. QED
  BY <1>1, Invariance, PTL

-----------------------------------------------------------------------------
(* The refinement.                                                         *)

\* The steps at which no callback is made that MessageStream knows.
LEMMA QuietSteps ==
  ASSUME \/ StartLineNext /\ ~StartRes /\ ~StartReq
         \/ HeaderNext /\ ~HeadersDone
         \/ HeaderOverflow \/ CallAfterError
         \/ \E c \in Byte : Call(c) \/ NextByte(c)
         \/ BodyIdentityEof \/ ChunkSizeStart \/ ChunkSize \/ ChunkParameters
         \/ ChunkData \/ ChunkDataDone
  PROVE  UNCHANGED <<phase, owed>>
<1> USE DEF Takes, Again, Fails, history
<1>1. CASE StartLineNext /\ ~StartRes /\ ~StartReq
  BY <1>1 DEF StartLineNext, BlankLine, Dead, StartRes, ResLine, ResStatus, StartReq,
              ReqMethod, ReqSpaces, ReqUrl, ReqHttp, LineAlmostDone
<1>2. CASE HeaderNext /\ ~HeadersDone
  BY <1>2 DEF HeaderNext, HeaderFieldStart, HeaderField, DiscardWs, DiscardWsAlmostDone,
              DiscardLws, HeaderValueStart, HeaderValue, ContentLength, HeaderValueEnds,
              HeaderAlmostDone, HeaderValueLws, HeadersAlmostDone
<1>3. CASE HeaderOverflow \/ CallAfterError \/ \E c \in Byte : Call(c) \/ NextByte(c)
  BY <1>3 DEF HeaderOverflow, CallAfterError, Call, NextByte, vars
<1>4. CASE \/ BodyIdentityEof \/ ChunkSizeStart \/ ChunkSize \/ ChunkParameters
           \/ ChunkData \/ ChunkDataDone
  BY <1>4 DEF BodyIdentityEof, ChunkSizeStart, ChunkSize, ChunkParameters, ChunkData,
              ChunkDataDone
<1>5. QED
  BY <1>1, <1>2, <1>3, <1>4

\* The others are steps of MessageStream.
LEMMA StreamStep ==
  ASSUME IInv, [Next]_vars
  PROVE  [Stream!Next]_<<phase, owed>>
<1> USE DEF Stream!Next
<1>1. CASE CallNext
  <2>1. ASSUME EndOfData PROVE [Stream!Next]_<<phase, owed>>
    <3>1. /\ owed' = owed - pending /\ phase' = phase /\ owed \in Nat
          /\ parser.state \in States /\ Bounded /\ PhaseFits /\ OwedFits
      BY <2>1 DEF EndOfData, IInv, Typed, Record, States, CallFits, Running
    <3>2. CASE parser.state = "chunk_data_almost_done"
      <4>1. phase = "body" /\ owed' \in 0..owed
        BY <3>1, <3>2 DEF PhaseFits, OwedFits, ChunkState
      <4>2. QED
        BY <3>1, <4>1 DEF Stream!HandOver
    <3>3. CASE parser.state # "chunk_data_almost_done"
      <4>1. pending = 0
        BY <3>1, <3>3 DEF Bounded, OwedFits
      <4>2. QED
        BY <3>1, <4>1
    <3>4. QED
      BY <3>2, <3>3
  <2>2. QED
    BY <1>1, <2>1, QuietSteps DEF CallNext
<1>2. CASE StartLineNext
  <2>1. ASSUME StartRes \/ StartReq PROVE [Stream!Next]_<<phase, owed>>
    <3>1. phase = "idle"
      BY <2>1, AtByte DEF StartRes, StartReq, States, HeadState, PhaseFits, IdleState
    <3>2. QED
      BY <2>1, <3>1 DEF StartRes, StartReq, Begins, Fails, Stream!Begin
  <2>2. QED
    BY <1>2, <2>1, QuietSteps
<1>3. CASE HeaderNext
  <2>1. ASSUME HeadersDone PROVE [Stream!Next]_<<phase, owed>>
    <3>1. phase = "head" /\ owed = 0 /\ value \in Nat
      BY <2>1, AtByte DEF HeadersDone, States, HeadState, PhaseFits, OwedFits, ReadState,
                          IInv, Typed
    <3>2. ASSUME Completes, UNCHANGED owed PROVE Stream!Next
      BY <3>1, <3>2 DEF Completes, Stream!Complete
    <3>3. ASSUME phase' = "body",
                 owed' = IF BodyStart(parser) = "body_identity" THEN value ELSE 0
          PROVE Stream!Next
      <4>1. owed' \in Nat
        BY <3>1, <3>3
      <4>2. QED
        BY <3>1, <3>3, <4>1 DEF Stream!Body
    <3>4. QED
      BY <2>1, <3>2, <3>3 DEF HeadersDone
  <2>2. QED
    BY <1>3, <2>1, QuietSteps
<1>4. CASE BodyNext
  <2>1. ASSUME NEW k \in 1..(MaxLength - 1), BodyPart(k) PROVE Stream!Next
    <3>1. parser.state \in ReadState /\ Bounded /\ PhaseFits /\ owed \in Nat
      BY <2>1, AtByte DEF BodyPart, States, BodyState, ReadState, IInv, Typed
    <3>2. phase = "body" /\ pending = 0 /\ parser.length = owed
      BY <3>1 DEF PhaseFits, Bounded, ReadState, BodyState
    <3>3. owed' = owed - (pending + k) /\ k < parser.length /\ phase' = phase
      BY <2>1 DEF BodyPart, PartOf
    <3>4. owed' \in 0..owed
      BY <3>1, <3>2, <3>3
    <3>5. QED
      BY <3>2, <3>3, <3>4 DEF Stream!HandOver
  <2>2. ASSUME BodyIdentity PROVE Stream!Next
    <3>1. parser.state \in ReadState /\ Bounded /\ PhaseFits /\ owed \in Nat
      BY <2>2, AtByte DEF BodyIdentity, States, BodyState, ReadState, IInv, Typed
    <3>2. phase = "body" /\ pending = 0 /\ parser.length = owed
      BY <3>1 DEF PhaseFits, Bounded, ReadState, BodyState
    <3>3. owed' = owed - (pending + parser.length) /\ phase' = phase
      BY <2>2 DEF BodyIdentity
    <3>4. owed' \in 0..owed
      BY <3>1, <3>2, <3>3
    <3>5. QED
      BY <3>2, <3>3, <3>4 DEF Stream!HandOver
  <2>3. ASSUME MessageDone PROVE Stream!Next
    <3>1. phase = "body" /\ owed = 0
      BY <2>3, AtByte DEF MessageDone, States, BodyState, PhaseFits, OwedFits, ReadState
    <3>2. QED
      BY <2>3, <3>1 DEF MessageDone, Completes, Stream!Complete
  <2>4. ASSUME ChunkSizeAlmostDone PROVE [Stream!Next]_<<phase, owed>>
    <3>1. phase = "body" /\ owed = 0 /\ value \in Nat
      BY <2>4, AtByte DEF ChunkSizeAlmostDone, States, HeadState, PhaseFits, OwedFits,
                          ReadState, ChunkState, IInv, Typed
    <3>2. QED
      BY <2>4, <3>1 DEF ChunkSizeAlmostDone, Fails, Stream!Chunk
  <2>5. ASSUME ChunkDataAlmostDone PROVE [Stream!Next]_<<phase, owed>>
    <3>1. phase = "body" /\ owed = pending /\ owed \in Nat
      BY <2>5, AtByte DEF ChunkDataAlmostDone, States, BodyState, PhaseFits, OwedFits,
                          ChunkState, IInv, Typed
    <3>2. owed - pending \in 0..owed
      BY <3>1
    <3>3. QED
      BY <2>5, <3>1, <3>2 DEF ChunkDataAlmostDone, Fails, Stream!HandOver
  <2>6. QED
    BY <1>4, <2>1, <2>2, <2>3, <2>4, <2>5, QuietSteps DEF BodyNext
<1>5. CASE UNCHANGED vars
  BY <1>5 DEF vars, history
<1>6. QED
  BY <1>1, <1>2, <1>3, <1>4, <1>5 DEF Next

\* However a message is split over calls, the callbacks follow MessageStream.
THEOREM StreamRefinement == Spec => CallbacksAreStream
<1>1. Init => Stream!Init
  BY DEF Init, Stream!Init
<1>2. IInv /\ [Next]_vars => [Stream!Next]_(Stream!vars)
  BY StreamStep DEF Stream!vars
<1>3. QED
  BY <1>1, <1>2, Invariance, PTL DEF Spec, CallbacksAreStream, Stream!Spec
=============================================================================
