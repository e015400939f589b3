----------------------------- MODULE ResponseProofs ----------------------------
(***************************************************************************)
(* ResponseReceiver for every response, however it is cut and wherever     *)
(* memory ends.                                                            *)
(*                                                                         *)
(* A handler that is through has left its page complete: there is a page   *)
(* whenever the parser runs, so that the callback for the end of a message *)
(* finds it, as the data is stored before it is parsed.  And it runs       *)
(* HttpParser over what recv() brought, within its bounds, so that the     *)
(* theorems about the parser hold of it.  What the client was sent is      *)
(* compared with what was received, which the page has all of until memory *)
(* ends.                                                                   *)
(*                                                                         *)
(* That a complete page is whole needs more of the parser: that it finds   *)
(* the line that ends the headers, the number that a length header has and *)
(* the codings, as the text has them (HeadEnd, NumberEnds and Chunks in     *)
(* ResponseReceiver), that it takes as many bytes for the body, and that it *)
(* is in a chunk, and after the last one, where the text is.  FirstMessage  *)
(* says so of each state of the first message, and is kept by every step of *)
(* the parser within it (FirstSteps).                                      *)
(***************************************************************************)
EXTENDS ResponseReceiver, HttpProofs, SequenceTheorems

Shape ==
  /\ DOMAIN page = {"exists", "size", "fully_loaded"}
  /\ DOMAIN resp = {"ready", "sent", "broken"}
  /\ page.exists \in BOOLEAN
  /\ page.fully_loaded \in BOOLEAN
  /\ resp.ready \in BOOLEAN
  /\ type \in {"LOAD_CASHING", "LOAD_TRANSIENT"}

Stored ==
  /\ inCall => page.exists
  /\ type = "LOAD_TRANSIENT" => page.exists

PageInv == Shape /\ Stored /\ ReadyLeavesCompletePage

LEMMA InitPageInv == ReceiverInit => PageInv
BY DEF ReceiverInit, Init, PageInv, Shape, Stored, ReadyLeavesCompletePage

\* Steps of the parser are made within a call, with a byte to look at.
LEMMA ParserInCall ==
  ASSUME StartLineNext \/ HeaderNext \/ BodyNext PROVE inCall /\ byte # NoByte
<1>1. CASE StartLineNext
  BY <1>1 DEF StartLineNext, BlankLine, Dead, StartRes, ResLine, ResStatus, StartReq,
       ReqMethod, ReqSpaces, ReqUrl, ReqHttp, LineAlmostDone, In
<1>2. CASE HeaderNext
  BY <1>2 DEF HeaderNext, HeaderFieldStart, HeaderField, DiscardWs, DiscardWsAlmostDone,
       DiscardLws, HeaderValueStart, HeaderValue, ContentLength, HeaderValueEnds,
       HeaderAlmostDone, HeaderValueLws, HeadersAlmostDone, HeadersDone, In
<1>3. CASE BodyNext
  BY <1>3 DEF BodyNext, BodyPart, BodyIdentity, BodyIdentityEof, MessageDone,
       ChunkSizeStart, ChunkSize, ChunkParameters, ChunkSizeAlmostDone, ChunkData,
       ChunkDataAlmostDone, ChunkDataDone, In
<1> QED BY <1>1, <1>2, <1>3

\* A page that is there keeps what it is known for, and is complete when a
\* message has ended.
LEMMA CompletedPage ==
  ASSUME Shape, page.exists
  PROVE  /\ DOMAIN MessageComplete = DOMAIN page
         /\ MessageComplete.exists
         /\ MessageComplete.fully_loaded \in BOOLEAN
         /\ Ready \in BOOLEAN
         /\ page.fully_loaded => MessageComplete.fully_loaded
         /\ phase # "idle" /\ phase' = "idle" => MessageComplete.fully_loaded
BY DEF Shape, MessageComplete, SetFullyLoaded, Ready

LEMMA SendsShape ==
  ASSUME Shape, NEW ready \in BOOLEAN, Sends(ready)
  PROVE  DOMAIN resp' = DOMAIN resp /\ resp'.ready = ready
BY DEF Shape, Sends

LEMMA NextPageInv ==
  ASSUME PageInv, [ReceiverNext]_allVars PROVE PageInv'
<1> USE DEF PageInv
<1>1. ASSUME NEW upto \in DOMAIN stream.text, Receive(upto) PROVE PageInv'
  <2>1. ~resp.ready /\ UNCHANGED resp BY <1>1 DEF Receive, Loading
  <2>2. /\ DOMAIN page' = DOMAIN page
        /\ page'.exists /\ page'.fully_loaded = page.fully_loaded
    BY <1>1 DEF Receive, AppendCache, Shape, Stored
  <2>3. type' \in {"LOAD_CASHING", "LOAD_TRANSIENT"} BY <1>1 DEF Receive, Shape
  <2> QED BY <2>1, <2>2, <2>3 DEF Shape, Stored, ReadyLeavesCompletePage
<1>2. CASE ReceiveNothing
  BY <1>2 DEF ReceiveNothing, Loading, SetFullyLoaded, vars, Shape, Stored,
       ReadyLeavesCompletePage
<1>3. CASE ReceiveFails
  BY <1>3 DEF ReceiveFails, vars, Shape, Stored, ReadyLeavesCompletePage
<1>4. CASE MoreData
  BY <1>4 DEF MoreData, NextByte, Shape, Stored, ReadyLeavesCompletePage
<1>5. CASE DataEnds
  <2>1. /\ DOMAIN resp' = DOMAIN resp /\ resp'.ready = resp.ready
        /\ UNCHANGED <<page, type>> /\ ~inCall'
    BY <1>5, SendsShape DEF DataEnds, EndOfData, Shape
  <2> QED BY <2>1 DEF Shape, Stored, ReadyLeavesCompletePage
<1>6. CASE Parses
  <2>1. page.exists BY <1>6, ParserInCall DEF Parses, Stored
  <2>2. UNCHANGED type BY <1>6 DEF Parses
  <2>3. CASE UNCHANGED <<page, resp>>
    BY <2>1, <2>2, <2>3 DEF Shape, Stored, ReadyLeavesCompletePage
  <2>4. CASE /\ page' = MessageComplete
             /\ DOMAIN resp' = DOMAIN resp /\ resp'.ready = Ready
    BY <2>1, <2>2, <2>4, CompletedPage DEF Shape, Stored, ReadyLeavesCompletePage, Ready
  <2>5. \/ UNCHANGED <<page, resp>>
        \/ page' = MessageComplete /\ resp' = [resp EXCEPT !.ready = Ready]
        \/ page' = MessageComplete /\ Sends(Ready)
    BY <1>6 DEF Parses
  <2>6. Ready \in BOOLEAN BY <2>1, CompletedPage
  <2> QED BY <2>3, <2>4, <2>5, <2>6, SendsShape DEF Shape
<1>7. CASE Done \/ UNCHANGED allVars
  BY <1>7 DEF Done, allVars, receiverVars, vars, Shape, Stored, ReadyLeavesCompletePage
<1> QED BY <1>1, <1>2, <1>3, <1>4, <1>5, <1>6, <1>7 DEF ReceiverNext

\* A handler that is through with a response has left its page complete:
\* setFullyLoaded in messageCompleteCallback never misses the page
\* (SocketHandler.cpp:168-181 stores before it parses).
THEOREM ReadyPagesAreComplete == ReceiverSpec => []ReadyLeavesCompletePage
<1>1. PageInv => ReadyLeavesCompletePage BY DEF PageInv
<1> QED BY InitPageInv, NextPageInv, <1>1, PTL DEF ReceiverSpec

-----------------------------------------------------------------------------
(* The receiver runs the parser.                                           *)

\* The parser has been given a part of what was received, which is a part of
\* what the server sends.
Placed ==
  /\ stream \in Responses
  /\ Len(stream.text) \in Nat
  /\ recved \in 0..Len(stream.text)
  /\ pos \in 0..recved

LEMMA InitPlaced == ReceiverInit => Placed
<1>1. SUFFICES ASSUME ReceiverInit PROVE Placed
  OBVIOUS
<1>2. stream.text \in Seq(Byte)
  BY <1>1, ResponsesAssumption DEF ReceiverInit
<1>3. QED
  BY <1>1, <1>2, LenProperties DEF ReceiverInit, Placed

LEMMA PlacesOfStream ==
  ASSUME Placed
  PROVE  /\ DOMAIN stream.text = 1..Len(stream.text)
         /\ \A i \in 1..Len(stream.text) : stream.text[i] \in Byte
<1>1. stream.text \in Seq(Byte)
  BY ResponsesAssumption DEF Placed
<1>2. QED
  BY <1>1, LenProperties

LEMMA RunsTheParser ==
  ASSUME Placed, [ReceiverNext]_allVars
  PROVE  [Next]_vars
<1>1. ASSUME NEW upto \in DOMAIN stream.text, Receive(upto) PROVE [Next]_vars
  <2>1. pos + 1 \in 1..Len(stream.text)
    BY <1>1, PlacesOfStream DEF Placed, Receive
  <2>2. stream.text[pos + 1] \in Byte
    BY <2>1, PlacesOfStream
  <2>3. QED
    BY <1>1, <2>2 DEF Receive, Next, CallNext
<1>2. CASE MoreData
  <2>1. pos + 1 \in 1..Len(stream.text)
    BY <1>2 DEF Placed, MoreData
  <2>2. stream.text[pos + 1] \in Byte
    BY <2>1, PlacesOfStream
  <2>3. QED
    BY <1>2, <2>2 DEF MoreData, Next, CallNext
<1>3. CASE DataEnds
  BY <1>3 DEF DataEnds, Next, CallNext
<1>4. CASE Parses
  BY <1>4 DEF Parses, Next
<1>5. CASE ReceiveNothing \/ ReceiveFails \/ Done \/ UNCHANGED allVars
  BY <1>5 DEF ReceiveNothing, ReceiveFails, Done, allVars
<1>6. QED
  BY <1>1, <1>2, <1>3, <1>4, <1>5 DEF ReceiverNext

\* The parser takes no byte back, and none that was not received.
LEMMA BulkForward ==
  ASSUME IInv, Placed, StartLineNext \/ HeaderNext \/ BodyNext
  PROVE  Bulk \in Nat
<1>1. parser.state \in {"body_identity", "chunk_data"} => Bulk \in Nat
  BY BodyShrinks DEF Bulk
<1>2. parser.state = "body_identity_eof" => Bulk \in Nat
  BY DEF Bulk, Placed
<1>3. QED
  BY <1>1, <1>2 DEF Bulk

LEMMA NextPlaced ==
  ASSUME IInv, Placed, [ReceiverNext]_allVars
  PROVE  Placed'
<1>1. ASSUME NEW upto \in DOMAIN stream.text, Receive(upto) PROVE Placed'
  BY <1>1, PlacesOfStream DEF Receive, Placed
<1>2. CASE MoreData
  BY <1>2 DEF MoreData, Placed
<1>3. CASE Parses
  BY <1>3, BulkForward DEF Parses, Placed
<1>4. CASE DataEnds \/ ReceiveNothing \/ ReceiveFails \/ Done \/ UNCHANGED allVars
  BY <1>4 DEF DataEnds, ReceiveNothing, ReceiveFails, Done, allVars, receiverVars, Placed
<1>5. QED
  BY <1>1, <1>2, <1>3, <1>4 DEF ReceiverNext

RunInv == IInv /\ Placed

LEMMA RunInvariance == ReceiverSpec => []RunInv
<1>1. ReceiverInit => RunInv
  BY InitEstablishes, InitPlaced DEF ReceiverInit, RunInv
<1>2. RunInv /\ [ReceiverNext]_allVars => RunInv'
  BY RunsTheParser, NextPlaced, NextPreserves DEF RunInv
<1>3. QED
  BY <1>1, <1>2, PTL DEF ReceiverSpec

\* However a response is cut into what recv() returns, the parser that the
\* handler runs over it is that of HttpParser: its assertions hold, the length
\* of the body is exact, and its callbacks come in their order
\* (receiveAndParseResponse).
THEOREM ResponsesAreParsed == ReceiverSpec => Spec
<1>1. ReceiverInit => Init
  BY DEF ReceiverInit
<1>2. RunInv /\ [ReceiverNext]_allVars => [Next]_vars
  BY RunsTheParser DEF RunInv
<1>3. QED
  BY <1>1, <1>2, RunInvariance, PTL DEF ReceiverSpec, Spec

-----------------------------------------------------------------------------
(* What the client is sent.                                                *)

\* The page has all that was received, until memory ends; and a handler that
\* is through with the client either has sent all of it, or met the end of
\* the connection before that of a message, and takes no more.
Delivery ==
  /\ {"size", "exists"} \subseteq DOMAIN page
  /\ DOMAIN resp = {"ready", "sent", "broken"}
  /\ sent \in 0..recved
  /\ type = "LOAD_CASHING" => page.size = recved
  /\ resp.sent \in BOOLEAN
  /\ resp.sent => ~inCall /\ (outcome = "eof" \/ resp.ready)
  /\ outcome = "eof" => ~inCall /\ ~resp.ready
  /\ resp.sent /\ resp.ready => sent = recved

LEMMA InitDelivery == ReceiverInit => Delivery
BY DEF ReceiverInit, Init, Delivery

LEMMA SizeKept ==
  ASSUME {"size", "exists"} \subseteq DOMAIN page
  PROVE  /\ MessageComplete.size = page.size /\ SetFullyLoaded(page).size = page.size
         /\ DOMAIN MessageComplete = DOMAIN page
         /\ DOMAIN SetFullyLoaded(page) = DOMAIN page
BY DEF MessageComplete, SetFullyLoaded

\* The client gets all of what was received, or is lost.
LEMMA SendsAll ==
  ASSUME Placed, Delivery, ~resp.sent, NEW ready \in BOOLEAN, Sends(ready)
  PROVE  /\ DOMAIN resp' = {"ready", "sent", "broken"}
         /\ resp'.sent \in BOOLEAN /\ resp'.ready = ready
         /\ sent' \in 0..recved
         /\ resp'.sent => ready /\ sent' = recved
         /\ outcome' = "more"
<1>1. recved \in Nat /\ sent \in 0..recved /\ outcome' = "more"
  BY DEF Placed, Delivery, Sends
<1>2. CASE sent' = recved /\ resp' = [resp EXCEPT !.ready = ready, !.sent = @ \/ ready]
  BY <1>1, <1>2 DEF Delivery
<1>3. CASE /\ sent' \in IF resp.broken THEN {sent} ELSE sent..(recved - 1)
           /\ resp' = [resp EXCEPT !.ready = ready, !.broken = TRUE]
  <2>1. sent' \in 0..recved
    BY <1>1, <1>3
  <2>2. QED
    BY <1>1, <1>3, <2>1 DEF Delivery
<1>4. QED
  BY <1>2, <1>3 DEF Sends

LEMMA NextDelivery ==
  ASSUME Placed, PageInv, Delivery, [ReceiverNext]_allVars
  PROVE  Delivery'
<1>1. recved \in Nat /\ sent \in Nat /\ sent <= recved
  BY DEF Placed, Delivery
<1>2. ASSUME NEW upto \in DOMAIN stream.text, Receive(upto) PROVE Delivery'
  <2>1. /\ upto \in Nat /\ recved < upto /\ recved' = upto
        /\ UNCHANGED <<sent, resp, outcome>> /\ outcome # "eof"
    BY <1>2, PlacesOfStream DEF Receive, Loading, Placed
  <2>2. ~resp.sent
    BY <1>2 DEF Receive, Loading, Delivery
  <2>3. /\ {"size", "exists"} \subseteq DOMAIN page'
        /\ type' = "LOAD_CASHING" => page'.size = upto
    BY <1>2 DEF Receive, AppendCache, Delivery
  <2>4. QED
    BY <1>1, <2>1, <2>2, <2>3 DEF Delivery
<1>3. CASE ReceiveNothing
  <2>1. /\ ~inCall /\ ~inCall' /\ ~resp.ready /\ outcome' = "eof"
        /\ page' = SetFullyLoaded(page)
        /\ resp' = [resp EXCEPT !.sent = TRUE]
        /\ UNCHANGED <<recved, type, sent>>
    BY <1>3 DEF ReceiveNothing, Loading, vars
  <2>2. QED
    BY <1>1, <2>1, SizeKept DEF Delivery
<1>4. CASE ReceiveFails
  <2>1. ~resp.sent /\ outcome' = "error" /\ UNCHANGED <<inCall, recved, page, type, resp, sent>>
    BY <1>4 DEF ReceiveFails, Loading, Delivery, vars
  <2>2. QED
    BY <2>1 DEF Delivery
<1>5. CASE MoreData
  <2>1. inCall /\ inCall' /\ UNCHANGED <<recved, page, type, resp, sent, outcome>>
    BY <1>5 DEF MoreData, NextByte
  <2>2. QED
    BY <2>1 DEF Delivery
<1>6. CASE DataEnds
  <2>1. ~resp.sent /\ ~inCall' /\ Sends(resp.ready) /\ UNCHANGED <<recved, page, type>>
    BY <1>6 DEF DataEnds, EndOfData, Delivery
  <2>2. QED
    BY <1>1, <2>1, SendsAll DEF Delivery, PageInv, Shape
<1>7. CASE Parses
  <2>1. ~resp.sent /\ outcome # "eof" /\ UNCHANGED <<recved, type>>
    BY <1>7, ParserInCall DEF Parses, Delivery
  <2>2. Ready \in BOOLEAN
    BY DEF Ready, PageInv, Shape
  <2>3. CASE UNCHANGED <<page, resp, sent>> /\ outcome' = "unparsed"
    BY <2>1, <2>3 DEF Delivery
  <2>4. CASE /\ page' = MessageComplete /\ resp' = [resp EXCEPT !.ready = Ready]
             /\ UNCHANGED sent /\ outcome' \in {outcome, "unparsed"}
    BY <2>1, <2>4, SizeKept DEF Delivery
  <2>5. CASE page' = MessageComplete /\ Sends(Ready) /\ ~inCall'
    BY <1>1, <2>1, <2>2, <2>5, SizeKept, SendsAll DEF Delivery
  <2>6. QED
    BY <1>7, <2>3, <2>4, <2>5 DEF Parses
<1>8. CASE Done \/ UNCHANGED allVars
  BY <1>8 DEF Done, allVars, vars, receiverVars, Delivery
<1>9. QED
  BY <1>2, <1>3, <1>4, <1>5, <1>6, <1>7, <1>8 DEF ReceiverNext

-----------------------------------------------------------------------------
(* A complete page: what is known of the first message.                     *)

\* The states that the first message of a response can be in, and those of them
\* within its head, or after the last of its chunks.
HeadPart == {"res_line", "res_status", "line_almost_done", "headers_done"} \cup FieldState

FirstState ==
  {"start_res", "body_identity", "body_identity_eof", "message_done"}
    \cup HeadPart \cup ChunkState

Trailing == "trailing" \in parser.flags

\* What response it is is known from its first line.
KindSeen ==
  /\ parser.type = "response" /\ ~parser.connect
  /\ parser.state \in FirstState
  /\ parser.state \notin {"start_res", "res_line"} =>
       /\ parser.noBody = (stream.status # "plain")
       /\ parser.switching = (stream.status = "switching")
  /\ parser.upgrade => stream.status = "switching"

Text == stream.text

\* The bytes that the parser has passed: not the one that it looks at.
Passed == IF byte = NoByte THEN pos ELSE pos - 1

\* The byte that is looked at is the last that was given, until the end of a
\* body; a message has begun with the first that ends no line.
Looks ==
  /\ byte # NoByte => pos > 0 /\ (parser.state # "message_done" => byte = Text[pos])
  /\ parser.state = "start_res" => \A s \in 1..Passed : Text[s] \in Ends
  /\ parser.state \in HeadPart => \E s \in 1..Passed : Text[s] \notin Ends
  /\ parser.state \in {"headers_done", "message_done"} => byte # NoByte
  /\ parser.state = "header_value_start" => byte \notin Ends \cup {NoByte}
  /\ parser.state = "headers_done" => byte = "LF"

NewLine == {"header_field_start", "header_value_lws", "header_value_discard_lws"}

EmptyLine == {"headers_almost_done", "headers_done"}

\* The line of a chunk of no bytes ends at l.
LastLine(l) ==
  \E c \in stream.chunks, k \in 1..l : SizeLine(stream, c, k, l) /\ stream.hexes[k] = 0

\* An LF is seen for what it is, and so is the CR of an empty line; none has
\* ended so far, of the head, or after the last chunk.
LinesSeen ==
  parser.state \in HeadPart =>
    /\ ~Trailing => \A e \in HeadEnds(Text) : e > Passed
    /\ Trailing =>
         \E l \in 1..Passed : LastLine(l) /\ \A e \in HeadEnds(Text) : l < e => e > Passed
    /\ parser.state \in NewLine => Text[Passed] = "LF"
    /\ Text[Passed] = "LF" =>
         \/ parser.state \in NewLine
         \/ parser.state \in EmptyLine /\ byte = "LF"
         \/ parser.state = "header_value_start" /\ byte \in Blank
    /\ Text[Passed] = "CR" /\ LineStart(Text, Passed) => parser.state \in EmptyLine
    /\ parser.state \in EmptyLine =>
         \/ Text[Passed] = "CR" /\ LineStart(Text, Passed)
         \/ Text[Passed] = "LF" /\ byte = "LF"

\* The parser is in the head of the message.
InHeaders == parser.state \in HeadPart /\ ~Trailing

\* A content-length header was read, at least its first digit.
HasLength == "content_length" \in parser.flags

\* A name that goes on from l to c.
NameOf(l, c) == LineStart(Text, l) /\ \A i \in l..(c - 1) : Text[i] \in Token

\* The name of no length or coding is missed.
NamesSeen ==
  InHeaders =>
    /\ \A c \in HeadLengths(stream) :
         c <= Passed => parser.header = "content_length" \/ HasLength
    /\ \A c \in HeadCodings(stream) : c <= Passed => parser.usesTE
    /\ \A c \in HeadLengths(stream) \cup HeadCodings(stream) :
         c > Passed => \A l \in 1..Passed : NameOf(l, c) => parser.state = "header_field"

\* Nor is a second length passed: the parser fails at its value.
OneLength ==
  InHeaders =>
    \/ parser.header = "content_length" /\ HasLength
    \/ \A c, d \in HeadLengths(stream) : c <= Passed /\ d <= Passed => c = d

\* The number of a length goes on.
InNumber == parser.state = "header_value" /\ parser.header = "content_length_num"

\* A length that is read is the number that a length header has.
LengthSeen ==
  /\ parser.state = "start_res" => parser.header = "general"
  /\ InHeaders =>
       /\ parser.header = "content_length" =>
            /\ parser.state \in DiscardState \cup {"header_value_start"}
            /\ \E c \in HeadLengths(stream) :
                 c <= Passed /\ \A k \in (c + 1)..Passed : Text[k] \in Blank \cup Ends
       /\ parser.header \in Numeric => HasLength
       /\ HasLength /\ InNumber =>
            /\ value = stream.numbers[Passed]
            /\ \E c \in HeadLengths(stream) :
                 \E i \in (c + 1)..Passed : DigitsFrom(Text, c, i, Passed)
       /\ HasLength /\ ~InNumber =>
            \E j \in NumberEnds(stream) : value = stream.numbers[j]

\* A header of codings, whose value is being looked through.
Coding == {"transfer_encoding", "te_start", "te_matching", "te_token", "te_chunked"}

HasChunks == "chunked" \in parser.flags

\* A value that says chunked has ended at n or before.
SaidChunked(n) == \E k \in 1..n : \E j \in 1..n : SaysChunked(stream, k, j)

\* What the codings say is what the values of their headers do.
CodingsSeen ==
  InHeaders =>
    /\ parser.usesTE => HeadCodings(stream) # {}
    /\ HasChunks \/ parser.header \in Coding => parser.usesTE
    /\ parser.state = "header_value" /\ parser.header = "te_chunked" =>
         \E k \in 1..Passed :
           /\ k \in DOMAIN stream.words /\ stream.words[k] = "te_chunked"
           /\ \A i \in (k + 1)..Passed : Text[i] = "SP"
    /\ parser.state = "header_almost_done" /\ parser.header = "te_chunked" => SaidChunked(pos)
    /\ parser.state \notin {"header_value", "header_almost_done"}
         /\ parser.header = "te_chunked" => SaidChunked(Passed)
    /\ HasChunks => SaidChunked(Passed)
    /\ parser.state = "headers_done" => ~Contradictory(parser)

\* The digits of a size from c to k.
SizeOf(c, k) ==
  /\ c \in stream.chunks /\ c <= k /\ k <= Len(Text)
  /\ \A i \in c..k : Text[i] \in DOMAIN HexDigit
  /\ value = stream.hexes[k]

\* And what follows them in their line, to n, in which no CR is.
Parameters(c, k, n) ==
  /\ SizeOf(c, k)
  /\ Text[k + 1] \in {"CR", "SEMI", "SP"}
  /\ \A i \in (k + 1)..n : Text[i] # "CR"

\* The data of a chunk ends at d.
DataEndsAt(d) ==
  \E c \in stream.chunks, k, l \in 1..Passed :
    SizeLine(stream, c, k, l) /\ stream.hexes[k] # 0 /\ d = l + stream.hexes[k]

\* The whole has been passed, or it ends where the chunks do.
EndsInChunks ==
  Passed >= stream.whole \/ \A e \in LastEnds(stream) : stream.whole = e

\* The parser is in a chunk where there is one.
ChunksSeen ==
  /\ parser.state \in ChunkState \/ (parser.state \in HeadPart /\ Trailing) => EndsInChunks
  /\ parser.state = "chunk_size_start" =>
       Passed >= 1 /\ Passed + 1 \in stream.chunks /\ Text[Passed] = "LF"
  /\ parser.state = "chunk_size" => \E c \in 1..Passed : SizeOf(c, Passed)
  /\ parser.state = "chunk_parameters" =>
       \E c, k \in 1..(Passed - 1) : Parameters(c, k, Passed)
  /\ parser.state = "chunk_size_almost_done" =>
       Text[Passed] = "CR" /\ \E c, k \in 1..(Passed - 1) : Parameters(c, k, Passed - 1)
  /\ parser.state = "chunk_data" => DataEndsAt(Passed + parser.length)
  /\ parser.state = "chunk_data_almost_done" => DataEndsAt(Passed)
  /\ parser.state = "chunk_data_done" => DataEndsAt(Passed - 1) /\ Text[Passed] = "CR"

\* What is left of a body of known length is all that is missing.
BodyLeft ==
  /\ parser.state = "body_identity" => Passed + parser.length >= stream.whole
  /\ parser.state = "message_done" => pos >= stream.whole

\* What holds until the first message is complete, of the text and the parser.
FirstMessage ==
  /\ KindSeen /\ Looks /\ LinesSeen /\ NamesSeen /\ OneLength /\ LengthSeen
  /\ CodingsSeen /\ ChunksSeen /\ BodyLeft

\* The inductive invariant: the whole has been given once the page is complete.
PageCovered ==
  /\ outcome = "eof" => ~inCall
  /\ outcome # "eof" /\ page.fully_loaded => pos >= stream.whole
  /\ outcome # "eof" /\ ~page.fully_loaded /\ parser.errno = "OK" => FirstMessage

-----------------------------------------------------------------------------
(* What the parser does with a byte of a first message, but for what has no *)
(* part in where it ends.                                                  *)

\* A byte is passed, or left to the next state.
Took(state) == parser'.state = state /\ byte' = NoByte
Left(state) == parser'.state = state /\ byte' = byte

\* What else a step of the head leaves alone.
SameResponse ==
  /\ parser'.type = parser.type /\ parser'.connect = parser.connect
  /\ parser'.noBody = parser.noBody /\ parser'.switching = parser.switching
SameKind == SameResponse /\ parser'.upgrade = parser.upgrade
SameLength ==
  /\ HasLength' <=> HasLength
  /\ Trailing' <=> Trailing
  /\ value' = value
SameHeader == parser'.header = parser.header

StartMove ==
  /\ parser.state = "start_res" /\ SameKind /\ SameHeader
  /\ \/ byte \in Ends /\ Took("start_res") /\ SameLength
     \/ byte \notin Ends /\ Took("res_line") /\ parser'.flags = {} /\ ~parser'.usesTE

LineMove ==
  /\ SameLength /\ SameHeader
  /\ \/ /\ parser.state = "res_line" /\ parser'.noBody = (stream.status # "plain")
        /\ parser'.switching = (stream.status = "switching")
        /\ parser'.type = parser.type /\ parser'.connect = parser.connect
        /\ parser'.upgrade = parser.upgrade
        /\ \/ byte \notin Ends /\ Took("res_status")
           \/ byte \in Ends /\ Left("res_status")
     \/ /\ SameKind
        /\ \/ parser.state = "res_line" /\ byte \notin Ends /\ Took("res_line")
           \/ parser.state = "res_status" /\ byte \notin Ends /\ Took("res_status")
           \/ parser.state = "res_status" /\ byte = "CR" /\ Took("line_almost_done")
           \/ parser.state = "res_status" /\ byte = "LF" /\ Took("header_field_start")
           \/ parser.state = "line_almost_done" /\ byte = "LF" /\ Took("header_field_start")

NamesMove ==
  /\ SameResponse /\ SameLength
  /\ \/ /\ SameHeader /\ SameKind
        /\ \/ parser.state = "header_field_start" /\ byte = "CR" /\ Took("headers_almost_done")
           \/ parser.state = "header_field_start" /\ byte = "LF" /\ Left("headers_almost_done")
           \/ parser.state = "header_field_start" /\ byte \in Token /\ Took("header_field")
           \/ parser.state = "header_field" /\ byte \in Token /\ Took("header_field")
     \/ /\ SameKind
        /\ parser.state = "header_field" /\ byte = "COLON" /\ Took("header_value_discard_ws")
        /\ parser'.header = IF pos \in DOMAIN stream.names THEN stream.names[pos]
                            ELSE "general"
        /\ parser'.header \in Name \cup {"general"}
     \/ /\ SameHeader /\ ~Trailing /\ ~Contradictory(parser)
        /\ parser.state = "headers_almost_done" /\ byte = "LF" /\ Left("headers_done")
        /\ parser'.upgrade => parser.switching

BlanksMove ==
  /\ SameKind /\ SameLength
  /\ \/ /\ SameHeader /\ parser.state = "header_value_discard_ws"
        /\ \/ byte \in Blank /\ Took("header_value_discard_ws")
           \/ byte = "CR" /\ Took("header_value_discard_ws_almost_done")
           \/ byte = "LF" /\ Took("header_value_discard_lws")
           \/ byte \notin Blank \cup Ends /\ Left("header_value_start")
     \/ /\ SameHeader /\ parser.state = "header_value_discard_ws_almost_done"
        /\ byte = "LF" /\ Took("header_value_discard_lws")
     \/ /\ parser.state = "header_value_discard_lws" /\ SameHeader
        /\ byte \in Blank /\ Took("header_value_discard_ws")
     \/ /\ parser.state = "header_value_discard_lws" /\ parser.header # "content_length"
        /\ byte \notin Blank /\ Left("header_field_start") /\ parser'.header = "general"

ValueMove ==
  /\ SameKind
  /\ parser.state = "header_value" => byte \notin Ends
  /\ \/ /\ parser.state \in {"header_value_start", "header_value"} /\ Took("header_value")
        /\ SameLength /\ parser.header # "content_length"
        /\ parser.state = "header_value" => parser.header \notin Numeric
        /\ IF parser.header = "content_length_ws" THEN SameHeader
           ELSE parser'.header \notin {"content_length"} \cup Numeric
     \/ /\ parser.state = "header_value_start" /\ parser.header = "content_length"
        /\ byte \in DOMAIN Digit /\ ~HasLength
        /\ Took("header_value") /\ parser'.header = "content_length_num"
        /\ HasLength' /\ (Trailing' <=> Trailing) /\ value' = Digit[byte]
     \/ /\ parser.state = "header_value" /\ parser.header = "content_length_num"
        /\ byte \in DOMAIN Digit /\ Took("header_value") /\ SameHeader
        /\ (HasLength' <=> HasLength) /\ (Trailing' <=> Trailing)
        /\ value' = value * 10 + Digit[byte]
     \/ /\ parser.state = "header_value" /\ parser.header \in Numeric
        /\ byte = "SP" /\ Took("header_value") /\ parser'.header = "content_length_ws"
        /\ SameLength

LineEndMove ==
  /\ SameKind /\ SameLength
  /\ \/ /\ SameHeader
        /\ \/ parser.state = "header_value" /\ byte = "CR" /\ Took("header_almost_done")
           \/ parser.state = "header_value" /\ byte = "LF" /\ Left("header_almost_done")
           \/ parser.state = "header_almost_done" /\ byte = "LF" /\ Took("header_value_lws")
     \/ /\ parser.state = "header_value_lws" /\ byte \in Blank /\ Left("header_value_start")
        /\ parser'.header = IF parser.header = "content_length_num" THEN "content_length_ws"
                            ELSE parser.header
     \/ /\ parser.state = "header_value_lws" /\ byte \notin Blank /\ Left("header_field_start")
        /\ parser'.header = "general"

HeadMove == StartMove \/ LineMove \/ NamesMove \/ BlanksMove \/ ValueMove \/ LineEndMove

LEMMA FailedStep ==
  ASSUME NEW p \in Record, NEW e, Fails(p, e)
  PROVE  parser'.errno = e
BY DEF Fails, Record

LEMMA AtSame ==
  ASSUME parser \in Record, NEW state \in States, parser' = At(state)
  PROVE  /\ parser'.state = state /\ SameKind /\ SameHeader
         /\ (HasLength' <=> HasLength) /\ (Trailing' <=> Trailing)
BY DEF At, Record, SameKind, SameResponse, SameHeader, HasLength, Trailing

LEMMA StartMoves ==
  ASSUME parser \in Record, parser.header \in HeaderState, StartRes \/ BlankLine \/ Dead,
         parser.state = "start_res", parser'.errno = "OK"
  PROVE  StartMove
<1>1. Cleared(parser) \in Record
  BY ClearedFields
<1>2. ~Fails(Cleared(parser), "INVALID_CONSTANT") /\ ~Fails(parser, "CLOSED_CONNECTION")
  BY <1>1, FailedStep
<1>3. CASE BlankLine
  BY <1>3 DEF BlankLine, Takes, Step, history, StartMove, SameKind, SameResponse, SameHeader,
     SameLength, HasLength, Trailing, Took
<1>4. CASE Begins("res_line") /\ byte \notin Ends
  <2>1. parser' = [Cleared(parser) EXCEPT !.state = "res_line"] /\ byte' = NoByte
    BY <1>4 DEF Begins, Step
  <2>2. /\ parser'.state = "res_line" /\ parser'.flags = {} /\ ~parser'.usesTE
        /\ SameKind /\ SameHeader
    BY <2>1 DEF Cleared, Record, SameKind, SameResponse, SameHeader
  <2>3. QED
    BY <1>4, <2>1, <2>2 DEF StartMove, Took
<1>5. QED
  BY <1>2, <1>3, <1>4 DEF StartRes, Dead, In

LEMMA StatusBegins ==
  ASSUME ResLine, ~Fails(parser, "INVALID_STATUS")
  PROVE  \/ byte \notin Ends /\ Takes(parser, marks)
         \/ \E v, status, ms :
              \/ byte \notin Ends /\ Takes(StatusLine(parser, v, status), ms)
              \/ byte \in Ends /\ Again(StatusLine(parser, v, status), ms)
<1>1. CASE byte \notin Ends /\ Takes(parser, marks)
  BY <1>1
<1>2. CASE \E v \in BOOLEAN, status \in {"none", "switching", "plain"} :
             \/ byte \notin Ends /\ Takes(StatusLine(parser, v, status), marks \cup {"status"})
             \/ byte \in Ends /\ Again(StatusLine(parser, v, status), marks \cup {"status"})
  BY <1>2
<1>3. QED
  BY <1>1, <1>2 DEF ResLine

LEMMA LineMoves ==
  ASSUME parser \in Record, AsSent, ResLine \/ ResStatus \/ LineAlmostDone,
         parser'.errno = "OK"
  PROVE  LineMove
<1> USE DEF LineMove, SameLength, Took, Left, Takes, Again, Step, history
<1>1. /\ "res_status" \in States /\ "line_almost_done" \in States
      /\ "header_field_start" \in States
  BY DEF States, HeadState
<1>2. ~Fails(parser, "INVALID_STATUS") /\ ~Fails(parser, "LF_EXPECTED")
  BY FailedStep
<1>3. ASSUME parser' = parser
      PROVE  SameKind /\ SameHeader /\ (HasLength' <=> HasLength) /\ (Trailing' <=> Trailing)
  BY <1>3 DEF SameKind, SameResponse, SameHeader, HasLength, Trailing
<1>4. CASE ResLine
  <2>1. parser.state = "res_line"
    BY <1>4 DEF ResLine, In
  <2>2. CASE byte \notin Ends /\ Takes(parser, marks)
    BY <1>3, <2>1, <2>2
  <2>3. ASSUME NEW v, NEW status, NEW ms,
               \/ byte \notin Ends /\ Takes(StatusLine(parser, v, status), ms)
               \/ byte \in Ends /\ Again(StatusLine(parser, v, status), ms)
        PROVE  LineMove
    <3>1. parser' = StatusLine(parser, v, status)
      BY <2>3
    <3>2. /\ parser'.state = "res_status" /\ SameHeader
          /\ (HasLength' <=> HasLength) /\ (Trailing' <=> Trailing)
          /\ parser'.type = parser.type /\ parser'.connect = parser.connect
          /\ parser'.upgrade = parser.upgrade
      BY <3>1 DEF StatusLine, Record, SameHeader, HasLength, Trailing
    <3>3. /\ parser'.noBody = (stream.status # "plain")
          /\ parser'.switching = (stream.status = "switching")
      BY <2>1, <3>2 DEF AsSent
    <3>4. QED
      BY <2>1, <2>3, <3>2, <3>3
  <2>4. QED
    BY <1>2, <1>4, <2>2, <2>3, StatusBegins
<1>5. CASE ResStatus
  BY <1>1, <1>3, <1>5, AtSame DEF ResStatus, In
<1>6. CASE LineAlmostDone
  BY <1>1, <1>2, <1>6, AtSame DEF LineAlmostDone, In
<1>7. QED
  BY <1>4, <1>5, <1>6

LEMMA FieldMoves ==
  ASSUME parser \in Record, AsSent, KindSeen,
         \/ HeaderFieldStart \/ HeaderField
         \/ HeadersAlmostDone /\ ~Trailing,
         parser'.errno = "OK"
  PROVE  NamesMove
<1> USE DEF NamesMove, SameLength, Took, Left, Takes, Again, Step, history
<1>0. SameKind => SameResponse
  BY DEF SameKind
<1>1. /\ "headers_almost_done" \in States /\ "header_field" \in States
      /\ "header_value_discard_ws" \in States /\ "headers_done" \in States
  BY DEF States, HeadState
<1>2. /\ ~Fails(parser, "INVALID_HEADER_TOKEN") /\ ~Fails(parser, "STRICT")
      /\ ~Fails(parser, "UNEXPECTED_CONTENT_LENGTH")
  BY FailedStep
<1>3. CASE HeaderFieldStart
  BY <1>0, <1>1, <1>2, <1>3, AtSame DEF HeaderFieldStart, In
<1>4. CASE HeaderField
  <2>1. parser.state = "header_field"
    BY <1>4 DEF HeaderField, In
  <2>2. CASE byte \in Token /\ Takes(parser, marks)
    BY <2>1, <2>2 DEF SameKind, SameResponse, SameHeader, HasLength, Trailing
  <2>3. CASE byte = "COLON" /\ \E h \in Names \cup {"general"}, te \in BOOLEAN :
                         Takes([At("header_value_discard_ws") EXCEPT
                         !.header = h, !.usesTE = @ \/ te], marks \ {"header_field"})
    <3>1. PICK h \in Names \cup {"general"}, te \in BOOLEAN :
            parser' = [At("header_value_discard_ws") EXCEPT
                         !.header = h, !.usesTE = @ \/ te]
      BY <2>3
    <3>2. /\ parser'.state = "header_value_discard_ws" /\ SameKind
          /\ (HasLength' <=> HasLength) /\ (Trailing' <=> Trailing)
          /\ parser'.header \in Name \cup {"general"}
      BY <3>1, HeadersAssumption DEF At, Record, SameKind, SameResponse, HasLength, Trailing
    <3>3. parser'.header = IF pos \in DOMAIN stream.names THEN stream.names[pos]
                           ELSE "general"
      BY <2>1, <3>2 DEF AsSent, ReadsAs, NamesRead
    <3>4. QED
      BY <1>0, <2>1, <2>3, <3>2, <3>3
  <2>4. QED
    BY <1>2, <1>4, <2>2, <2>3 DEF HeaderField
<1>5. CASE HeadersAlmostDone /\ ~Trailing
  <2>1. parser.state = "headers_almost_done" /\ "trailing" \notin parser.flags
    BY <1>5 DEF HeadersAlmostDone, In, Trailing
  <2>2. /\ byte = "LF" /\ value' = value /\ byte' = byte /\ ~Contradictory(parser)
        /\ parser' = [At("headers_done") EXCEPT !.upgrade = Upgrades(parser)]
    BY <1>2, <1>5, <2>1 DEF HeadersAlmostDone
  <2>3. Upgrades(parser) => parser.switching
    BY DEF Upgrades, KindSeen
  <2>4. /\ parser'.state = "headers_done" /\ SameHeader /\ SameResponse
        /\ (HasLength' <=> HasLength) /\ (Trailing' <=> Trailing)
        /\ parser'.upgrade = Upgrades(parser)
    BY <2>2 DEF At, Record, SameHeader, SameResponse, HasLength, Trailing
  <2>5. QED
    BY <1>5, <2>1, <2>2, <2>3, <2>4
<1>6. QED
  BY <1>3, <1>4, <1>5

\* A header is through: what it said is noted, which is no length.
LEMMA DoneSame ==
  ASSUME parser \in Record, parser' = HeaderDone(parser)
  PROVE  /\ parser'.state = "header_field_start" /\ parser'.header = "general"
         /\ SameKind /\ (HasLength' <=> HasLength) /\ (Trailing' <=> Trailing)
         /\ parser'.usesTE = parser.usesTE
         /\ HasChunks' => HasChunks \/ parser.header = "te_chunked"
<1>1. PICK flags : /\ Said(parser) = [parser EXCEPT !.flags = flags]
                   /\ flags \subseteq parser.flags \cup Connection \cup {"chunked"}
                   /\ parser.flags \subseteq flags
                   /\ "chunked" \in flags =>
                        "chunked" \in parser.flags \/ parser.header = "te_chunked"
  <2>1. CASE parser.header \in Connection
    <3> DEFINE flags == parser.flags \cup {parser.header}
    <3>1. Said(parser) = [parser EXCEPT !.flags = flags]
      BY <2>1 DEF Said, Connection
    <3>2. parser.header # "chunked"
      BY <2>1 DEF Connection
    <3>3. /\ flags \subseteq parser.flags \cup Connection \cup {"chunked"}
          /\ parser.flags \subseteq flags
          /\ "chunked" \in flags => "chunked" \in parser.flags
      BY <2>1, <3>2
    <3> HIDE DEF flags
    <3>4. QED
      BY <3>1, <3>3
  <2>2. CASE parser.header = "te_chunked"
    <3>1. Said(parser) = [parser EXCEPT !.flags = parser.flags \cup {"chunked"}]
      BY <2>2 DEF Said, Connection
    <3>2. QED
      BY <2>2, <3>1
  <2>3. CASE parser.header \notin Connection \cup {"te_chunked"}
    <3>1. Said(parser) = [parser EXCEPT !.flags = parser.flags]
      BY <2>3 DEF Said, Record
    <3>2. QED
      BY <3>1
  <2>4. QED
    BY <2>1, <2>2, <2>3
<1>2. parser' = [parser EXCEPT !.flags = flags, !.state = "header_field_start",
                               !.header = "general"]
  BY <1>1 DEF HeaderDone, Record
<1>3. /\ parser'.state = "header_field_start" /\ parser'.header = "general"
      /\ SameKind /\ parser'.usesTE = parser.usesTE /\ parser'.flags = flags
  BY <1>2 DEF Record, SameKind, SameResponse
<1>4. "content_length" \notin Connection /\ "trailing" \notin Connection
  BY DEF Connection
<1>5. QED
  BY <1>1, <1>3, <1>4 DEF HasLength, Trailing, HasChunks

LEMMA BlanksMoves ==
  ASSUME parser \in Record, DiscardWs \/ DiscardWsAlmostDone \/ DiscardLws,
         parser'.errno = "OK"
  PROVE  BlanksMove
<1> USE DEF BlanksMove, SameLength, Took, Left, Takes, Again, Step, history
<1>1. /\ "header_value_discard_ws" \in States /\ "header_value_start" \in States
      /\ "header_value_discard_ws_almost_done" \in States
      /\ "header_value_discard_lws" \in States
  BY DEF States, HeadState
<1>2. ~Fails(parser, "INVALID_CONTENT_LENGTH") /\ ~Fails(parser, "STRICT")
  BY FailedStep
<1>3. CASE DiscardWs
  <2>1. CASE byte \in Blank /\ Takes(parser, marks)
    BY <1>3, <2>1 DEF DiscardWs, In, SameKind, SameResponse, SameHeader, HasLength, Trailing
  <2>2. QED
    BY <1>1, <1>3, <2>1, AtSame DEF DiscardWs, In
<1>4. CASE DiscardWsAlmostDone
  BY <1>1, <1>2, <1>4, AtSame DEF DiscardWsAlmostDone, In
<1>5. CASE DiscardLws
  BY <1>1, <1>2, <1>5, AtSame, DoneSame DEF DiscardLws, In
<1>6. QED
  BY <1>3, <1>4, <1>5

LEMMA LineEndMoves ==
  ASSUME parser \in Record,
         HeaderValueEnds \/ HeaderAlmostDone \/ HeaderValueLws, parser'.errno = "OK"
  PROVE  LineEndMove
<1> USE DEF LineEndMove, SameLength, Took, Left, Takes, Again, Step, history
<1>1. /\ "header_almost_done" \in States /\ "header_value_lws" \in States
      /\ "header_value_start" \in States
  BY DEF States, HeadState
<1>2. ~Fails(parser, "INVALID_HEADER_TOKEN") /\ ~Fails(parser, "LF_EXPECTED")
  BY FailedStep
<1>3. CASE HeaderValueEnds
  BY <1>1, <1>2, <1>3, AtSame DEF HeaderValueEnds, In
<1>4. CASE HeaderAlmostDone
  BY <1>1, <1>2, <1>4, AtSame DEF HeaderAlmostDone, In
<1>5. CASE HeaderValueLws
  <2>1. CASE byte \in Blank /\ Again(Folded(At("header_value_start")), marks)
    <3>1. parser' = [At("header_value_start") EXCEPT
            !.header = IF @ = "content_length_num" THEN "content_length_ws" ELSE @]
      BY <2>1 DEF Folded
    <3>2. /\ parser'.state = "header_value_start" /\ SameKind
          /\ (HasLength' <=> HasLength) /\ (Trailing' <=> Trailing)
          /\ parser'.header = IF parser.header = "content_length_num" THEN "content_length_ws"
                              ELSE parser.header
      BY <3>1 DEF At, Record, SameKind, SameResponse, HasLength, Trailing
    <3>3. QED
      BY <1>5, <2>1, <3>2 DEF HeaderValueLws, In
  <2>2. CASE byte \notin Blank /\ Again(HeaderDone(parser), marks)
    BY <1>5, <2>2, DoneSame DEF HeaderValueLws, In
  <2>3. QED
    BY <1>5, <2>1, <2>2 DEF HeaderValueLws
<1>6. QED
  BY <1>3, <1>4, <1>5

\* A value that is no length begins, or goes on: nothing it says is one.
LEMMA OtherValueBegins ==
  ASSUME parser \in Record, parser.header # "content_length",
         NEW p \in ValueBegins(At("header_value")), parser' = p
  PROVE  /\ parser'.state = "header_value" /\ SameKind
         /\ (HasLength' <=> HasLength) /\ (Trailing' <=> Trailing)
         /\ IF parser.header = "content_length_ws" THEN SameHeader
            ELSE parser'.header \notin {"content_length"} \cup Numeric
         /\ parser'.usesTE = parser.usesTE /\ (HasChunks' => HasChunks)
         /\ parser'.header \in Coding => parser.header \in Coding
         /\ parser'.header # "te_chunked"
<1> DEFINE q == At("header_value")
           New == {"te_token", "te_matching", "conn_token", "conn_matching"}
<1> USE DEF SameKind, SameResponse, SameHeader, HasLength, Trailing, HasChunks, Numeric, Coding
<1>1. /\ q \in Record /\ q.state = "header_value" /\ q.header = parser.header
      /\ q.flags = parser.flags /\ q.type = parser.type /\ q.connect = parser.connect
      /\ q.upgrade = parser.upgrade /\ q.noBody = parser.noBody
      /\ q.switching = parser.switching /\ q.usesTE = parser.usesTE
  <2>1. "header_value" \in HeadState
    BY DEF HeadState
  <2>2. QED
    BY <2>1 DEF At, Record
<1>2. p \in ValueBegins(q)
  OBVIOUS
<1> HIDE DEF q
<1>3. CASE q.header \in {"transfer_encoding", "connection"}
  <2>1. PICK h \in New : /\ p = [q EXCEPT !.header = h]
                         /\ h \in Coding => q.header = "transfer_encoding"
    BY <1>2, <1>3 DEF ValueBegins
  <2>2. QED
    BY <1>1, <1>3, <2>1 DEF Record
<1>4. CASE q.header = "upgrade"
  <2>1. p = [q EXCEPT !.flags = @ \cup {"upgrade"}, !.header = "general"]
    BY <1>2, <1>4 DEF ValueBegins
  <2>2. QED
    BY <1>1, <1>4, <2>1 DEF Record
<1>5. CASE q.header \in {"te_start", "conn_start", "content_length_ws"}
  <2>1. p = q
    BY <1>2, <1>5 DEF ValueBegins
  <2>2. QED
    BY <1>1, <1>5, <2>1
<1>6. CASE q.header \notin {"transfer_encoding", "connection", "upgrade", "te_start",
                            "conn_start", "content_length_ws"}
  <2>1. p = [q EXCEPT !.header = "general"]
    BY <1>2, <1>6 DEF ValueBegins
  <2>2. QED
    BY <1>1, <1>6, <2>1 DEF Record
<1>7. QED
  BY <1>3, <1>4, <1>5, <1>6

LEMMA OtherGoesOn ==
  ASSUME parser.header \notin {"content_length"} \cup Numeric, NEW h \in ValueGoesOn
  PROVE  /\ h \notin {"content_length"} \cup Numeric
         /\ h \in Coding => parser.header \in Coding
         /\ h = "te_chunked" =>
              \/ parser.header = "te_chunked" /\ byte = "SP"
              \/ parser.header \in {"te_start", "te_matching"}
<1> USE DEF Numeric, Coding
<1>1. Options \subseteq Connection
  BY HeadersAssumption
<1>2. CASE parser.header \in {"te_start", "conn_start"}
  BY <1>2 DEF ValueGoesOn, TokenStart
<1>3. CASE parser.header \in {"te_matching", "te_token", "te_chunked"}
  BY <1>3 DEF ValueGoesOn
<1>4. CASE parser.header \in {"conn_matching", "conn_token"}
  BY <1>1, <1>4 DEF ValueGoesOn, Connection
<1>5. CASE parser.header \in Connection
  BY <1>5 DEF ValueGoesOn, Connection
<1>6. CASE parser.header \notin {"te_start", "conn_start", "te_matching", "te_token",
             "te_chunked", "conn_matching", "conn_token"} \cup Connection
  BY <1>6 DEF ValueGoesOn
<1>7. QED
  BY <1>2, <1>3, <1>4, <1>5, <1>6

LEMMA OptionsSame ==
  ASSUME parser \in Record, NEW h, parser' = [OptionEnds(parser) EXCEPT !.header = h]
  PROVE  /\ parser'.state = parser.state /\ SameKind /\ parser'.header = h
         /\ (HasLength' <=> HasLength) /\ (Trailing' <=> Trailing)
         /\ parser'.usesTE = parser.usesTE /\ (HasChunks' => HasChunks)
<1>1. PICK flags : /\ OptionEnds(parser) = [parser EXCEPT !.flags = flags]
                   /\ flags \subseteq parser.flags \cup Connection
                   /\ parser.flags \subseteq flags
  <2>1. CASE byte = "COMMA" /\ parser.header \in Connection
    <3>1. OptionEnds(parser) = [parser EXCEPT !.flags = parser.flags \cup {parser.header}]
      BY <2>1 DEF OptionEnds, Said, Connection
    <3>2. QED
      BY <2>1, <3>1
  <2>2. CASE ~(byte = "COMMA" /\ parser.header \in Connection)
    <3>1. OptionEnds(parser) = [parser EXCEPT !.flags = parser.flags]
      BY <2>2 DEF OptionEnds, Record
    <3>2. QED
      BY <3>1
  <2>3. QED
    BY <2>1, <2>2
<1>2. parser' = [parser EXCEPT !.flags = flags, !.header = h]
  BY <1>1 DEF Record
<1>3. /\ parser'.state = parser.state /\ SameKind /\ parser'.header = h
      /\ parser'.usesTE = parser.usesTE /\ parser'.flags = flags
  BY <1>2 DEF Record, SameKind, SameResponse
<1>4. Connection \cap {"content_length", "trailing", "chunked"} = {}
  BY DEF Connection
<1>5. QED
  BY <1>1, <1>3, <1>4 DEF HasLength, Trailing, HasChunks

LEMMA ValueMoves ==
  ASSUME parser \in Record, HeaderValueStart \/ HeaderValue \/ ContentLength,
         parser.state = "header_value" => parser.header # "content_length",
         parser'.errno = "OK"
  PROVE  ValueMove
<1> USE DEF ValueMove, SameLength, Took, Takes, Step, history
<1>1. At("header_value") \in Record
  BY AtFields DEF States, HeadState
<1>2. ~Fails(At("header_value"), "CONTENT_LENGTH") /\ ~Fails(parser, "INVALID_CONTENT_LENGTH")
  BY <1>1, FailedStep
<1>3. CASE HeaderValueStart
  <2>1. parser.state = "header_value_start"
    BY <1>3 DEF HeaderValueStart, In
  <2>2. CASE parser.header # "content_length" /\
             \E p \in ValueBegins(At("header_value")) :
               Takes(p, marks \cup {"header_value"})
    <3>1. PICK p \in ValueBegins(At("header_value")) :
            Takes(p, marks \cup {"header_value"})
      BY <2>2
    <3>2. parser' = p /\ byte' = NoByte /\ value' = value
      BY <3>1
    <3>3. /\ parser'.state = "header_value" /\ SameKind
          /\ (HasLength' <=> HasLength) /\ (Trailing' <=> Trailing)
          /\ IF parser.header = "content_length_ws" THEN SameHeader
             ELSE parser'.header \notin {"content_length"} \cup Numeric
      BY <2>2, <3>2, OtherValueBegins
    <3>4. QED
      BY <2>1, <2>2, <3>2, <3>3
  <2>3. CASE /\ parser.header = "content_length"
             /\ byte \in DOMAIN Digit /\ "content_length" \notin parser.flags
             /\ parser' = FirstDigit(At("header_value"), Digit[byte])
             /\ byte' = NoByte /\ value' = Digit[byte]
    <3>1. parser' = [At("header_value") EXCEPT !.length = Digit[byte],
                       !.header = "content_length_num",
                       !.flags = @ \cup {"content_length"}]
      BY <2>3 DEF FirstDigit
    <3>2. /\ parser'.state = "header_value" /\ SameKind
          /\ parser'.header = "content_length_num"
          /\ parser'.flags = parser.flags \cup {"content_length"}
      BY <3>1 DEF At, Record, SameKind, SameResponse
    <3>3. ~HasLength /\ HasLength' /\ (Trailing' <=> Trailing)
      BY <2>3, <3>2 DEF HasLength, Trailing
    <3>4. QED
      BY <2>1, <2>3, <3>2, <3>3
  <2>4. QED
    BY <1>2, <1>3, <2>2, <2>3 DEF HeaderValueStart
<1>4. CASE HeaderValue
  <2>1. /\ parser.state = "header_value" /\ byte \notin Ends
        /\ parser.header \notin {"content_length"} \cup Numeric
    BY <1>4 DEF HeaderValue, In
  <2>2. PICK h \in ValueGoesOn :
          /\ parser' = [OptionEnds(parser) EXCEPT !.header = h]
          /\ byte' = NoByte /\ value' = value
    BY <1>4 DEF HeaderValue
  <2>3. h \notin {"content_length"} \cup Numeric
    BY <2>1, OtherGoesOn
  <2>4. /\ parser'.state = "header_value" /\ SameKind /\ parser'.header = h
        /\ (HasLength' <=> HasLength) /\ (Trailing' <=> Trailing)
    BY <2>1, <2>2, OptionsSame
  <2>5. QED
    BY <2>1, <2>2, <2>3, <2>4 DEF Numeric
<1>5. CASE ContentLength
  <2>1. parser.state = "header_value" /\ parser.header \in Numeric /\ byte \notin Ends
    BY <1>5 DEF ContentLength, In
  <2>2. CASE byte = "SP" /\ Takes([parser EXCEPT !.header = "content_length_ws"], marks)
    <3>1. /\ parser'.state = "header_value" /\ SameKind /\ parser'.flags = parser.flags
          /\ parser'.header = "content_length_ws"
      BY <2>1, <2>2 DEF Record, SameKind, SameResponse
    <3>2. QED
      BY <2>1, <2>2, <3>1 DEF HasLength, Trailing
  <2>3. CASE /\ parser.header = "content_length_num" /\ byte \in DOMAIN Digit
             /\ Step(Fold(parser, 10, Digit[byte]), marks)
             /\ byte' = NoByte
             /\ value' = value * 10 + Digit[byte]
    <3>1. parser' = [parser EXCEPT !.length = (@ * 10 + Digit[byte]) % (MaxLength + 1)]
      BY <2>3 DEF Fold
    <3>2. /\ parser'.state = "header_value" /\ SameKind /\ SameHeader
          /\ parser'.flags = parser.flags
      BY <2>1, <3>1 DEF Record, SameKind, SameResponse, SameHeader
    <3>3. QED
      BY <2>1, <2>3, <3>2 DEF HasLength, Trailing
  <2>4. QED
    BY <1>2, <1>5, <2>2, <2>3 DEF ContentLength
<1>6. QED
  BY <1>3, <1>4, <1>5

-----------------------------------------------------------------------------
(* What a step makes of codings.                                           *)

\* The colon of a header of codings.
Coded == parser.state = "header_field" /\ byte = "COLON" /\ pos \in stream.codings

\* The word chunked is read, goes on in blanks, or has been the last of a value.
WordMove ==
  \/ /\ parser.state = "header_value" /\ parser'.state = "header_value" /\ byte' = NoByte
     /\ \/ pos \in DOMAIN stream.words /\ stream.words[pos] = "te_chunked"
        \/ parser.header = "te_chunked" /\ byte = "SP"
  \/ /\ parser.state = "header_value" /\ parser'.state = "header_almost_done"
     /\ parser.header = "te_chunked" /\ byte \in Ends
  \/ /\ parser.state # "header_value" /\ parser.header = "te_chunked"
     /\ parser'.state \notin {"header_value", "header_almost_done"}
     /\ parser.state = "header_almost_done" => byte' = NoByte

CodingMove ==
  /\ parser'.usesTE <=> parser.usesTE \/ Coded
  /\ parser'.header \in Coding => parser.header \in Coding \/ Coded
  /\ HasChunks' =>
       \/ HasChunks
       \/ /\ parser.header = "te_chunked"
          /\ parser.state \notin {"header_value", "header_almost_done"}
  /\ parser'.header = "te_chunked" => WordMove

\* A step that only changes the state.
LEMMA AtCoding ==
  ASSUME parser \in Record, NEW state \in States, parser' = At(state), ~Coded,
         parser.state \notin {"header_value", "header_almost_done"},
         state \notin {"header_value", "header_almost_done"}
  PROVE  CodingMove
<1>1. parser'.state = state /\ SameHeader /\ parser'.flags = parser.flags
      /\ parser'.usesTE = parser.usesTE
  BY DEF At, Record, SameHeader
<1>2. QED
  BY <1>1 DEF CodingMove, WordMove, SameHeader, HasChunks

LEMMA SameCoding ==
  ASSUME parser' = parser, ~Coded, parser.state \notin {"header_value", "header_almost_done"}
  PROVE  CodingMove
BY DEF CodingMove, WordMove, HasChunks

LEMMA DoneCoding ==
  ASSUME parser \in Record, parser' = HeaderDone(parser), ~Coded,
         parser.state \notin {"header_value", "header_almost_done"}
  PROVE  CodingMove
<1>1. /\ parser'.header = "general" /\ parser'.usesTE = parser.usesTE
      /\ HasChunks' => HasChunks \/ parser.header = "te_chunked"
  BY DoneSame
<1>2. QED
  BY <1>1 DEF CodingMove, Coding

LEMMA LineCodings ==
  ASSUME parser \in Record, ResLine \/ ResStatus \/ LineAlmostDone, parser'.errno = "OK"
  PROVE  CodingMove
<1> USE DEF Takes, Again, Step
<1>1. "line_almost_done" \in States /\ "header_field_start" \in States
  BY DEF States, HeadState
<1>2. ~Fails(parser, "INVALID_STATUS") /\ ~Fails(parser, "LF_EXPECTED")
  BY FailedStep
<1>3. ~Coded /\ parser.state \notin {"header_value", "header_almost_done"}
  BY DEF Coded, ResLine, ResStatus, LineAlmostDone, In
<1>4. CASE ResLine
  <2>1. ASSUME NEW v, NEW status, parser' = StatusLine(parser, v, status) PROVE CodingMove
    <3>1. /\ parser'.state = "res_status" /\ parser'.header = parser.header
          /\ parser'.flags = parser.flags /\ parser'.usesTE = parser.usesTE
      BY <2>1 DEF StatusLine, Record
    <3>2. QED
      BY <1>3, <3>1 DEF CodingMove, WordMove, HasChunks
  <2>2. QED
    BY <1>2, <1>3, <1>4, <2>1, StatusBegins, SameCoding
<1>5. CASE ResStatus
  BY <1>1, <1>3, <1>5, AtCoding, SameCoding DEF ResStatus
<1>6. CASE LineAlmostDone
  BY <1>1, <1>2, <1>3, <1>6, AtCoding DEF LineAlmostDone
<1>7. QED
  BY <1>4, <1>5, <1>6

LEMMA FieldCodings ==
  ASSUME parser \in Record, stream \in Responses, AsSent,
         HeaderFieldStart \/ HeaderField \/ HeadersAlmostDone, parser'.errno = "OK",
         ~Trailing \/ ~HeadersAlmostDone
  PROVE  CodingMove
<1> USE DEF Takes, Again, Step
<1>1. /\ "headers_almost_done" \in States /\ "header_field" \in States
      /\ "header_value_discard_ws" \in States /\ "headers_done" \in States
  BY DEF States, HeadState
<1>2. /\ ~Fails(parser, "INVALID_HEADER_TOKEN") /\ ~Fails(parser, "STRICT")
      /\ ~Fails(parser, "UNEXPECTED_CONTENT_LENGTH")
  BY FailedStep
<1>3. parser.state \notin {"header_value", "header_almost_done"}
  BY DEF HeaderFieldStart, HeaderField, HeadersAlmostDone, In
<1>4. CASE HeaderFieldStart
  <2>1. ~Coded
    BY <1>4 DEF Coded, HeaderFieldStart, In
  <2>2. QED
    BY <1>1, <1>2, <1>3, <1>4, <2>1, AtCoding DEF HeaderFieldStart
<1>5. CASE HeaderField
  <2>1. parser.state = "header_field"
    BY <1>5 DEF HeaderField, In
  <2>2. CASE byte \in Token /\ parser' = parser
    <3>1. byte # "COLON"
      BY <2>2, ByteAssumption, DigitAssumption DEF Token
    <3>2. QED
      BY <1>3, <2>2, <3>1, SameCoding DEF Coded
  <2>3. ASSUME NEW h \in Names \cup {"general"}, NEW te, byte = "COLON",
               parser' = [At("header_value_discard_ws") EXCEPT !.header = h, !.usesTE = @ \/ te]
        PROVE  CodingMove
    <3>1. /\ parser'.state = "header_value_discard_ws" /\ parser'.flags = parser.flags
          /\ parser'.header = h /\ h \in Name \cup {"general"}
      BY <2>3, HeadersAssumption DEF At, Record
    <3>2. /\ parser'.header = IF pos \in DOMAIN stream.names THEN stream.names[pos]
                              ELSE "general"
          /\ parser'.usesTE <=> parser.usesTE \/ pos \in stream.codings
      BY <2>1, <3>1 DEF AsSent, ReadsAs, NamesRead
    <3>3. h = "transfer_encoding" => pos \in stream.codings
      BY <3>1, <3>2, NamesAssumption
    <3>4. h \in Coding => h = "transfer_encoding"
      BY <3>1 DEF Coding, Name
    <3>5. Coded <=> pos \in stream.codings
      BY <2>1, <2>3 DEF Coded
    <3>6. parser'.usesTE <=> parser.usesTE \/ Coded
      BY <3>2, <3>5
    <3>7. /\ parser'.header \in Coding => Coded
          /\ parser'.header # "te_chunked"
      BY <3>1, <3>3, <3>4, <3>5 DEF Name
    <3>8. HasChunks' => HasChunks
      BY <3>1 DEF HasChunks
    <3>9. QED
      BY <3>6, <3>7, <3>8 DEF CodingMove
  <2>4. QED
    BY <1>2, <1>5, <2>2, <2>3 DEF HeaderField
<1>6. CASE HeadersAlmostDone /\ ~Trailing
  <2>1. parser.state = "headers_almost_done" /\ "trailing" \notin parser.flags
    BY <1>6 DEF HeadersAlmostDone, In, Trailing
  <2>2. parser' = [At("headers_done") EXCEPT !.upgrade = Upgrades(parser)]
    BY <1>2, <1>6, <2>1 DEF HeadersAlmostDone
  <2>3. /\ parser'.state = "headers_done" /\ parser'.header = parser.header
        /\ parser'.flags = parser.flags /\ parser'.usesTE = parser.usesTE
    BY <2>2 DEF At, Record
  <2>4. QED
    BY <2>1, <2>3 DEF CodingMove, WordMove, Coded, HasChunks
<1>7. QED
  BY <1>4, <1>5, <1>6

LEMMA BlanksCodings ==
  ASSUME parser \in Record, DiscardWs \/ DiscardWsAlmostDone \/ DiscardLws,
         parser'.errno = "OK"
  PROVE  CodingMove
<1> USE DEF Takes, Again, Step
<1>1. /\ "header_value_discard_ws" \in States /\ "header_value_start" \in States
      /\ "header_value_discard_ws_almost_done" \in States
      /\ "header_value_discard_lws" \in States
  BY DEF States, HeadState
<1>2. ~Fails(parser, "INVALID_CONTENT_LENGTH") /\ ~Fails(parser, "STRICT")
  BY FailedStep
<1>3. ~Coded /\ parser.state \notin {"header_value", "header_almost_done"}
  BY DEF Coded, DiscardWs, DiscardWsAlmostDone, DiscardLws, In
<1>4. CASE DiscardWs
  BY <1>1, <1>3, <1>4, AtCoding, SameCoding DEF DiscardWs
<1>5. CASE DiscardWsAlmostDone
  BY <1>1, <1>2, <1>3, <1>5, AtCoding DEF DiscardWsAlmostDone
<1>6. CASE DiscardLws
  BY <1>1, <1>2, <1>3, <1>6, AtCoding, DoneCoding DEF DiscardLws
<1>7. QED
  BY <1>4, <1>5, <1>6

LEMMA LineEndCodings ==
  ASSUME parser \in Record,
         HeaderValueEnds \/ HeaderAlmostDone \/ HeaderValueLws, parser'.errno = "OK"
  PROVE  CodingMove
<1> USE DEF Takes, Again, Step
<1>1. ~Fails(parser, "INVALID_HEADER_TOKEN") /\ ~Fails(parser, "LF_EXPECTED")
  BY FailedStep
<1>2. ~Coded
  BY DEF Coded, HeaderValueEnds, HeaderAlmostDone, HeaderValueLws, In
<1>3. CASE HeaderValueEnds
  <2>1. parser.state = "header_value" /\ byte \in Ends
        /\ parser' = At("header_almost_done")
    BY <1>1, <1>3 DEF HeaderValueEnds, In, Ends
  <2>2. /\ parser'.state = "header_almost_done" /\ parser'.header = parser.header
        /\ parser'.flags = parser.flags /\ parser'.usesTE = parser.usesTE
    BY <2>1 DEF At, Record
  <2>3. QED
    BY <1>2, <2>1, <2>2 DEF CodingMove, WordMove, HasChunks
<1>4. CASE HeaderAlmostDone
  <2>1. parser.state = "header_almost_done" /\ parser' = At("header_value_lws")
        /\ byte' = NoByte
    BY <1>1, <1>4 DEF HeaderAlmostDone, In
  <2>2. /\ parser'.state = "header_value_lws" /\ parser'.header = parser.header
        /\ parser'.flags = parser.flags /\ parser'.usesTE = parser.usesTE
    BY <2>1 DEF At, Record
  <2>3. QED
    BY <1>2, <2>1, <2>2 DEF CodingMove, WordMove, HasChunks
<1>5. CASE HeaderValueLws
  <2>1. parser.state = "header_value_lws"
    BY <1>5 DEF HeaderValueLws, In
  <2>2. CASE byte \in Blank /\ parser' = Folded(At("header_value_start"))
    <3>1. /\ parser'.state = "header_value_start"
          /\ parser'.header = IF parser.header = "content_length_num" THEN "content_length_ws"
                              ELSE parser.header
          /\ parser'.flags = parser.flags /\ parser'.usesTE = parser.usesTE
      BY <2>2 DEF Folded, At, Record
    <3>2. QED
      BY <1>2, <2>1, <3>1 DEF CodingMove, WordMove, HasChunks, Coding
  <2>3. CASE byte \notin Blank /\ parser' = HeaderDone(parser)
    BY <1>2, <2>1, <2>3, DoneCoding
  <2>4. QED
    BY <1>5, <2>2, <2>3 DEF HeaderValueLws
<1>6. QED
  BY <1>3, <1>4, <1>5

LEMMA ValueCodings ==
  ASSUME parser \in Record, AsSent, HeaderValueStart \/ HeaderValue \/ ContentLength,
         parser.state = "header_value" => parser.header # "content_length",
         parser'.errno = "OK"
  PROVE  CodingMove
<1> USE DEF Takes, Step
<1>1. At("header_value") \in Record
  BY AtFields DEF States, HeadState
<1>2. ~Fails(At("header_value"), "CONTENT_LENGTH") /\ ~Fails(parser, "INVALID_CONTENT_LENGTH")
  BY <1>1, FailedStep
<1>3. ~Coded
  BY DEF Coded, HeaderValueStart, HeaderValue, ContentLength, In
<1>4. CASE HeaderValueStart
  <2>1. ASSUME parser.header # "content_length",
               NEW p \in ValueBegins(At("header_value")), parser' = p
        PROVE  CodingMove
    <3>1. /\ parser'.usesTE = parser.usesTE /\ (HasChunks' => HasChunks)
          /\ parser'.header \in Coding => parser.header \in Coding
          /\ parser'.header # "te_chunked"
      BY <2>1, OtherValueBegins
    <3>2. QED
      BY <1>3, <3>1 DEF CodingMove
  <2>2. CASE parser' = FirstDigit(At("header_value"), Digit[byte])
    <3>1. /\ parser'.header = "content_length_num" /\ parser'.usesTE = parser.usesTE
          /\ parser'.flags = parser.flags \cup {"content_length"}
      BY <2>2 DEF FirstDigit, At, Record
    <3>2. QED
      BY <1>3, <3>1 DEF CodingMove, Coding, HasChunks
  <2>3. QED
    BY <1>2, <1>4, <2>1, <2>2 DEF HeaderValueStart
<1>5. CASE HeaderValue
  <2>1. /\ parser.state = "header_value"
        /\ parser.header \notin {"content_length"} \cup Numeric
    BY <1>5 DEF HeaderValue, In
  <2>2. PICK h \in ValueGoesOn :
          parser' = [OptionEnds(parser) EXCEPT !.header = h] /\ byte' = NoByte
    BY <1>5 DEF HeaderValue
  <2>3. /\ h \in Coding => parser.header \in Coding
        /\ h = "te_chunked" =>
              \/ parser.header = "te_chunked" /\ byte = "SP"
              \/ parser.header \in {"te_start", "te_matching"}
    BY <2>1, OtherGoesOn
  <2>4. /\ parser'.state = "header_value" /\ parser'.header = h
        /\ parser'.usesTE = parser.usesTE /\ (HasChunks' => HasChunks)
    BY <2>1, <2>2, OptionsSame
  <2>5. parser.header \in {"te_start", "te_matching"} /\ h = "te_chunked" =>
          pos \in DOMAIN stream.words /\ stream.words[pos] = "te_chunked"
    <3>1. SUFFICES ASSUME parser.header \in {"te_start", "te_matching"}, h = "te_chunked"
                   PROVE  pos \in DOMAIN stream.words /\ stream.words[pos] = "te_chunked"
      OBVIOUS
    <3>2. InWord
      BY <2>1, <3>1 DEF InWord
    <3>3. parser'.header \in Word
      BY <2>4, <3>1 DEF Word
    <3>4. QED
      BY <2>4, <3>1, <3>2, <3>3 DEF AsSent, ReadsAs, WordsRead
  <2>6. parser'.header = "te_chunked" => WordMove
    BY <2>1, <2>2, <2>3, <2>4, <2>5 DEF WordMove
  <2>7. QED
    BY <1>3, <2>3, <2>4, <2>6 DEF CodingMove
<1>6. CASE ContentLength
  <2>1. parser.header \in Numeric
    BY <1>6 DEF ContentLength
  <2>2. CASE parser' = [parser EXCEPT !.header = "content_length_ws"]
    <3>1. /\ parser'.header = "content_length_ws" /\ parser'.usesTE = parser.usesTE
          /\ parser'.flags = parser.flags
      BY <2>2 DEF Record
    <3>2. QED
      BY <1>3, <3>1 DEF CodingMove, Coding, HasChunks
  <2>3. CASE parser' = Fold(parser, 10, Digit[byte])
    <3>1. /\ parser'.header = parser.header /\ parser'.usesTE = parser.usesTE
          /\ parser'.flags = parser.flags
      BY <2>3 DEF Fold, Record
    <3>2. QED
      BY <1>3, <2>1, <3>1 DEF CodingMove, Coding, HasChunks, Numeric
  <2>4. QED
    BY <1>2, <1>6, <2>2, <2>3 DEF ContentLength
<1>7. QED
  BY <1>4, <1>5, <1>6

-----------------------------------------------------------------------------
(* Bodies and chunks.                                                      *)

SameFields ==
  SameKind /\ SameHeader /\ parser'.flags = parser.flags /\ parser'.usesTE = parser.usesTE

BodyMove ==
  /\ SameFields
  /\ \/ /\ parser.state = "headers_done" /\ Took("body_identity") /\ ~HasChunks
        /\ pos' = pos /\ parser'.length = parser.length /\ ~parser.usesTE
        /\ parser.length # MaxLength
     \/ parser.state = "headers_done" /\ Took("body_identity_eof") /\ pos' = pos
     \/ /\ parser.state = "body_identity" /\ Took("body_identity")
        /\ pos' = pos + parser.length - parser'.length - 1
     \/ /\ parser.state = "body_identity" /\ Left("message_done")
        /\ pos' = pos + parser.length - 1
     \/ parser.state = "body_identity_eof" /\ Took("body_identity_eof") /\ pos' = recved
     \/ /\ parser.state = "headers_almost_done" /\ byte = "LF" /\ Trailing
        /\ Left("message_done") /\ pos' = pos

SizeMove ==
  /\ pos' = pos /\ SameFields
  /\ \/ /\ parser.state = "headers_done" /\ HasChunks /\ Took("chunk_size_start")
     \/ /\ parser.state = "chunk_size_start" /\ Took("chunk_size")
        /\ byte \in DOMAIN HexDigit /\ value' = HexDigit[byte]
     \/ /\ parser.state = "chunk_size" /\ Took("chunk_size")
        /\ byte \in DOMAIN HexDigit /\ value' = value * 16 + HexDigit[byte]
     \/ /\ parser.state = "chunk_size" /\ value' = value
        /\ \/ byte = "CR" /\ Took("chunk_size_almost_done")
           \/ byte \in {"SEMI", "SP"} /\ Took("chunk_parameters")
     \/ /\ parser.state = "chunk_parameters" /\ value' = value
        /\ \/ byte = "CR" /\ Took("chunk_size_almost_done")
           \/ byte # "CR" /\ Took("chunk_parameters")

ChunkMove ==
  /\ SameFields
  /\ \/ /\ parser.state = "chunk_size_almost_done" /\ byte = "LF" /\ parser.length # 0
        /\ Took("chunk_data") /\ parser'.length = parser.length /\ pos' = pos
     \/ /\ parser.state = "chunk_data" /\ Took("chunk_data")
        /\ pos' = pos + parser.length - parser'.length - 1
     \/ /\ parser.state = "chunk_data" /\ Took("chunk_data_almost_done")
        /\ pos' = pos + parser.length - 1
     \/ /\ parser.state = "chunk_data_almost_done" /\ byte = "CR" /\ Took("chunk_data_done")
        /\ pos' = pos
     \/ /\ parser.state = "chunk_data_done" /\ byte = "LF" /\ Took("chunk_size_start")
        /\ pos' = pos

\* The chunk of no bytes is followed by headers.
TrailerMove ==
  /\ SameKind /\ SameHeader /\ pos' = pos
  /\ parser.state = "chunk_size_almost_done" /\ byte = "LF" /\ parser.length = 0
  /\ Took("header_field_start") /\ Trailing'

\* The message is complete.
EndMove ==
  /\ pos' = pos /\ phase' = "idle"
  /\ \/ parser.state = "headers_done" /\ Bodyless(parser)
     \/ parser.state = "message_done"

LEMMA AtSameLength ==
  ASSUME parser \in Record, NEW state \in States, parser' = At(state)
  PROVE  SameFields /\ parser'.length = parser.length /\ parser'.state = state
BY DEF At, Record, SameFields, SameKind, SameResponse, SameHeader

LEMMA ReadSame ==
  ASSUME parser \in Record, NEW state \in States, NEW k,
         parser' = [Read(k) EXCEPT !.state = state]
  PROVE  SameFields /\ parser'.state = state /\ parser'.length = parser.length - k
BY DEF Read, Record, SameFields, SameKind, SameResponse, SameHeader

\* A part of the body, or of a chunk; and all that is left of it.
LEMMA PartMoves ==
  ASSUME parser \in Record, pos \in Nat, parser.state \in {"body_identity", "chunk_data"},
         NEW k \in 1..(MaxLength - 1), BodyPart(k), pos' = pos + Bulk
  PROVE  /\ SameFields /\ Took(parser.state)
         /\ pos' = pos + parser.length - parser'.length - 1
<1>1. parser' = Read(k) /\ byte' = NoByte
  BY DEF BodyPart, PartOf
<1>2. SameFields /\ parser'.state = parser.state /\ parser'.length = parser.length - k
  BY <1>1 DEF Read, Record, SameFields, SameKind, SameResponse, SameHeader
<1>3. parser.length \in Int /\ parser'.length \in Int
  <2>1. k \in Int /\ parser.length \in Int
    BY DEF Record
  <2>2. QED
    BY <1>2, <2>1
<1>4. pos' = pos + (parser.length - parser'.length - 1)
  BY DEF Bulk
<1>5. pos' = pos + parser.length - parser'.length - 1
  BY <1>3, <1>4
<1>6. QED
  BY <1>1, <1>2, <1>5 DEF Took

LEMMA RestMoves ==
  ASSUME parser \in Record, pos \in Nat, parser.state \in {"body_identity", "chunk_data"},
         NEW state \in States, parser' = [Read(parser.length) EXCEPT !.state = state],
         pos' = pos + Bulk
  PROVE  SameFields /\ parser'.state = state /\ pos' = pos + parser.length - 1
<1>1. parser.length \in Int /\ parser.length - parser.length = 0
  BY DEF Record
<1>2. SameFields /\ parser'.state = state /\ parser'.length = 0
  BY <1>1, ReadSame
<1>3. pos' = pos + (parser.length - 0 - 1)
  BY <1>2 DEF Bulk
<1>4. pos' = pos + parser.length - 1
  BY <1>1, <1>3
<1>5. QED
  BY <1>2, <1>4

LEMMA BodyMoves ==
  ASSUME parser \in Record, parser.type = "response", pos \in Nat, recved \in Nat,
         \/ HeadersDone \/ BodyIdentity \/ BodyIdentityEof \/ MessageDone
         \/ HeadersAlmostDone /\ Trailing
         \/ \E k \in 1..(MaxLength - 1) : BodyPart(k) /\ parser.state = "body_identity",
         pos' = pos + Bulk, parser'.errno = "OK"
  PROVE  BodyMove \/ SizeMove \/ EndMove
<1> USE DEF BodyMove, Took, Left
<1>1. /\ "body_identity" \in States /\ "body_identity_eof" \in States
      /\ "message_done" \in States /\ "chunk_size_start" \in States
  BY DEF States, BodyState, HeadState
<1>2. parser.state \notin {"body_identity", "chunk_data", "body_identity_eof"} => pos' = pos
  BY DEF Bulk
<1>3. CASE HeadersDone
  <2>1. parser.state = "headers_done" /\ pos' = pos
    BY <1>2, <1>3 DEF HeadersDone, In
  <2>2. ~Unreadable(parser)
    BY DEF Unreadable
  <2>3. CASE Bodyless(parser) /\ Completes
    BY <2>1, <2>3 DEF EndMove, Completes
  <2>4. CASE ~Bodyless(parser) /\ parser' = At(BodyStart(parser)) /\ byte' = NoByte
    <3>1. CASE HasChunks
      <4>1. BodyStart(parser) = "chunk_size_start"
        BY <3>1 DEF BodyStart, HasChunks
      <4>2. QED
        BY <1>1, <2>1, <2>4, <3>1, <4>1, AtSameLength DEF SizeMove
    <3>2. CASE ~HasChunks /\ ~parser.usesTE /\ parser.length # MaxLength
      <4>1. BodyStart(parser) = "body_identity"
        BY <3>2 DEF BodyStart, HasChunks
      <4>2. QED
        BY <1>1, <2>1, <2>4, <3>2, <4>1, AtSameLength
    <3>3. CASE ~HasChunks /\ ~(~parser.usesTE /\ parser.length # MaxLength)
      <4>1. BodyStart(parser) = "body_identity_eof"
        BY <3>3 DEF BodyStart, HasChunks
      <4>2. QED
        BY <1>1, <2>1, <2>4, <4>1, AtSameLength
    <3>4. QED
      BY <3>1, <3>2, <3>3
  <2>5. QED
    BY <1>3, <2>2, <2>3, <2>4 DEF HeadersDone
<1>4. CASE \E k \in 1..(MaxLength - 1) : BodyPart(k) /\ parser.state = "body_identity"
  BY <1>4, PartMoves
<1>5. CASE BodyIdentity
  <2>1. /\ parser.state = "body_identity" /\ byte' = byte
        /\ parser' = [Read(parser.length) EXCEPT !.state = "message_done"]
    BY <1>5 DEF BodyIdentity, In, Step
  <2>2. QED
    BY <1>1, <2>1, RestMoves
<1>6. CASE BodyIdentityEof
  <2>1. parser.state = "body_identity_eof" /\ byte' = NoByte /\ parser' = parser
    BY <1>6 DEF BodyIdentityEof, In
  <2>2. pos' = pos + (recved - pos)
    BY <2>1 DEF Bulk
  <2>3. pos' = recved
    BY <2>2
  <2>4. QED
    BY <2>1, <2>3 DEF SameFields, SameKind, SameResponse, SameHeader
<1>7. CASE MessageDone
  BY <1>2, <1>7 DEF MessageDone, In, Completes, EndMove
<1>8. CASE HeadersAlmostDone /\ Trailing
  <2>1. parser.state = "headers_almost_done" /\ pos' = pos /\ "trailing" \in parser.flags
    BY <1>2, <1>8 DEF HeadersAlmostDone, In, Trailing
  <2>2. ~Fails(parser, "STRICT") /\ ~Fails(parser, "UNEXPECTED_CONTENT_LENGTH")
    BY FailedStep
  <2>3. parser' = At("message_done") /\ byte' = byte /\ byte = "LF"
    BY <1>8, <2>1, <2>2 DEF HeadersAlmostDone, Again, Step
  <2>4. QED
    BY <1>1, <1>8, <2>1, <2>3, AtSameLength
<1>9. QED
  BY <1>3, <1>4, <1>5, <1>6, <1>7, <1>8

LEMMA ChunkMoves ==
  ASSUME parser \in Record, pos \in Nat,
         \/ ChunkSizeStart \/ ChunkSize \/ ChunkParameters \/ ChunkSizeAlmostDone
         \/ ChunkData \/ ChunkDataAlmostDone \/ ChunkDataDone
         \/ \E k \in 1..(MaxLength - 1) : BodyPart(k) /\ parser.state = "chunk_data",
         pos' = pos + Bulk, parser'.errno = "OK"
  PROVE  SizeMove \/ ChunkMove \/ TrailerMove
<1> USE DEF Took, Step, Takes, history
<1>1. /\ "chunk_size_start" \in States /\ "chunk_size" \in States
      /\ "chunk_size_almost_done" \in States /\ "chunk_parameters" \in States
      /\ "chunk_data" \in States /\ "chunk_data_almost_done" \in States
      /\ "chunk_data_done" \in States /\ "header_field_start" \in States
  BY DEF States, BodyState, HeadState
<1>2. parser.state \notin {"body_identity", "chunk_data", "body_identity_eof"} => pos' = pos
  BY DEF Bulk
<1>3. /\ ~Fails(parser, "INVALID_CHUNK_SIZE") /\ ~Fails(parser, "STRICT")
      /\ ~Fails(parser, "INVALID_CONTENT_LENGTH")
  BY FailedStep
<1>4. ASSUME parser' = parser PROVE SameFields
  BY <1>4 DEF SameFields, SameKind, SameResponse, SameHeader
<1>5. CASE ChunkSizeStart
  <2>1. /\ parser.state = "chunk_size_start" /\ pos' = pos
        /\ byte \in DOMAIN HexDigit /\ byte' = NoByte /\ value' = HexDigit[byte]
        /\ parser' = [At("chunk_size") EXCEPT !.length = HexDigit[byte]]
    BY <1>2, <1>3, <1>5 DEF ChunkSizeStart, In
  <2>2. SameFields /\ parser'.state = "chunk_size"
    BY <2>1 DEF At, Record, SameFields, SameKind, SameResponse, SameHeader
  <2>3. QED
    BY <2>1, <2>2 DEF SizeMove
<1>6. CASE ChunkSize
  <2>1. parser.state = "chunk_size" /\ pos' = pos
    BY <1>2, <1>6 DEF ChunkSize, In
  <2>2. CASE /\ byte \in DOMAIN HexDigit /\ byte' = NoByte
             /\ parser' = Fold(parser, 16, HexDigit[byte])
             /\ value' = value * 16 + HexDigit[byte]
    <3>1. SameFields /\ parser'.state = "chunk_size"
      BY <2>1, <2>2 DEF Fold, Record, SameFields, SameKind, SameResponse, SameHeader
    <3>2. QED
      BY <2>1, <2>2, <3>1 DEF SizeMove
  <2>3. CASE byte = "CR" /\ Takes(At("chunk_size_almost_done"), marks)
    BY <1>1, <2>1, <2>3, AtSameLength DEF SizeMove
  <2>4. CASE byte \in {"SEMI", "SP"} /\ Takes(At("chunk_parameters"), marks)
    BY <1>1, <2>1, <2>4, AtSameLength DEF SizeMove
  <2>5. QED
    BY <1>3, <1>6, <2>2, <2>3, <2>4 DEF ChunkSize
<1>7. CASE ChunkParameters
  <2>1. parser.state = "chunk_parameters" /\ pos' = pos /\ byte' = NoByte /\ value' = value
        /\ parser' = IF byte = "CR" THEN At("chunk_size_almost_done") ELSE parser
    BY <1>2, <1>7 DEF ChunkParameters, In
  <2>2. CASE byte = "CR"
    BY <1>1, <2>1, <2>2, AtSameLength DEF SizeMove
  <2>3. CASE byte # "CR"
    BY <1>4, <2>1, <2>3 DEF SizeMove
  <2>4. QED
    BY <2>2, <2>3
<1>8. CASE ChunkSizeAlmostDone
  <2>1. /\ parser.state = "chunk_size_almost_done" /\ pos' = pos
        /\ byte = "LF" /\ byte' = NoByte
        /\ parser' = IF parser.length = 0
                     THEN [At("header_field_start") EXCEPT !.flags = @ \cup {"trailing"}]
                     ELSE At("chunk_data")
    BY <1>2, <1>3, <1>8 DEF ChunkSizeAlmostDone, In
  <2>2. CASE parser.length = 0
    <3>1. /\ SameKind /\ SameHeader /\ parser'.state = "header_field_start"
          /\ parser'.flags = parser.flags \cup {"trailing"}
      BY <2>1, <2>2 DEF At, Record, SameKind, SameResponse, SameHeader
    <3>2. QED
      BY <2>1, <2>2, <3>1 DEF TrailerMove, Trailing
  <2>3. CASE parser.length # 0
    BY <1>1, <2>1, <2>3, AtSameLength DEF ChunkMove
  <2>4. QED
    BY <2>2, <2>3
<1>9. CASE ChunkData
  <2>1. /\ parser.state = "chunk_data" /\ byte' = NoByte
        /\ parser' = [Read(parser.length) EXCEPT !.state = "chunk_data_almost_done"]
    BY <1>9 DEF ChunkData, In
  <2>2. QED
    BY <1>1, <2>1, RestMoves DEF ChunkMove
<1>10. CASE ChunkDataAlmostDone
  <2>1. /\ parser.state = "chunk_data_almost_done" /\ pos' = pos
        /\ byte = "CR" /\ byte' = NoByte /\ parser' = At("chunk_data_done")
    BY <1>2, <1>3, <1>10 DEF ChunkDataAlmostDone, In
  <2>2. QED
    BY <1>1, <2>1, AtSameLength DEF ChunkMove
<1>11. CASE ChunkDataDone
  <2>1. /\ parser.state = "chunk_data_done" /\ pos' = pos
        /\ byte = "LF" /\ byte' = NoByte /\ parser' = At("chunk_size_start")
    BY <1>2, <1>3, <1>11 DEF ChunkDataDone, In
  <2>2. QED
    BY <1>1, <2>1, AtSameLength DEF ChunkMove
<1>12. CASE \E k \in 1..(MaxLength - 1) : BodyPart(k) /\ parser.state = "chunk_data"
  BY <1>12, PartMoves DEF ChunkMove
<1>13. QED
  BY <1>5, <1>6, <1>7, <1>8, <1>9, <1>10, <1>11, <1>12

\* What a step of the parser does while the first message is not complete.
LEMMA FirstMoves ==
  ASSUME IInv, Placed, KindSeen, StartLineNext \/ HeaderNext \/ BodyNext, AsSent,
         pos' = pos + Bulk, parser'.errno = "OK"
  PROVE  \/ HeadMove /\ pos' = pos /\ (parser.state = "start_res" \/ CodingMove)
         \/ BodyMove \/ SizeMove \/ ChunkMove \/ TrailerMove \/ EndMove
<1>1. /\ parser \in Record /\ pos \in Nat /\ recved \in Nat
      /\ parser.header \in HeaderState /\ stream \in Responses
  BY DEF IInv, Typed, Record, Placed
<1>2. parser.state \in FirstState /\ parser.type = "response"
  BY DEF KindSeen
<1>3. parser.state \notin {"body_identity", "chunk_data", "body_identity_eof"} => pos' = pos
  BY <1>1 DEF Bulk
<1>4. CASE StartLineNext
  <2>1. \/ parser.state = "start_res" /\ (StartRes \/ BlankLine \/ Dead)
        \/ ResLine \/ ResStatus \/ LineAlmostDone
    BY <1>2, <1>4 DEF StartLineNext, StartRes, BlankLine, Dead, ResLine, ResStatus, StartReq,
         ReqMethod, ReqSpaces, ReqUrl, ReqHttp, LineAlmostDone, In,
         FirstState, HeadPart, FieldState, DiscardState, ValueState, ChunkState
  <2>2. parser.state \notin {"body_identity", "chunk_data", "body_identity_eof"}
    BY <2>1 DEF ResLine, ResStatus, LineAlmostDone, In
  <2>3. QED
    BY <1>1, <1>3, <2>1, <2>2, StartMoves, LineMoves, LineCodings DEF HeadMove
<1>5. CASE HeaderNext
  <2>1. CASE HeadersDone \/ (HeadersAlmostDone /\ Trailing)
    BY <1>1, <1>2, <2>1, BodyMoves
  <2>2. CASE ~HeadersDone /\ ~(HeadersAlmostDone /\ Trailing)
    <3>1. \/ HeaderFieldStart \/ HeaderField \/ (HeadersAlmostDone /\ ~Trailing)
          \/ DiscardWs \/ DiscardWsAlmostDone \/ DiscardLws
          \/ HeaderValueStart \/ HeaderValue \/ ContentLength
          \/ HeaderValueEnds \/ HeaderAlmostDone \/ HeaderValueLws
      BY <1>5, <2>2 DEF HeaderNext
    <3>2. parser.state \notin {"body_identity", "chunk_data", "body_identity_eof"}
      BY <3>1 DEF HeaderFieldStart, HeaderField, DiscardWs, DiscardWsAlmostDone,
           DiscardLws, HeaderValueStart, HeaderValue, ContentLength, HeaderValueEnds,
           HeaderAlmostDone, HeaderValueLws, HeadersAlmostDone, In
    <3>3. pos' = pos
      BY <1>3, <3>2
    <3>4. parser.state = "header_value" => parser.header # "content_length"
      <4>1. parser.errno = "OK"
        BY <3>1 DEF HeaderFieldStart, HeaderField, DiscardWs, DiscardWsAlmostDone,
           DiscardLws, HeaderValueStart, HeaderValue, ContentLength, HeaderValueEnds,
           HeaderAlmostDone, HeaderValueLws, HeadersAlmostDone, In, IInv, CallFits
      <4>2. QED
        BY <4>1 DEF IInv, Running, HeaderFits, Name
    <3>5. HeadMove
      BY <1>1, <3>1, <3>4, FieldMoves, BlanksMoves, ValueMoves, LineEndMoves DEF HeadMove
    <3>6. CodingMove
      BY <1>1, <2>2, <3>1, <3>4, FieldCodings, BlanksCodings, ValueCodings, LineEndCodings
    <3>7. QED
      BY <3>3, <3>5, <3>6
  <2>3. QED
    BY <2>1, <2>2
<1>6. CASE BodyNext
  <2>1. \/ BodyIdentity \/ BodyIdentityEof \/ MessageDone
        \/ \E k \in 1..(MaxLength - 1) : BodyPart(k) /\ parser.state = "body_identity"
        \/ ChunkSizeStart \/ ChunkSize \/ ChunkParameters \/ ChunkSizeAlmostDone
        \/ ChunkData \/ ChunkDataAlmostDone \/ ChunkDataDone
        \/ \E k \in 1..(MaxLength - 1) : BodyPart(k) /\ parser.state = "chunk_data"
    BY <1>6 DEF BodyNext, BodyPart, In
  <2>2. QED
    BY <1>1, <1>2, <2>1, BodyMoves, ChunkMoves
<1>7. QED
  BY <1>4, <1>5, <1>6

-----------------------------------------------------------------------------
(* What is known of the head is kept while the parser goes on in it.        *)

LEMMA BytesApart ==
  /\ Token \cap (Ends \cup Blank \cup {"COLON", "bad", NoByte}) = {}
  /\ DOMAIN Digit \subseteq Token /\ DOMAIN HexDigit \subseteq Token
  /\ Ends \cap (Blank \cup {"COLON", "bad", NoByte}) = {}
  /\ Blank \cap {"COLON", "bad", NoByte} = {}
BY ByteAssumption, DigitAssumption DEF Token, Ends, Blank, NoByte

LEMMA HeadMoveStates ==
  ASSUME HeadMove
  PROVE  /\ parser.state \in HeadPart \cup {"start_res"}
         /\ parser'.state \in HeadPart \cup {"start_res"}
         /\ parser'.state = "start_res" => parser.state = "start_res"
         /\ byte' \in {byte, NoByte}
         /\ parser'.state \in HeadPart =>
              (Trailing' <=> parser.state # "start_res" /\ Trailing)
<1>1. CASE StartMove
  BY <1>1 DEF StartMove, HeadPart, FieldState, DiscardState, ValueState, Took, Left, Trailing
<1>2. CASE LineMove \/ NamesMove \/ BlanksMove \/ ValueMove \/ LineEndMove
  BY <1>2 DEF LineMove, NamesMove, BlanksMove, ValueMove, LineEndMove, SameLength,
   HeadPart, FieldState, DiscardState, ValueState, Took, Left
<1>3. QED
  BY <1>1, <1>2 DEF HeadMove

LEMMA KindKept ==
  ASSUME KindSeen, UNCHANGED stream,
         HeadMove \/ BodyMove \/ SizeMove \/ ChunkMove \/ TrailerMove
  PROVE  KindSeen'
<1> USE DEF SameKind, SameResponse, Took, Left, FirstState, HeadPart, FieldState, DiscardState,
            ValueState, ChunkState
<1>1. CASE StartMove
  BY <1>1 DEF StartMove, KindSeen
<1>2. CASE LineMove
  BY <1>2 DEF LineMove, KindSeen
<1>3. CASE NamesMove
  BY <1>3 DEF NamesMove, KindSeen
<1>4. CASE BlanksMove
  BY <1>4 DEF BlanksMove, KindSeen
<1>5. CASE ValueMove
  BY <1>5 DEF ValueMove, KindSeen
<1>6. CASE LineEndMove
  BY <1>6 DEF LineEndMove, KindSeen
<1>7. CASE BodyMove
  BY <1>7 DEF BodyMove, SameFields, KindSeen
<1>8. CASE SizeMove
  BY <1>8 DEF SizeMove, SameFields, KindSeen
<1>9. CASE ChunkMove
  BY <1>9 DEF ChunkMove, SameFields, KindSeen
<1>10. CASE TrailerMove
  BY <1>10 DEF TrailerMove, KindSeen
<1>11. QED
  BY <1>1, <1>2, <1>3, <1>4, <1>5, <1>6, <1>7, <1>8, <1>9, <1>10 DEF HeadMove

\* The parser looks at a byte of the stream, and passes it or leaves it.
Reads ==
  /\ DOMAIN Text = 1..Len(Text) /\ Len(Text) \in Nat
  /\ pos \in 1..Len(Text) /\ pos' = pos /\ UNCHANGED stream
  /\ byte # NoByte /\ byte = Text[pos]

LEMMA PassedMoves ==
  ASSUME Reads, HeadMove
  PROVE  /\ Passed = pos - 1 /\ Passed \in Nat /\ Text' = Text
         /\ byte' = NoByte => Passed' = pos
         /\ byte' # NoByte => byte' = byte /\ Passed' = Passed
<1>1. byte' \in {byte, NoByte}
  BY HeadMoveStates
<1>2. QED
  BY <1>1 DEF Reads, Passed, Text

LEMMA LooksKept ==
  ASSUME Looks, Reads, HeadMove
  PROVE  Looks'
<1>1. /\ Passed = pos - 1 /\ Passed \in Nat /\ Text' = Text
      /\ byte' = NoByte => Passed' = pos
      /\ byte' # NoByte => byte' = byte /\ Passed' = Passed
  BY PassedMoves
<1>2. /\ parser.state \in HeadPart \cup {"start_res"}
      /\ parser'.state \in HeadPart \cup {"start_res"}
      /\ parser'.state = "start_res" => parser.state = "start_res"
  BY HeadMoveStates
<1>3. byte' # NoByte => pos' > 0 /\ byte' = Text'[pos']
  BY <1>1 DEF Reads
<1>4. parser'.state = "start_res" => \A s \in 1..Passed' : Text'[s] \in Ends
  <2>1. parser'.state = "start_res" => byte \in Ends /\ parser.state = "start_res"
    BY <1>2 DEF HeadMove, StartMove, LineMove, NamesMove, BlanksMove, ValueMove, LineEndMove,
         Took, Left
  <2>2. QED
    BY <1>1, <2>1 DEF Looks, Reads
<1>5. parser'.state \in HeadPart => \E s \in 1..Passed' : Text'[s] \notin Ends
  <2>1. CASE parser.state \in HeadPart
    <3>1. PICK s \in 1..Passed : Text[s] \notin Ends
      BY <2>1 DEF Looks
    <3>2. Passed' \in Nat /\ Passed <= Passed'
      BY <1>1 DEF Reads
    <3>3. s \in 1..Passed' /\ Text'[s] \notin Ends
      BY <1>1, <3>1, <3>2
    <3>4. QED
      BY <3>3
  <2>2. CASE parser.state = "start_res" /\ parser'.state \in HeadPart
    <3>1. byte \notin Ends /\ byte' = NoByte
      BY <2>2 DEF HeadMove, StartMove, LineMove, NamesMove, BlanksMove, ValueMove, LineEndMove,
         Took, Left, HeadPart, FieldState, DiscardState, ValueState
    <3>2. pos \in 1..Passed' /\ Text'[pos] \notin Ends
      BY <1>1, <3>1 DEF Reads
    <3>3. QED
      BY <3>2
  <2>3. QED
    BY <1>2, <2>1, <2>2
<1>6. /\ parser'.state = "headers_done" => byte' = "LF"
      /\ parser'.state = "header_value_start" => byte' = byte /\ byte \notin Ends
  BY BytesApart DEF HeadMove, StartMove, LineMove, NamesMove, BlanksMove, ValueMove, LineEndMove,
         Took, Left
<1>7. parser'.state # "message_done"
  BY <1>2 DEF HeadPart, FieldState, DiscardState, ValueState
<1>8. "LF" # NoByte
  BY DEF NoByte
<1>9. QED
  BY <1>3, <1>4, <1>5, <1>6, <1>7, <1>8 DEF Looks, Reads

\* What taking a byte, or leaving it, means for the line it is in.
LEMMA LinesKept ==
  ASSUME Looks, LinesSeen, Reads, HeadMove, parser'.state \in HeadPart
  PROVE  LinesSeen'
<1> DEFINE before == parser.state
           after == parser'.state
<1>1. /\ Passed = pos - 1 /\ Passed \in Nat /\ Text' = Text
      /\ byte' = NoByte => Passed' = pos
      /\ byte' # NoByte => byte' = byte /\ Passed' = Passed
      /\ byte = Text[pos] /\ pos \in Nat
  BY PassedMoves DEF Reads
<1>2. /\ before \in HeadPart \cup {"start_res"} /\ byte' \in {byte, NoByte} /\ byte # NoByte
      /\ Trailing' <=> before # "start_res" /\ Trailing
  BY HeadMoveStates DEF Reads
<1>3. CASE before = "start_res"
  <2>1. byte \notin Ends /\ after = "res_line" /\ byte' = NoByte
    BY <1>3 DEF HeadMove, StartMove, LineMove, NamesMove, BlanksMove, ValueMove, LineEndMove,
       Took, Left, HeadPart, FieldState, DiscardState, ValueState
  <2>2. Passed' = pos /\ Text[pos] \notin Ends
    BY <1>1, <2>1
  <2>3. \A s \in 1..(pos - 1) : Text[s] \in Ends
    BY <1>1, <1>3 DEF Looks
  <2>4. \A e \in HeadEnds(Text) : e > pos
    <3>1. SUFFICES ASSUME NEW e \in HeadEnds(Text), ~(e > pos) PROVE FALSE
      OBVIOUS
    <3>2. e \in Nat
      BY DEF HeadEnds, Reads
    <3>3. PICK s \in 1..(e - 1) : Text[s] \notin Ends
      BY <3>2 DEF HeadEnds, LineStart
    <3>4. s \in 1..(pos - 1)
      BY <1>1, <3>1, <3>2
    <3>5. QED
      BY <2>3, <3>3, <3>4
  <2>5. QED
    BY <1>1, <1>2, <1>3, <2>1, <2>2, <2>4 DEF LinesSeen, NewLine, EmptyLine, Ends
<1>4. CASE before \in HeadPart
  <2>1. /\ before \in NewLine => Text[Passed] = "LF"
        /\ Text[Passed] = "LF" =>
             \/ before \in NewLine
             \/ before \in EmptyLine /\ byte = "LF"
             \/ before = "header_value_start" /\ byte \in Blank
        /\ Text[Passed] = "CR" /\ LineStart(Text, Passed) => before \in EmptyLine
        /\ before \in EmptyLine =>
             \/ Text[Passed] = "CR" /\ LineStart(Text, Passed)
             \/ Text[Passed] = "LF" /\ byte = "LF"
    BY <1>4 DEF LinesSeen
  <2>2. byte' = NoByte /\ byte = "LF" =>
          /\ before \notin NewLine \cup EmptyLine \cup {"header_value_start"}
          /\ after \in NewLine
    BY <1>4, BytesApart DEF Looks, HeadMove, StartMove, LineMove, NamesMove, BlanksMove,
       ValueMove, LineEndMove, Took, Left, HeadPart, FieldState, DiscardState, ValueState,
       NewLine, EmptyLine, Ends
  <2>3. \A e \in HeadEnds(Text) : e \in Nat /\ (e > Passed => e > Passed')
    <3>1. CASE byte' = NoByte
      <4>1. pos \notin HeadEnds(Text)
        <5>1. CASE byte = "LF"
          <6>1. Text[Passed] # "LF" /\ ~(Text[Passed] = "CR" /\ LineStart(Text, Passed))
            BY <2>1, <2>2, <3>1, <5>1
          <6>2. QED
            BY <1>1, <6>1 DEF HeadEnds, LineStart
        <5>2. CASE byte # "LF"
          BY <1>1, <5>2 DEF HeadEnds
        <5>3. QED
          BY <5>1, <5>2
      <4>2. \A e \in HeadEnds(Text) : e \in Nat /\ e # pos
        BY <1>1, <4>1 DEF HeadEnds, Reads
      <4>3. QED
        BY <1>1, <3>1, <4>2
    <3>2. CASE byte' # NoByte
      BY <1>1, <3>2 DEF HeadEnds, Reads
    <3>3. QED
      BY <3>1, <3>2
  <2>4. after \in NewLine => Text[Passed'] = "LF"
    <3>1. after \in NewLine =>
            \/ byte' = NoByte /\ byte = "LF"
            \/ byte' # NoByte /\ before \in NewLine
      BY <1>2 DEF HeadMove, StartMove, LineMove, NamesMove, BlanksMove,
         ValueMove, LineEndMove, Took, Left, NewLine
    <3>2. QED
      BY <1>1, <2>1, <3>1
  <2>5. Text[Passed'] = "LF" =>
          \/ after \in NewLine
          \/ after \in EmptyLine /\ byte' = "LF"
          \/ after = "header_value_start" /\ byte' \in Blank
    <3>1. CASE byte' = NoByte
      BY <1>1, <2>2, <3>1
    <3>2. CASE byte' # NoByte
      <4>1. before \in NewLine =>
              \/ after \in NewLine
              \/ after \in EmptyLine /\ byte = "LF"
              \/ after = "header_value_start" /\ byte \in Blank
        BY <3>2 DEF HeadMove, StartMove, LineMove, NamesMove, BlanksMove,
           ValueMove, LineEndMove, Took, Left, NewLine, EmptyLine
      <4>2. before \in EmptyLine => after \in EmptyLine
        BY <3>2 DEF HeadMove, StartMove, LineMove, NamesMove, BlanksMove,
           ValueMove, LineEndMove, Took, Left, EmptyLine
      <4>3. before # "header_value_start"
        BY <3>2 DEF HeadMove, StartMove, LineMove, NamesMove, BlanksMove,
           ValueMove, LineEndMove, Took, Left
      <4>4. QED
        BY <1>1, <2>1, <3>2, <4>1, <4>2, <4>3
    <3>3. QED
      BY <3>1, <3>2
  <2>6. Text[Passed'] = "CR" /\ LineStart(Text, Passed') => after \in EmptyLine
    <3>1. CASE byte' = NoByte
      <4>1. SUFFICES ASSUME byte = "CR", LineStart(Text, pos) PROVE after \in EmptyLine
        BY <1>1, <3>1
      <4>2. Text[Passed] = "LF"
        BY <1>1, <4>1 DEF LineStart
      <4>3. before \in NewLine
        BY <2>1, <4>1, <4>2, BytesApart DEF Ends
      <4>4. QED
        BY <3>1, <4>1, <4>3, BytesApart DEF HeadMove, StartMove, LineMove, NamesMove,
           BlanksMove, ValueMove, LineEndMove, Took, Left, NewLine, EmptyLine, Ends
    <3>2. CASE byte' # NoByte
      <4>1. before \in EmptyLine => after \in EmptyLine
        BY <3>2 DEF HeadMove, StartMove, LineMove, NamesMove, BlanksMove,
           ValueMove, LineEndMove, Took, Left, EmptyLine
      <4>2. QED
        BY <1>1, <2>1, <3>2, <4>1
    <3>3. QED
      BY <3>1, <3>2
  <2>7. after \in EmptyLine =>
          \/ Text[Passed'] = "CR" /\ LineStart(Text, Passed')
          \/ Text[Passed'] = "LF" /\ byte' = "LF"
    <3>1. after \in EmptyLine =>
            \/ before = "header_field_start" /\ byte = "CR" /\ byte' = NoByte
            \/ before = "header_field_start" /\ byte = "LF" /\ byte' = byte
            \/ before \in EmptyLine /\ byte = "LF" /\ byte' = byte
      BY <1>2, <1>4 DEF HeadMove, StartMove, LineMove, NamesMove, BlanksMove,
         ValueMove, LineEndMove, Took, Left, HeadPart, FieldState, DiscardState, ValueState,
         EmptyLine
    <3>2. before = "header_field_start" => Text[Passed] = "LF" /\ LineStart(Text, pos)
      <4>1. SUFFICES ASSUME before = "header_field_start"
                     PROVE  Text[Passed] = "LF" /\ LineStart(Text, pos)
        OBVIOUS
      <4>2. Text[Passed] = "LF"
        BY <2>1, <4>1 DEF NewLine
      <4>3. PICK s \in 1..Passed : Text[s] \notin Ends
        BY <1>4 DEF Looks
      <4>4. pos > 1 /\ s \in 1..(pos - 1)
        BY <1>1, <4>3
      <4>5. QED
        BY <1>1, <4>2, <4>3, <4>4 DEF LineStart
    <3>3. QED
      BY <1>1, <1>2, <2>1, <3>1, <3>2
  <2>8. before # "start_res"
    BY <1>4 DEF HeadPart, FieldState, DiscardState, ValueState
  <2>9. ~Trailing' => \A e \in HeadEnds(Text) : e > Passed'
    BY <1>2, <1>4, <2>3, <2>8 DEF LinesSeen
  <2>10. Trailing' =>
           \E l \in 1..Passed' :
             LastLine(l)' /\ \A e \in HeadEnds(Text) : l < e => e > Passed'
    <3>1. SUFFICES ASSUME Trailing'
                   PROVE  \E l \in 1..Passed' :
                            LastLine(l)' /\ \A e \in HeadEnds(Text) : l < e => e > Passed'
      OBVIOUS
    <3>2. PICK l \in 1..Passed : LastLine(l) /\ \A e \in HeadEnds(Text) : l < e => e > Passed
      BY <1>2, <1>4, <2>8, <3>1 DEF LinesSeen
    <3>3. l \in 1..Passed' /\ LastLine(l)'
      BY <1>1, <3>2 DEF LastLine, Reads
    <3>4. QED
      BY <2>3, <3>2, <3>3
  <2>11. QED
    BY <1>1, <2>4, <2>5, <2>6, <2>7, <2>9, <2>10 DEF LinesSeen
<1>5. QED
  BY <1>2, <1>3, <1>4

\* The head stays one, after its first byte.
LEMMA HeadersGoOn ==
  ASSUME HeadMove, InHeaders'
  PROVE  parser.state = "start_res" \/ InHeaders
BY HeadMoveStates DEF InHeaders

\* The colon of a length, or a coding, comes after a name, which begins a line.
LEMMA NamesOf ==
  ASSUME stream \in Responses, Reads,
         NEW c \in HeadLengths(stream) \cup HeadCodings(stream)
  PROVE  /\ c \in 1..Len(Text) /\ Text[c] = "COLON" /\ InHead(stream, c)
         /\ \E l \in 1..(c - 1) : NameOf(l, c)
         /\ c \in HeadLengths(stream) =>
              c \in DOMAIN stream.names /\ stream.names[c] = "content_length"
         /\ c \in HeadCodings(stream) => c \in stream.codings
<1>1. /\ c \in NameEnds(Text) /\ InHead(stream, c)
      /\ c \in HeadLengths(stream) =>
           c \in DOMAIN stream.names /\ stream.names[c] = "content_length"
      /\ c \in HeadCodings(stream) => c \in stream.codings
  BY NamesAssumption DEF HeadLengths, HeadCodings, Text
<1>2. QED
  BY <1>1 DEF NameEnds, NameOf, Reads

\* The header whose colon is passed is known for what it is.
NameKnown(c) ==
  /\ c \in HeadLengths(stream) => parser.header = "content_length" \/ HasLength
  /\ c \in HeadCodings(stream) => parser.usesTE

\* A name is not passed in another state than header_field: it begins a line, and
\* has no byte that ends one.
LEMMA NamesKept ==
  ASSUME Looks, LinesSeen, NamesSeen, LengthSeen, Reads, HeadMove, stream \in Responses,
         parser.state = "start_res" \/ CodingMove, InHeaders'
  PROVE  NamesSeen'
<1> DEFINE before == parser.state
           after == parser'.state
           Ours == HeadLengths(stream) \cup HeadCodings(stream)
<1>1. /\ Passed = pos - 1 /\ Passed \in Nat /\ Text' = Text /\ stream' = stream
      /\ byte' = NoByte => Passed' = pos
      /\ byte' # NoByte => byte' = byte /\ Passed' = Passed
      /\ byte = Text[pos] /\ pos \in Nat
  BY PassedMoves DEF Reads
<1>2. before = "start_res" \/ InHeaders
  BY HeadersGoOn
<1>3. SUFFICES ASSUME NEW c \in Ours
               PROVE  /\ c <= Passed' => NameKnown(c)'
                      /\ c > Passed' =>
                           \A l \in 1..Passed' : NameOf(l, c) => after = "header_field"
  BY <1>1 DEF NamesSeen, NameOf, NameKnown
<1>4. /\ c \in Nat /\ Text[c] = "COLON"
      /\ \E l \in 1..(c - 1) : NameOf(l, c)
  BY NamesOf
<1>5. CASE byte' # NoByte
  <2>1. InHeaders /\ before # "start_res"
    BY <1>2, <1>5 DEF HeadMove, StartMove, LineMove, NamesMove, BlanksMove, ValueMove,
       LineEndMove, Took, Left
  <2>2. /\ c <= Passed => NameKnown(c)
        /\ c > Passed => \A l \in 1..Passed : NameOf(l, c) => before = "header_field"
        /\ parser.header = "content_length" =>
             before \in DiscardState \cup {"header_value_start"}
    BY <2>1 DEF NamesSeen, LengthSeen, NameKnown
  <2>3. before # "header_field"
    BY <1>5 DEF HeadMove, StartMove, LineMove, NamesMove, BlanksMove, ValueMove,
       LineEndMove, Took, Left
  <2>4. HasLength => HasLength'
    BY <1>5 DEF HeadMove, StartMove, LineMove, NamesMove, BlanksMove, ValueMove,
       LineEndMove, SameLength, Took, Left
  <2>5. parser.header = "content_length" => parser'.header = "content_length"
    BY <1>5, <2>1, <2>2 DEF HeadMove, StartMove, LineMove, NamesMove, BlanksMove, ValueMove,
       LineEndMove, SameHeader, Took, Left, DiscardState
  <2>6. parser.usesTE => parser'.usesTE
    BY <2>1 DEF CodingMove
  <2>7. NameKnown(c) => NameKnown(c)'
    BY <1>1, <2>4, <2>5, <2>6 DEF NameKnown
  <2>8. QED
    BY <1>1, <1>5, <2>2, <2>3, <2>7
<1>6. CASE byte' = NoByte /\ before = "start_res"
  <2>1. \A s \in 1..(pos - 1) : Text[s] \in Ends
    BY <1>1, <1>6 DEF Looks
  <2>2. \A l \in 1..pos : ~NameOf(l, c)
    <3>1. SUFFICES ASSUME NEW l \in 1..pos, NameOf(l, c) PROVE FALSE
      OBVIOUS
    <3>2. PICK s \in 1..(l - 1) : Text[s] \notin Ends
      BY <3>1 DEF NameOf, LineStart
    <3>3. s \in 1..(pos - 1)
      BY <1>1, <3>2
    <3>4. QED
      BY <2>1, <3>2, <3>3
  <2>3. ~(c <= pos)
    <3>1. PICK l \in 1..(c - 1) : NameOf(l, c)
      BY <1>4
    <3>2. l \notin 1..pos
      BY <2>2, <3>1
    <3>3. QED
      BY <1>1, <1>4, <3>2
  <2>4. QED
    BY <1>1, <1>6, <2>2, <2>3
<1>7. CASE byte' = NoByte /\ before # "start_res"
  <2>0. InHeaders /\ before \in HeadPart
    BY <1>2, <1>7 DEF InHeaders
  <2>1. /\ c <= Passed => NameKnown(c)
        /\ c > Passed => \A l \in 1..Passed : NameOf(l, c) => before = "header_field"
        /\ parser.header = "content_length" =>
             before \in DiscardState \cup {"header_value_start"}
    BY <2>0 DEF NamesSeen, LengthSeen, NameKnown
  <2>2. /\ HasLength => HasLength'
        /\ parser.header = "content_length" =>
             parser'.header = "content_length" \/ HasLength'
    BY <1>7, <2>0, <2>1 DEF HeadMove, StartMove, LineMove, NamesMove, BlanksMove,
       ValueMove, LineEndMove, SameLength, SameHeader, Took, Left, DiscardState, HeadPart,
       FieldState, ValueState, Numeric
  <2>3. CASE c <= Passed
    <3>1. parser.usesTE => parser'.usesTE
      BY <1>7 DEF CodingMove
    <3>2. NameKnown(c)'
      BY <1>1, <2>1, <2>2, <2>3, <3>1 DEF NameKnown
    <3>3. ~(c > Passed')
      BY <1>1, <1>4, <1>7, <2>3
    <3>4. QED
      BY <3>2, <3>3
  <2>4. CASE c = pos
    <3>1. PICK l \in 1..(c - 1) : NameOf(l, c)
      BY <1>4
    <3>2. before = "header_field" /\ byte = "COLON"
      BY <1>1, <1>4, <2>1, <2>4, <3>1
    <3>3. c \in HeadLengths(stream) => parser'.header = "content_length"
      BY <2>4, <3>2, BytesApart, NamesOf DEF HeadMove, StartMove, LineMove, NamesMove,
         BlanksMove, ValueMove, LineEndMove, Took, Left
    <3>4. c \in HeadCodings(stream) => parser'.usesTE
      BY <1>7, <2>4, <3>2, NamesOf DEF CodingMove, Coded
    <3>5. NameKnown(c)'
      BY <1>1, <3>3, <3>4 DEF NameKnown
    <3>6. QED
      BY <1>1, <1>7, <2>4, <3>5
  <2>5. CASE c > pos
    <3>0. ~(c <= Passed') /\ Passed' = pos
      BY <1>1, <1>4, <1>7, <2>5
    <3>1. SUFFICES ASSUME NEW l \in 1..pos, NameOf(l, c) PROVE after = "header_field"
      BY <3>0
    <3>2. byte \in Token
      <4>1. pos \in l..(c - 1)
        BY <1>1, <1>4, <2>5
      <4>2. QED
        BY <1>1, <3>1, <4>1 DEF NameOf
    <3>3. CASE l = pos
      <4>1. Text[Passed] = "LF"
        BY <1>1, <3>1, <3>3 DEF NameOf, LineStart
      <4>2. before \in NewLine
        BY <2>0, <3>2, <4>1, BytesApart DEF LinesSeen, Ends
      <4>3. QED
        BY <1>7, <3>2, <4>2, BytesApart DEF NewLine, HeadMove, StartMove, LineMove,
           NamesMove, BlanksMove, ValueMove, LineEndMove, Took, Left, Ends
    <3>4. CASE l # pos
      <4>1. before = "header_field"
        BY <1>1, <1>4, <2>1, <2>5, <3>1, <3>4
      <4>2. QED
        BY <1>7, <3>2, <4>1, BytesApart DEF HeadMove, StartMove, LineMove,
           NamesMove, BlanksMove, ValueMove, LineEndMove, Took, Left
    <3>5. QED
      BY <3>3, <3>4
  <2>6. QED
    BY <1>1, <1>4, <2>3, <2>4, <2>5
<1>8. QED
  BY <1>5, <1>6, <1>7

\* A second length is met before the first one is forgotten.
LEMMA OneLengthKept ==
  ASSUME NamesSeen, NamesSeen', OneLength, LengthSeen, Reads, HeadMove,
         stream \in Responses, InHeaders'
  PROVE  OneLength'
<1> DEFINE before == parser.state
<1>1. /\ Passed = pos - 1 /\ Passed \in Nat /\ Text' = Text /\ stream' = stream
      /\ byte' = NoByte => Passed' = pos
      /\ byte' # NoByte => byte' = byte /\ Passed' = Passed
      /\ byte = Text[pos] /\ pos \in Nat
  BY PassedMoves DEF Reads
<1>2. before = "start_res" \/ (InHeaders /\ before \in HeadPart)
  BY HeadersGoOn DEF InHeaders
<1>3. \A c \in HeadLengths(stream) : c \in Nat /\ Text[c] = "COLON"
  BY NamesOf
<1>4. CASE before = "start_res"
  <2>1. parser'.header = "general" /\ parser'.flags = {}
    BY <1>4 DEF LengthSeen, HeadMove, StartMove, LineMove, NamesMove, BlanksMove, ValueMove,
       LineEndMove, SameHeader, Took, Left, HeadPart, FieldState, DiscardState, ValueState,
       InHeaders
  <2>2. \A c \in HeadLengths(stream) : ~(c <= Passed')
    BY <1>1, <2>1 DEF NamesSeen, HasLength
  <2>3. QED
    BY <1>1, <2>2 DEF OneLength
<1>5. CASE InHeaders /\ parser.header = "content_length" /\ HasLength
  <2>1. before \in DiscardState \cup {"header_value_start"}
    BY <1>5 DEF LengthSeen
  <2>2. parser'.header = "content_length" /\ HasLength'
    BY <1>5, <2>1 DEF HeadMove, StartMove, LineMove, NamesMove, BlanksMove,
       ValueMove, LineEndMove, SameLength, SameHeader, Took, Left, DiscardState, Numeric
  <2>3. QED
    BY <2>2 DEF OneLength
<1>6. CASE /\ InHeaders /\ before \in HeadPart
           /\ \A c, d \in HeadLengths(stream) : c <= Passed /\ d <= Passed => c = d
  <2>1. CASE byte' # NoByte
    BY <1>1, <1>6, <2>1 DEF OneLength
  <2>2. CASE byte' = NoByte /\ pos \notin HeadLengths(stream)
    <3>1. \A c \in HeadLengths(stream) : c <= Passed' => c <= Passed
      BY <1>1, <1>3, <2>2
    <3>2. QED
      BY <1>1, <1>6, <3>1 DEF OneLength
  <2>3. CASE byte' = NoByte /\ pos \in HeadLengths(stream)
    <3>1. before = "header_field" /\ byte = "COLON"
      <4>1. PICK l \in 1..(pos - 1) : NameOf(l, pos)
        BY <2>3, NamesOf
      <4>2. QED
        BY <1>1, <1>3, <1>6, <2>3, <4>1 DEF NamesSeen
    <3>2. parser'.header = "content_length" /\ (HasLength => HasLength')
      BY <2>3, <3>1, BytesApart, NamesOf DEF HeadMove, StartMove, LineMove,
         NamesMove, BlanksMove, ValueMove, LineEndMove, SameLength, Took, Left
    <3>3. CASE HasLength
      BY <3>2, <3>3 DEF OneLength
    <3>4. CASE ~HasLength
      <4>1. parser.header # "content_length"
        BY <1>6, <3>1 DEF LengthSeen, DiscardState
      <4>2. \A c \in HeadLengths(stream) : ~(c <= Passed)
        BY <1>6, <3>4, <4>1 DEF NamesSeen
      <4>3. \A c \in HeadLengths(stream) : c <= Passed' => c = pos
        BY <1>1, <1>3, <2>3, <4>2
      <4>4. QED
        BY <1>1, <4>3 DEF OneLength
    <3>5. QED
      BY <3>3, <3>4
  <2>4. QED
    BY <2>1, <2>2, <2>3
<1>7. QED
  BY <1>2, <1>4, <1>5, <1>6 DEF OneLength

\* What digits spell, by those before them.
LEMMA NumbersAt ==
  ASSUME stream \in Responses, NEW i \in DOMAIN Text, Text[i] \in DOMAIN Digit
  PROVE  /\ i - 1 \in DOMAIN Text /\ Text[i - 1] \in DOMAIN Digit =>
              stream.numbers[i] = Digit[Text[i]] + stream.numbers[i - 1] * 10
         /\ ~(i - 1 \in DOMAIN Text /\ Text[i - 1] \in DOMAIN Digit) =>
              stream.numbers[i] = Digit[Text[i]]
<1>1. Spelling(Text, Digit, 10, stream.numbers)
  BY NumbersAssumption DEF Text
<1>2. Digit[Text[i]] \in Int
  BY DigitAssumption
<1>3. QED
  BY <1>1, <1>2 DEF Spelling

\* A number that the byte after it ends.
LEMMA NumberStops ==
  ASSUME stream \in Responses, Reads, Passed = pos - 1, byte \notin DOMAIN Digit,
         NEW c \in HeadLengths(stream), NEW i \in (c + 1)..Passed,
         DigitsFrom(Text, c, i, Passed)
  PROVE  Passed \in NumberEnds(stream)
<1>1. c \in Nat /\ c >= 1
  BY NamesOf DEF Reads
<1>2. Passed \in DOMAIN Text /\ Passed + 1 = pos
  BY <1>1 DEF Reads
<1>3. Text[Passed + 1] \notin DOMAIN Digit
  BY <1>2 DEF Reads
<1>4. QED
  BY <1>2, <1>3 DEF NumberEnds, Text

\* The value of a length header begins where its colon was, blanks apart.
LEMMA HeaderSeen ==
  ASSUME Looks, LengthSeen, Reads, HeadMove, stream \in Responses,
         InHeaders, InHeaders', LinesSeen', parser'.header = "content_length"
  PROVE  /\ parser'.state \in DiscardState \cup {"header_value_start"}
         /\ \E c \in HeadLengths(stream) :
              c <= Passed' /\ \A k \in (c + 1)..Passed' : Text[k] \in Blank \cup Ends
<1>1. /\ Passed = pos - 1 /\ Passed \in Nat /\ Text' = Text /\ stream' = stream
      /\ byte' = NoByte => Passed' = pos
      /\ byte' # NoByte => byte' = byte /\ Passed' = Passed
      /\ byte = Text[pos] /\ pos \in Nat /\ pos \in DOMAIN Text
  BY PassedMoves DEF Reads
<1>2. CASE /\ parser.state = "header_field" /\ byte = "COLON" /\ byte' = NoByte
           /\ parser'.state = "header_value_discard_ws" /\ pos \in DOMAIN stream.names
           /\ stream.names[pos] = "content_length"
  <2>1. \A e \in HeadEnds(Text) : pos < e
    BY <1>1, <1>2 DEF LinesSeen, InHeaders
  <2>2. pos \in HeadLengths(stream)
    BY <1>2, <2>1 DEF HeadLengths, InHead, Text
  <2>3. pos <= Passed' /\ \A k \in (pos + 1)..Passed' : Text[k] \in Blank \cup Ends
    BY <1>1, <1>2
  <2>4. QED
    BY <1>2, <2>2, <2>3 DEF DiscardState
<1>3. CASE parser.header = "content_length"
  <2>1. /\ parser.state \in DiscardState \cup {"header_value_start"}
        /\ \E c \in HeadLengths(stream) :
             c <= Passed /\ \A k \in (c + 1)..Passed : Text[k] \in Blank \cup Ends
    BY <1>3 DEF LengthSeen
  <2>2. /\ parser'.state \in DiscardState \cup {"header_value_start"}
        /\ byte' = NoByte => byte \in Blank \cup Ends
    BY <1>3, <2>1 DEF HeadMove, StartMove, LineMove, NamesMove, BlanksMove, ValueMove,
       LineEndMove, SameHeader, Took, Left, DiscardState, Ends, Reads
  <2>3. PICK c \in HeadLengths(stream) :
          c <= Passed /\ \A k \in (c + 1)..Passed : Text[k] \in Blank \cup Ends
    BY <2>1
  <2>4. c \in Nat
    BY NamesOf
  <2>5. c <= Passed'
    BY <1>1, <2>3, <2>4, HeadMoveStates
  <2>6. ASSUME NEW k \in (c + 1)..Passed' PROVE Text[k] \in Blank \cup Ends
    <3>1. CASE k = pos
      <4>1. byte' = NoByte
        BY <1>1, <2>4, <3>1
      <4>2. QED
        BY <1>1, <2>2, <3>1, <4>1
    <3>2. CASE k # pos
      <4>1. k \in (c + 1)..Passed
        BY <1>1, <2>4, <3>2, HeadMoveStates
      <4>2. QED
        BY <2>3, <4>1
    <3>3. QED
      BY <3>1, <3>2
  <2>7. QED
    BY <2>2, <2>5, <2>6
<1>4. QED
  BY <1>2, <1>3 DEF HeadMove, StartMove, LineMove, NamesMove, BlanksMove, ValueMove,
     LineEndMove, SameHeader, Took, Left

\* The digits of a length.
LEMMA NumberBegins ==
  ASSUME LengthSeen, Reads, stream \in Responses, Passed = pos - 1,
         InHeaders, parser.header = "content_length", byte \in DOMAIN Digit
  PROVE  /\ stream.numbers[pos] = Digit[byte]
         /\ \E c \in HeadLengths(stream) :
              \E i \in (c + 1)..pos : DigitsFrom(Text, c, i, pos)
<1>1. PICK c \in HeadLengths(stream) :
        c <= Passed /\ \A k \in (c + 1)..Passed : Text[k] \in Blank \cup Ends
  BY DEF LengthSeen
<1>2. c \in Nat /\ c >= 1 /\ Text[c] = "COLON"
  BY NamesOf DEF Reads
<1>3. Text[Passed] \in Blank \cup Ends \cup {"COLON"}
  <2>1. CASE c = Passed
    BY <1>2, <2>1
  <2>2. CASE c # Passed
    <3>1. Passed \in (c + 1)..Passed
      BY <1>1, <1>2, <2>2 DEF Reads
    <3>2. QED
      BY <1>1, <3>1
  <2>3. QED
    BY <2>1, <2>2
<1>4. Text[pos - 1] \notin DOMAIN Digit
  BY <1>3, BytesApart
<1>5. pos \in DOMAIN Text
  BY <1>1, <1>2 DEF Reads
<1>6. stream.numbers[pos] = Digit[byte]
  BY <1>4, <1>5, NumbersAt DEF Reads
<1>7. pos \in (c + 1)..pos
  BY <1>1, <1>2 DEF Reads
<1>8. DigitsFrom(Text, c, pos, pos)
  <2>1. \A k \in (c + 1)..(pos - 1) : Text[k] \in Blank \cup Ends
    BY <1>1
  <2>2. \A k \in pos..pos : Text[k] \in DOMAIN Digit
    BY DEF Reads
  <2>3. QED
    BY <2>1, <2>2 DEF DigitsFrom
<1>9. QED
  BY <1>6, <1>7, <1>8

LEMMA NumberGoesOn ==
  ASSUME LengthSeen, Reads, stream \in Responses, Passed = pos - 1,
         InHeaders, HasLength, InNumber, byte \in DOMAIN Digit, value \in Nat
  PROVE  /\ stream.numbers[pos] = value * 10 + Digit[byte]
         /\ \E c \in HeadLengths(stream) :
              \E i \in (c + 1)..pos : DigitsFrom(Text, c, i, pos)
<1>1. /\ value = stream.numbers[Passed]
      /\ \E c \in HeadLengths(stream) :
           \E i \in (c + 1)..Passed : DigitsFrom(Text, c, i, Passed)
  BY DEF LengthSeen
<1>2. PICK c \in HeadLengths(stream) :
        \E i \in (c + 1)..Passed : DigitsFrom(Text, c, i, Passed)
  BY <1>1
<1>3. PICK i \in (c + 1)..Passed : DigitsFrom(Text, c, i, Passed)
  BY <1>2
<1>4. c \in Nat
  BY NamesOf
<1>5. i \in (c + 1)..pos /\ i \in Int
  BY <1>4 DEF Reads
<1>6. \A k \in i..pos : Text[k] \in DOMAIN Digit
  <2>1. \A k \in i..pos : k = pos \/ k \in i..Passed
    BY <1>5 DEF Reads
  <2>2. \A k \in i..Passed : Text[k] \in DOMAIN Digit
    BY <1>3 DEF DigitsFrom
  <2>3. QED
    BY <2>1, <2>2 DEF Reads
<1>7. DigitsFrom(Text, c, i, pos)
  BY <1>3, <1>6 DEF DigitsFrom
<1>8. pos \in DOMAIN Text /\ pos - 1 \in DOMAIN Text /\ Text[pos - 1] \in DOMAIN Digit
  <2>1. Passed \in i..Passed
    BY <1>4, <1>5 DEF Reads
  <2>2. QED
    BY <1>3, <1>4, <1>5, <2>1 DEF DigitsFrom, Reads
<1>9. stream.numbers[pos] = Digit[byte] + value * 10
  BY <1>1, <1>8, NumbersAt DEF Reads
<1>10. Digit[byte] \in Int
  BY DigitAssumption
<1>11. QED
  BY <1>1, <1>5, <1>7, <1>9, <1>10

LEMMA LengthKept ==
  ASSUME Looks, LinesSeen', LengthSeen, Reads, HeadMove, stream \in Responses, value \in Nat
  PROVE  LengthSeen'
<1> DEFINE before == parser.state
           after == parser'.state
<1>1. /\ Passed = pos - 1 /\ Passed \in Nat /\ Text' = Text /\ stream' = stream
      /\ byte' = NoByte => Passed' = pos
      /\ byte' # NoByte => byte' = byte /\ Passed' = Passed
  BY PassedMoves DEF Reads
<1>2. /\ before \in HeadPart \cup {"start_res"} /\ after \in HeadPart \cup {"start_res"}
      /\ after = "start_res" => before = "start_res"
  BY HeadMoveStates
<1>3. after = "start_res" => parser'.header = "general"
  BY <1>2 DEF LengthSeen, HeadMove, StartMove, LineMove, NamesMove, BlanksMove, ValueMove,
     LineEndMove, SameHeader, Took, Left
<1>4. CASE ~InHeaders'
  BY <1>3, <1>4 DEF LengthSeen
<1>5. CASE before = "start_res" /\ InHeaders'
  <2>1. /\ after = "res_line" /\ parser'.header = "general" /\ parser'.flags = {}
    BY <1>5 DEF LengthSeen, HeadMove, StartMove, LineMove, NamesMove, BlanksMove, ValueMove,
       LineEndMove, SameHeader, Took, Left, HeadPart, FieldState, DiscardState, ValueState,
       InHeaders
  <2>2. QED
    BY <2>1 DEF LengthSeen, HasLength, Numeric
<1>6. CASE InHeaders /\ InHeaders'
  <2>0. before \in HeadPart /\ after \in HeadPart
    BY <1>6 DEF InHeaders
  <2>1. /\ parser.header \in Numeric => HasLength
        /\ HasLength /\ InNumber =>
             /\ value = stream.numbers[Passed]
             /\ \E c \in HeadLengths(stream) :
                  \E i \in (c + 1)..Passed : DigitsFrom(Text, c, i, Passed)
        /\ HasLength /\ ~InNumber =>
             \E j \in NumberEnds(stream) : value = stream.numbers[j]
    BY <1>6 DEF LengthSeen
  <2>2. parser'.header = "content_length" =>
          /\ parser'.state \in DiscardState \cup {"header_value_start"}
          /\ \E c \in HeadLengths(stream) :
               c <= Passed' /\ \A k \in (c + 1)..Passed' : Text[k] \in Blank \cup Ends
    BY <1>6, HeaderSeen
  <2>3. parser'.header \in Numeric => HasLength'
    <3>1. CASE NamesMove
      BY <2>0, <2>1, <3>1 DEF NamesMove, SameHeader, SameLength, Numeric, Name
    <3>2. CASE StartMove \/ LineMove \/ BlanksMove \/ ValueMove \/ LineEndMove
      BY <2>0, <2>1, <3>2 DEF Numeric, StartMove, LineMove, BlanksMove, ValueMove, LineEndMove,
         SameHeader, SameLength, Took, Left, HeadPart, FieldState, DiscardState, ValueState
    <3>3. QED
      BY <3>1, <3>2 DEF HeadMove
  <2>4. CASE /\ before = "header_value_start" /\ parser.header = "content_length"
             /\ byte \in DOMAIN Digit /\ value' = Digit[byte] /\ byte' = NoByte
             /\ after = "header_value" /\ parser'.header = "content_length_num"
    <3>1. InNumber' /\ Passed' = pos
      BY <1>1, <2>4 DEF InNumber
    <3>2. /\ value' = stream.numbers[Passed']
          /\ \E c \in HeadLengths(stream) :
               \E i \in (c + 1)..Passed' : DigitsFrom(Text, c, i, Passed')
      BY <1>1, <1>6, <2>4, <3>1, NumberBegins
    <3>3. QED
      BY <1>1, <1>2, <2>2, <2>3, <2>4, <3>1, <3>2 DEF LengthSeen
  <2>5. CASE /\ InNumber /\ byte \in DOMAIN Digit /\ byte' = NoByte /\ InNumber'
             /\ value' = value * 10 + Digit[byte] /\ HasLength
    <3>1. Passed' = pos
      BY <1>1, <2>5
    <3>2. /\ value' = stream.numbers[Passed']
          /\ \E c \in HeadLengths(stream) :
               \E i \in (c + 1)..Passed' : DigitsFrom(Text, c, i, Passed')
      BY <1>1, <1>6, <2>5, <3>1, NumberGoesOn
    <3>3. QED
      BY <1>1, <1>3, <2>2, <2>3, <2>5, <3>1, <3>2 DEF LengthSeen, InNumber
  <2>6. CASE /\ InNumber => byte \notin DOMAIN Digit
             /\ ~InNumber' /\ SameLength
    <3>1. HasLength' => HasLength
      BY <2>6 DEF SameLength
    <3>2. HasLength' => \E j \in NumberEnds(stream) : value' = stream.numbers[j]
      <4>1. CASE InNumber
        <5>1. SUFFICES ASSUME HasLength PROVE \E j \in NumberEnds(stream) : value = stream.numbers[j]
          BY <2>6, <3>1 DEF SameLength
        <5>2. value = stream.numbers[Passed]
          BY <2>1, <4>1, <5>1
        <5>3. Passed \in NumberEnds(stream)
          BY <1>1, <2>1, <2>6, <4>1, <5>1, NumberStops
        <5>4. QED
          BY <5>2, <5>3
      <4>2. CASE ~InNumber
        BY <2>1, <2>6, <3>1, <4>2 DEF SameLength
      <4>3. QED
        BY <4>1, <4>2
    <3>3. QED
      BY <1>1, <1>3, <2>2, <2>3, <2>6, <3>2 DEF LengthSeen
  <2>7. QED
    <3>1. parser.header = "content_length" => before \in DiscardState \cup {"header_value_start"}
      BY <1>6 DEF LengthSeen
    <3>2. CASE StartMove \/ LineMove \/ NamesMove \/ BlanksMove \/ LineEndMove
      BY <2>0, <2>6, <3>1, <3>2, BytesApart DEF InNumber, StartMove, LineMove, NamesMove,
         BlanksMove, LineEndMove, Took, Left, SameLength, HeadPart, FieldState,
         DiscardState, ValueState, Ends
    <3>3. CASE ValueMove
      <4>1. HasLength \/ parser.header \notin Numeric
        BY <2>1
      <4>2. QED
        BY <2>4, <2>5, <2>6, <3>1, <3>3, <4>1, BytesApart DEF InNumber, ValueMove, Took,
           SameLength, SameHeader, Numeric, DiscardState, Blank
    <3>4. QED
      BY <3>2, <3>3 DEF HeadMove
<1>7. QED
  BY <1>4, <1>5, <1>6, HeadersGoOn

-----------------------------------------------------------------------------
(* The codings of a response.                                              *)

LEMMA CodingsKept ==
  ASSUME LinesSeen, CodingsSeen, LengthSeen, Reads, HeadMove,
         parser.state = "start_res" \/ CodingMove, stream \in Responses
  PROVE  CodingsSeen'
<1> DEFINE before == parser.state
           after == parser'.state
           InValue == {"header_value", "header_almost_done"}
<1>1. /\ Passed = pos - 1 /\ Passed \in Nat /\ Text' = Text /\ stream' = stream
      /\ byte' = NoByte => Passed' = pos
      /\ byte' # NoByte => byte' = byte /\ Passed' = Passed
      /\ byte = Text[pos] /\ pos \in Nat /\ pos \in DOMAIN Text /\ pos' = pos
  BY PassedMoves DEF Reads
<1>2. Passed' \in Nat /\ Passed <= Passed' /\ pos <= pos
  BY <1>1, HeadMoveStates
<1>3. SUFFICES ASSUME InHeaders' PROVE CodingsSeen'
  BY DEF CodingsSeen
<1>4. CASE before = "start_res"
  <2>1. /\ after = "res_line" /\ parser'.header = "general" /\ parser'.flags = {}
        /\ ~parser'.usesTE
    BY <1>3, <1>4 DEF LengthSeen, HeadMove, StartMove, LineMove, NamesMove, BlanksMove, ValueMove,
       LineEndMove, SameHeader, Took, Left, HeadPart, FieldState, DiscardState, ValueState,
       InHeaders
  <2>2. QED
    BY <2>1 DEF CodingsSeen, HasChunks, Coding
<1>5. CASE InHeaders /\ before # "start_res"
  <2>1. CodingMove
    BY <1>5
  <2>2. /\ parser.usesTE => HeadCodings(stream) # {}
        /\ HasChunks \/ parser.header \in Coding => parser.usesTE
        /\ before = "header_value" /\ parser.header = "te_chunked" =>
             \E k \in 1..Passed :
               /\ k \in DOMAIN stream.words /\ stream.words[k] = "te_chunked"
               /\ \A i \in (k + 1)..Passed : Text[i] = "SP"
        /\ before = "header_almost_done" /\ parser.header = "te_chunked" => SaidChunked(pos)
        /\ before \notin InValue /\ parser.header = "te_chunked" => SaidChunked(Passed)
        /\ HasChunks => SaidChunked(Passed)
    BY <1>5 DEF CodingsSeen
  <2>3. parser'.usesTE => HeadCodings(stream) # {}
    <3>1. CASE Coded
      <4>1. \A e \in HeadEnds(Text) : pos < e
        <5>1. \A e \in HeadEnds(Text) : e \in Nat /\ e > pos - 1 /\ Text[e] = "LF"
          BY <1>1, <1>5 DEF LinesSeen, InHeaders, HeadEnds, Reads
        <5>2. Text[pos] # "LF"
          BY <1>1, <3>1 DEF Coded
        <5>3. QED
          BY <1>1, <5>1, <5>2
      <4>2. pos \in HeadCodings(stream)
        BY <3>1, <4>1 DEF Coded, HeadCodings, InHead, Text
      <4>3. QED
        BY <4>2
    <3>2. CASE ~Coded
      BY <2>1, <2>2, <3>2 DEF CodingMove
    <3>3. QED
      BY <3>1, <3>2
  <2>4. HasChunks' \/ parser'.header \in Coding => parser'.usesTE
    BY <2>1, <2>2 DEF CodingMove, Coding
  <2>5. after = "header_value" /\ parser'.header = "te_chunked" =>
          \E k \in 1..Passed' :
            /\ k \in DOMAIN stream.words /\ stream.words[k] = "te_chunked"
            /\ \A i \in (k + 1)..Passed' : Text[i] = "SP"
    <3>1. SUFFICES ASSUME after = "header_value", parser'.header = "te_chunked"
                   PROVE  \E k \in 1..pos :
                            /\ k \in DOMAIN stream.words /\ stream.words[k] = "te_chunked"
                            /\ \A i \in (k + 1)..pos : Text[i] = "SP"
      BY <1>1, <2>1 DEF CodingMove, WordMove
    <3>2. \/ pos \in DOMAIN stream.words /\ stream.words[pos] = "te_chunked"
          \/ before = "header_value" /\ parser.header = "te_chunked" /\ byte = "SP"
      BY <2>1, <3>1 DEF CodingMove, WordMove
    <3>3. CASE pos \in DOMAIN stream.words /\ stream.words[pos] = "te_chunked"
      <4>1. pos \in 1..pos /\ \A i \in (pos + 1)..pos : Text[i] = "SP"
        BY <1>1
      <4>2. QED
        BY <3>3, <4>1
    <3>4. CASE before = "header_value" /\ parser.header = "te_chunked" /\ byte = "SP"
      <4>1. PICK k \in 1..Passed :
              /\ k \in DOMAIN stream.words /\ stream.words[k] = "te_chunked"
              /\ \A i \in (k + 1)..Passed : Text[i] = "SP"
        BY <2>2, <3>4
      <4>2. k \in 1..pos
        BY <1>1
      <4>3. \A i \in (k + 1)..pos : i = pos \/ i \in (k + 1)..Passed
        BY <1>1, <4>2
      <4>4. \A i \in (k + 1)..pos : Text[i] = "SP"
        BY <1>1, <3>4, <4>1, <4>3
      <4>5. QED
        BY <4>1, <4>2, <4>4
    <3>5. QED
      BY <3>2, <3>3, <3>4
  <2>6. after = "header_almost_done" /\ parser'.header = "te_chunked" => SaidChunked(pos)'
    <3>1. SUFFICES ASSUME after = "header_almost_done", parser'.header = "te_chunked"
                   PROVE  SaidChunked(pos)'
      OBVIOUS
    <3>2. before = "header_value" /\ parser.header = "te_chunked" /\ byte \in Ends
      BY <2>1, <3>1 DEF CodingMove, WordMove
    <3>3. PICK k \in 1..Passed :
            /\ k \in DOMAIN stream.words /\ stream.words[k] = "te_chunked"
            /\ \A i \in (k + 1)..Passed : Text[i] = "SP"
      BY <2>2, <3>2
    <3>4. SaysChunked(stream, k, pos)
      BY <1>1, <3>2, <3>3 DEF SaysChunked, Text
    <3>5. k \in 1..pos /\ pos \in 1..pos
      BY <1>1
    <3>6. SaidChunked(pos)
      BY <3>4, <3>5 DEF SaidChunked
    <3>7. QED
      BY <1>1, <3>6 DEF SaidChunked
  <2>7. after \notin InValue /\ parser'.header = "te_chunked" => SaidChunked(Passed)'
    <3>1. SUFFICES ASSUME after \notin InValue, parser'.header = "te_chunked"
                   PROVE  SaidChunked(Passed)'
      OBVIOUS
    <3>2. /\ before # "header_value" /\ parser.header = "te_chunked"
          /\ before = "header_almost_done" => byte' = NoByte
      BY <2>1, <3>1 DEF CodingMove, WordMove
    <3>3. \E n \in Nat : n <= Passed' /\ SaidChunked(n)
      BY <1>1, <1>2, <2>2, <3>2
    <3>4. QED
      BY <1>1, <1>2, <3>3 DEF SaidChunked
  <2>8. HasChunks' => SaidChunked(Passed)'
    <3>1. HasChunks' => SaidChunked(Passed)
      BY <2>1, <2>2 DEF CodingMove
    <3>2. QED
      BY <1>1, <1>2, <3>1 DEF SaidChunked
  <2>9. after = "headers_done" => ~Contradictory(parser')
    <3>1. after = "headers_done" =>
            /\ before = "headers_almost_done" /\ ~Contradictory(parser) /\ SameLength
      BY DEF HeadMove, StartMove, LineMove, NamesMove, BlanksMove, ValueMove, LineEndMove,
         Took, Left
    <3>2. QED
      BY <2>1, <3>1 DEF CodingMove, Coded, Contradictory, SameLength, HasLength
  <2>10. QED
    BY <1>1, <2>3, <2>4, <2>5, <2>6, <2>7, <2>8, <2>9 DEF CodingsSeen
<1>6. QED
  BY <1>3, <1>4, <1>5, HeadersGoOn

-----------------------------------------------------------------------------
(* The end of the head, and of the message.                                *)

\* A response has one number.
LEMMA OneNumber ==
  ASSUME stream \in Responses, NEW j \in NumberEnds(stream), NEW k \in NumberEnds(stream),
         DOMAIN Text = 1..Len(Text), Len(Text) \in Nat,
         \A c, d \in HeadLengths(stream) : c = d
  PROVE  j = k
<1>1. /\ j \in Nat /\ j <= Len(Text) /\ k \in Nat /\ k <= Len(Text)
      /\ j < Len(Text) => Text[j + 1] \notin DOMAIN Digit
      /\ k < Len(Text) => Text[k + 1] \notin DOMAIN Digit
  BY DEF NumberEnds, Text
<1>2. PICK c \in HeadLengths(stream) : \E i \in (c + 1)..j : DigitsFrom(Text, c, i, j)
  BY DEF NumberEnds, Text
<1>3. PICK d \in HeadLengths(stream) : \E i \in (d + 1)..k : DigitsFrom(Text, d, i, k)
  BY DEF NumberEnds, Text
<1>4. c = d
  OBVIOUS
<1>5. c \in Nat
  BY NamesAssumption DEF HeadLengths, NameEnds, Text
<1>6. PICK i \in (c + 1)..j : DigitsFrom(Text, c, i, j)
  BY <1>2
<1>7. PICK h \in (c + 1)..k : DigitsFrom(Text, c, h, k)
  BY <1>3, <1>4
<1>8. i \in Nat /\ h \in Nat /\ i <= j /\ h <= k /\ c < i /\ c < h
  BY <1>1, <1>5, <1>6, <1>7
<1>9. /\ \A m \in (c + 1)..(i - 1) : Text[m] \notin DOMAIN Digit
      /\ \A m \in (c + 1)..(h - 1) : Text[m] \notin DOMAIN Digit
      /\ \A m \in i..j : Text[m] \in DOMAIN Digit
      /\ \A m \in h..k : Text[m] \in DOMAIN Digit
  BY <1>6, <1>7, BytesApart DEF DigitsFrom
<1>10. i = h
  <2>1. ~(i < h)
    <3>1. SUFFICES ASSUME i < h PROVE FALSE
      OBVIOUS
    <3>2. i \in (c + 1)..(h - 1) /\ i \in i..j
      BY <1>1, <1>5, <1>8, <3>1
    <3>3. QED
      BY <1>9, <3>2
  <2>2. ~(h < i)
    <3>1. SUFFICES ASSUME h < i PROVE FALSE
      OBVIOUS
    <3>2. h \in (c + 1)..(i - 1) /\ h \in h..k
      BY <1>1, <1>5, <1>8, <3>1
    <3>3. QED
      BY <1>9, <3>2
  <2>3. QED
    BY <1>8, <2>1, <2>2
<1>11. ~(j < k)
  <2>1. SUFFICES ASSUME j < k PROVE FALSE
    OBVIOUS
  <2>2. j + 1 \in h..k /\ j < Len(Text)
    BY <1>1, <1>8, <1>10, <2>1
  <2>3. QED
    BY <1>1, <1>9, <2>2
<1>12. ~(k < j)
  <2>1. SUFFICES ASSUME k < j PROVE FALSE
    OBVIOUS
  <2>2. k + 1 \in i..j /\ k < Len(Text)
    BY <1>1, <1>8, <1>10, <2>1
  <2>3. QED
    BY <1>1, <1>9, <2>2
<1>13. QED
  BY <1>1, <1>11, <1>12

\* The empty line whose LF is looked at is the first.
LEMMA HeadIsOver ==
  ASSUME IInv, parser.errno = "OK", Looks, LinesSeen, Reads, parser.state = "headers_done"
  PROVE  pos \in HeadEnds(Text) /\ HeadEnd(Text) = pos
<1>1. /\ parser.state \in HeadPart /\ parser.state \in EmptyLine
      /\ byte = "LF" /\ Passed = pos - 1 /\ byte # NoByte
  BY DEF HeadPart, EmptyLine, Looks, Reads, Passed
<1>0. ~Trailing
  BY DEF IInv, Running, PhaseFits, Trailing
<1>2. PICK s \in 1..(pos - 1) : Text[s] \notin Ends
  BY <1>1 DEF Looks
<1>3. pos > 1 /\ pos \in Nat
  BY <1>2 DEF Reads
<1>4. \/ Text[pos - 1] = "CR" /\ LineStart(Text, pos - 1)
      \/ Text[pos - 1] = "LF"
  BY <1>1 DEF LinesSeen
<1>5. Text[pos - 1] = "LF" => LineStart(Text, pos)
  BY <1>2, <1>3 DEF LineStart
<1>6. pos \in HeadEnds(Text)
  <2>1. pos \in DOMAIN Text /\ Text[pos] = "LF"
    BY <1>1 DEF Reads
  <2>2. QED
    BY <1>4, <1>5, <2>1 DEF HeadEnds
<1>7. \A e \in HeadEnds(Text) : e \in Nat /\ pos <= e
  <2>1. \A e \in HeadEnds(Text) : e \in Nat /\ e > pos - 1
    BY <1>0, <1>1 DEF LinesSeen, HeadEnds, Reads
  <2>2. QED
    BY <1>3, <2>1
<1>8. \A e \in HeadEnds(Text) :
        (\A f \in HeadEnds(Text) : e <= f) <=> e = pos
  <2>1. SUFFICES ASSUME NEW e \in HeadEnds(Text)
                 PROVE  (\A f \in HeadEnds(Text) : e <= f) <=> e = pos
    OBVIOUS
  <2>2. e = pos => \A f \in HeadEnds(Text) : e <= f
    BY <1>7
  <2>3. ASSUME \A f \in HeadEnds(Text) : e <= f PROVE e = pos
    <3>1. e <= pos
      BY <1>6, <2>3
    <3>2. QED
      BY <1>3, <1>7, <2>1, <3>1
  <2>4. QED
    BY <2>2, <2>3
<1>9. QED
  BY <1>6, <1>8 DEF HeadEnd

\* The parser ends the headers of a response with the one length that these have,
\* or the codings, and not with both.
LEMMA LengthFound ==
  ASSUME IInv, Looks, LinesSeen, NamesSeen, OneLength, LengthSeen, CodingsSeen, Reads,
         stream \in Responses, parser.state = "headers_done", parser.errno = "OK"
  PROVE  /\ (Chunks(stream) => LastEnds(stream) # {}) => Framed(stream)
         /\ parser.usesTE <=> HeadCodings(stream) # {}
         /\ HasChunks => SaidChunked(Passed) /\ HeadLengths(stream) = {}
         /\ IF HeadLengths(stream) # {}
            THEN /\ parser.length = stream.numbers[CHOOSE j \in NumberEnds(stream) : TRUE]
                 /\ parser.length < MaxLength
            ELSE parser.length = MaxLength
<1>1. InHeaders /\ Passed = pos - 1
  BY DEF InHeaders, HeadPart, Reads, Passed, IInv, Running, PhaseFits, Trailing
<1>2. phase = "head"
  BY DEF IInv, Running, PhaseFits
<1>3. IF HasLength THEN parser.length = value /\ value < MaxLength
      ELSE parser.length = MaxLength
  BY <1>2 DEF IInv, Running, HeaderFits, Spelled, HasLength
<1>4. pos \in HeadEnds(Text) /\ pos \in HeadEnds(stream.text)
  BY HeadIsOver DEF Text
<1>5. \A c \in HeadLengths(stream) \cup HeadCodings(stream) : c <= Passed
  <2>1. \A c \in HeadLengths(stream) \cup HeadCodings(stream) : c \in Nat /\ c < pos
    BY <1>4, NamesOf DEF InHead
  <2>2. QED
    BY <1>1, <2>1 DEF Reads
<1>6. parser.header # "content_length"
  BY <1>1 DEF LengthSeen, DiscardState
<1>7. \A c, d \in HeadLengths(stream) : c = d
  BY <1>1, <1>5, <1>6 DEF OneLength
<1>8. parser.usesTE <=> HeadCodings(stream) # {}
  BY <1>1, <1>5 DEF CodingsSeen, NamesSeen
<1>9. ~(parser.usesTE /\ HasLength)
  BY <1>1 DEF CodingsSeen, Contradictory, HasLength
<1>10. HasChunks => SaidChunked(Passed) /\ parser.usesTE
  BY <1>1 DEF CodingsSeen
<1>11. CASE HasLength
  <2>1. PICK j \in NumberEnds(stream) : value = stream.numbers[j]
    BY <1>1, <1>11 DEF LengthSeen, InNumber
  <2>2. HeadLengths(stream) # {} /\ NumberEnds(stream) # {}
    BY <2>1 DEF NumberEnds
  <2>3. (CHOOSE k \in NumberEnds(stream) : TRUE) = j
    BY <1>7, <2>1, OneNumber DEF Reads
  <2>4. (Chunks(stream) => LastEnds(stream) # {}) => Framed(stream)
    BY <1>4, <1>7, <1>8, <1>9, <1>11, <2>2 DEF Framed
  <2>5. QED
    BY <1>3, <1>8, <1>9, <1>10, <1>11, <2>1, <2>2, <2>3, <2>4 DEF Framed
<1>12. CASE ~HasLength
  <2>1. HeadLengths(stream) = {}
    BY <1>1, <1>5, <1>6, <1>12 DEF NamesSeen
  <2>2. (Chunks(stream) => LastEnds(stream) # {}) => Framed(stream)
    BY <1>4, <2>1 DEF Framed
  <2>3. QED
    BY <1>3, <1>8, <1>10, <1>12, <2>1, <2>2 DEF Framed
<1>13. QED
  BY <1>11, <1>12

\* What the response is by what is left after its headers.
LEMMA WholeAtHead ==
  ASSUME IInv, KindSeen, Looks, LinesSeen, NamesSeen, OneLength, LengthSeen, CodingsSeen,
         Reads, stream \in Responses, parser.state = "headers_done", parser.errno = "OK"
  PROVE  /\ Bodyless(parser) => pos >= stream.whole
         /\ ~parser.usesTE /\ parser.length # MaxLength => pos + parser.length >= stream.whole
         /\ HasChunks => pos >= stream.whole \/ \A e \in LastEnds(stream) : stream.whole = e
<1>1. HeadEnd(stream.text) = pos
  BY HeadIsOver DEF Text
<1>2. parser.length \in Nat /\ pos \in Nat /\ Passed = pos - 1
  BY DEF IInv, Typed, Record, Reads, Passed
<1>3. /\ ~parser.connect /\ (parser.upgrade => stream.status # "plain")
      /\ parser.type = "response" /\ parser.noBody = (stream.status # "plain")
  BY DEF KindSeen
<1>4. /\ (Chunks(stream) => LastEnds(stream) # {}) => Framed(stream)
      /\ parser.usesTE <=> HeadCodings(stream) # {}
      /\ HasChunks => SaidChunked(Passed) /\ HeadLengths(stream) = {}
      /\ HeadLengths(stream) # {} =>
           /\ parser.length = stream.numbers[CHOOSE j \in NumberEnds(stream) : TRUE]
           /\ parser.length < MaxLength
      /\ HeadLengths(stream) = {} => parser.length = MaxLength
  BY LengthFound
<1>5. Framed(stream) =>
        /\ stream.head \/ (stream.status # "plain" /\ HeadLengths(stream) = {}) =>
             stream.whole = pos
        /\ ~stream.head /\ HeadLengths(stream) # {} => stream.whole = pos + parser.length
        /\ Chunks(stream) => \A e \in LastEnds(stream) : stream.whole = e
  BY <1>1, <1>4, WholeAssumption
<1>6. stream.head \/ stream.status # "plain" \/ ~parser.usesTE => Framed(stream)
  BY <1>4 DEF Chunks
<1>7. ~parser.usesTE /\ parser.length # MaxLength => pos + parser.length >= stream.whole
  <2>1. SUFFICES ASSUME ~parser.usesTE, parser.length # MaxLength
                 PROVE  pos + parser.length >= stream.whole
    OBVIOUS
  <2>2. HeadLengths(stream) # {}
    BY <1>4, <2>1
  <2>3. stream.whole \in {pos, pos + parser.length}
    BY <1>5, <1>6, <2>1, <2>2
  <2>4. QED
    BY <1>2, <2>3
<1>8. Bodyless(parser) => pos >= stream.whole
  <2>1. SUFFICES ASSUME Bodyless(parser) PROVE pos >= stream.whole
    OBVIOUS
  <2>2. /\ stream.status # "plain" \/ ~parser.usesTE
        /\ HeadLengths(stream) # {} => parser.length = 0
        /\ HeadLengths(stream) = {} => stream.status # "plain"
    <3>1. CASE parser.upgrade /\ ~HasBody(parser)
      BY <1>2, <1>3, <1>4, <3>1, MaxLengthAssumption DEF HasBody
    <3>2. CASE ~parser.usesTE /\ (parser.length = 0 \/ (parser.length = MaxLength /\ ~NeedsEof(parser)))
               /\ "chunked" \notin parser.flags
      <4>1. parser.length = MaxLength => stream.status # "plain"
        <5>1. SUFFICES ASSUME parser.length = MaxLength PROVE parser.noBody
          BY <1>3
        <5>2. ~NeedsEof(parser)
          BY <1>2, <3>2, <5>1, MaxLengthAssumption
        <5>3. QED
          BY <1>3, <3>2, <5>1, <5>2 DEF NeedsEof
      <4>2. QED
        BY <1>2, <1>4, <3>2, <4>1, MaxLengthAssumption
    <3>3. QED
      BY <1>3, <2>1, <3>1, <3>2 DEF Bodyless
  <2>3. stream.whole = pos \/ stream.whole = pos + 0
    BY <1>5, <1>6, <2>2
  <2>4. QED
    BY <1>2, <2>3
<1>9. HasChunks => pos >= stream.whole \/ \A e \in LastEnds(stream) : stream.whole = e
  <2>1. SUFFICES ASSUME HasChunks, LastEnds(stream) # {}
                 PROVE  pos >= stream.whole \/ \A e \in LastEnds(stream) : stream.whole = e
    OBVIOUS
  <2>2. Framed(stream) /\ HeadLengths(stream) = {}
    BY <1>4, <2>1
  <2>3. CASE stream.head \/ stream.status # "plain"
    <3>1. stream.whole = pos
      BY <1>5, <2>2, <2>3
    <3>2. QED
      BY <1>2, <3>1
  <2>4. CASE ~stream.head /\ stream.status = "plain"
    <3>1. PICK k \in 1..Passed, j \in 1..Passed : SaysChunked(stream, k, j)
      BY <1>4, <2>1 DEF SaidChunked
    <3>2. InHead(stream, j)
      <4>1. InHeaders
        BY DEF InHeaders, HeadPart, IInv, Running, PhaseFits, Trailing
      <4>2. \A e \in HeadEnds(stream.text) : e \in Nat /\ e > Passed
        BY <4>1 DEF LinesSeen, InHeaders, Text, HeadEnds, Reads
      <4>3. QED
        BY <1>2, <4>2 DEF InHead
    <3>3. k \in DOMAIN stream.text /\ j \in DOMAIN stream.text
      BY <1>2 DEF Reads, Text
    <3>4. HeadCodings(stream) # {}
      <4>1. InHeaders
        BY DEF InHeaders, HeadPart, IInv, Running, PhaseFits, Trailing
      <4>2. QED
        BY <2>1, <4>1 DEF CodingsSeen
    <3>5. Chunks(stream)
      BY <2>4, <3>1, <3>2, <3>3, <3>4 DEF Chunks
    <3>6. QED
      BY <1>5, <2>2, <3>5
  <2>5. QED
    BY <2>3, <2>4
<1>10. QED
  BY <1>7, <1>8, <1>9

-----------------------------------------------------------------------------
(* Chunks: the parser is where ChunksSeen has it.                           *)

LEMMA WholeIsPlace == Placed => stream.whole \in Nat
BY WholeAssumption DEF Placed

\* What hexadecimal digits spell, by those before them.
LEMMA HexesAt ==
  ASSUME stream \in Responses, NEW i \in DOMAIN Text, Text[i] \in DOMAIN HexDigit
  PROVE  /\ stream.hexes[i] \in Nat
         /\ i - 1 \in DOMAIN Text /\ Text[i - 1] \in DOMAIN HexDigit =>
              stream.hexes[i] = HexDigit[Text[i]] + stream.hexes[i - 1] * 16
         /\ ~(i - 1 \in DOMAIN Text /\ Text[i - 1] \in DOMAIN HexDigit) =>
              stream.hexes[i] = HexDigit[Text[i]]
<1>1. Spelling(Text, HexDigit, 16, stream.hexes)
  BY NumbersAssumption DEF Text
<1>2. HexDigit[Text[i]] \in Int
  BY DigitAssumption
<1>3. QED
  BY <1>1, <1>2 DEF Spelling

LEMMA EndsLater ==
  ASSUME Placed, EndsInChunks, Passed \in Int, Passed' \in Int, Passed' >= Passed,
         UNCHANGED stream
  PROVE  EndsInChunks'
<1>1. stream.whole \in Int
  BY WholeIsPlace
<1>2. QED
  BY <1>1 DEF EndsInChunks

\* The parser looks at a byte of the stream, which it passes.
Passes ==
  /\ DOMAIN Text = 1..Len(Text) /\ Len(Text) \in Nat
  /\ pos \in 1..Len(Text) /\ byte = Text[pos] /\ Passed = pos - 1 /\ Passed \in Nat
  /\ UNCHANGED stream /\ Text' = Text
  /\ pos' \in Nat /\ pos' >= pos /\ Passed' = pos'

LEMMA LooksAndPasses ==
  ASSUME Placed, Looks, parser.state # "message_done", byte # NoByte, byte' = NoByte,
         UNCHANGED stream, pos' \in Nat, pos' >= pos
  PROVE  Passes
<1>1. DOMAIN Text = 1..Len(Text) /\ Len(Text) \in Nat
  BY PlacesOfStream DEF Placed, Text
<1>2. pos \in 1..Len(Text) /\ byte = Text[pos]
  BY DEF Looks, Placed, Text
<1>3. QED
  BY <1>1, <1>2 DEF Passes, Passed, Text

\* The size of a chunk, digit by digit, and what else its line says.
LEMMA SizesKept ==
  ASSUME IInv, Placed, FirstMessage, SizeMove, Passes, byte # NoByte, parser.errno = "OK"
  PROVE  ChunksSeen'
<1>1. /\ stream \in Responses /\ Passed' = pos /\ pos' = pos /\ pos \in Nat /\ pos >= 1
      /\ pos \in DOMAIN Text /\ value \in Nat
  BY DEF Passes, SizeMove, Placed, IInv, Typed
<1>2. CASE parser.state = "headers_done"
  <2>1. HasChunks /\ parser'.state = "chunk_size_start" /\ byte = "LF"
    BY <1>2 DEF SizeMove, Took, FirstMessage, Looks
  <2>2. Reads
    BY <1>1 DEF Passes, Reads
  <2>3. pos >= stream.whole \/ \A e \in LastEnds(stream) : stream.whole = e
    BY <1>1, <1>2, <2>1, <2>2, WholeAtHead DEF FirstMessage
  <2>4. EndsInChunks'
    BY <1>1, <2>3 DEF EndsInChunks, Passes
  <2>5. HeadEnds(stream.text) # {} /\ HeadEnd(stream.text) = pos
    BY <1>2, <2>2, HeadIsOver DEF FirstMessage, Text
  <2>6. pos + 1 \in 1..(Len(stream.text) + 1)
    BY DEF Passes, Text
  <2>7. pos + 1 \in stream.chunks
    BY <1>1, <2>5, <2>6, ChunksAssumption
  <2>8. QED
    BY <1>1, <2>1, <2>4, <2>7 DEF ChunksSeen, Passes, HeadPart, FieldState, DiscardState,
       ValueState
<1>3. CASE parser.state # "headers_done"
  <2>1. parser.state \in ChunkState /\ parser'.state \in ChunkState
    BY <1>3 DEF SizeMove, Took, ChunkState
  <2>2. EndsInChunks'
    BY <1>1, <2>1, EndsLater DEF FirstMessage, ChunksSeen, Passes
  <2>3. CASE parser.state = "chunk_size_start"
    <3>1. /\ parser'.state = "chunk_size" /\ byte \in DOMAIN HexDigit
          /\ value' = HexDigit[byte]
      BY <2>3 DEF SizeMove, Took
    <3>2. Passed >= 1 /\ pos \in stream.chunks /\ Text[pos - 1] = "LF"
      BY <1>1, <2>3 DEF FirstMessage, ChunksSeen, Passes
    <3>3. stream.hexes[pos] = HexDigit[byte]
      BY <1>1, <3>1, <3>2, HexesAt, BytesApart DEF Passes, Ends
    <3>4. SizeOf(pos, pos)'
      BY <1>1, <3>1, <3>2, <3>3 DEF SizeOf, Passes
    <3>5. QED
      BY <1>1, <2>2, <3>1, <3>4 DEF ChunksSeen
  <2>4. CASE parser.state = "chunk_size"
    <3>1. PICK c \in 1..Passed : SizeOf(c, Passed)
      BY <2>4 DEF FirstMessage, ChunksSeen
    <3>2. c \in 1..pos /\ c \in Nat /\ c <= Passed
      BY <1>1, <3>1 DEF Passes
    <3>. PICK k \in 1..(pos - 1) : k = Passed
      BY <1>1, <3>2 DEF Passes
    <3>3. CASE /\ byte \in DOMAIN HexDigit /\ value' = value * 16 + HexDigit[byte]
               /\ parser'.state = "chunk_size"
      <4>1. Passed \in DOMAIN Text /\ Text[Passed] \in DOMAIN HexDigit
        BY <1>1, <3>1, <3>2 DEF SizeOf, Passes
      <4>2. stream.hexes[pos] = HexDigit[byte] + value * 16
        BY <1>1, <3>1, <3>3, <4>1, HexesAt DEF SizeOf, Passes
      <4>3. HexDigit[byte] \in Int
        BY <3>3, DigitAssumption
      <4>4. value' = stream.hexes[pos]
        BY <1>1, <3>3, <4>2, <4>3
      <4>5. \A i \in c..pos : Text[i] \in DOMAIN HexDigit
        BY <1>1, <3>1, <3>2, <3>3 DEF SizeOf, Passes
      <4>6. SizeOf(c, pos)'
        BY <1>1, <3>1, <3>2, <4>4, <4>5 DEF SizeOf, Passes
      <4>7. QED
        BY <1>1, <2>2, <3>2, <3>3, <4>6 DEF ChunksSeen
    <3>4. CASE value' = value /\ byte = "CR" /\ parser'.state = "chunk_size_almost_done"
      <4>1. Parameters(c, k, pos - 1)'
        <5>1. SizeOf(c, k)'
          BY <3>1, <3>4 DEF SizeOf, Passes
        <5>2. k + 1 = pos /\ Text[k + 1] = "CR"
          <6>1. k + 1 = pos
            BY <1>1 DEF Passes
          <6>2. QED
            BY <3>4, <6>1 DEF Passes
        <5>3. \A i \in (k + 1)..(pos - 1) : Text[i] # "CR"
          BY <1>1, <5>2
        <5>4. QED
          BY <1>1, <5>1, <5>2, <5>3 DEF Parameters, Passes
      <4>2. c \in 1..(pos - 1)
        BY <1>1, <3>2 DEF Passes
      <4>3. QED
        BY <1>1, <2>2, <3>4, <4>1, <4>2 DEF ChunksSeen, Passes
    <3>5. CASE value' = value /\ byte \in {"SEMI", "SP"} /\ parser'.state = "chunk_parameters"
      <4>1. Parameters(c, k, pos)'
        BY <1>1, <3>1, <3>5 DEF Parameters, SizeOf, Passes
      <4>2. c \in 1..(pos - 1)
        BY <1>1, <3>2 DEF Passes
      <4>3. QED
        BY <1>1, <2>2, <3>5, <4>1, <4>2 DEF ChunksSeen, Passes
    <3>6. QED
      BY <2>4, <3>3, <3>4, <3>5 DEF SizeMove, Took
  <2>5. CASE parser.state = "chunk_parameters"
    <3>1. PICK c \in 1..(Passed - 1), k \in 1..(Passed - 1) : Parameters(c, k, Passed)
      BY <2>5 DEF FirstMessage, ChunksSeen
    <3>2. c \in 1..(pos - 1) /\ k \in 1..(pos - 1) /\ Passed = pos - 1 /\ k \in Nat
      BY <1>1, <3>1 DEF Passes
    <3>3. value' = value
      BY <2>5 DEF SizeMove
    <3>4. CASE byte = "CR" /\ parser'.state = "chunk_size_almost_done"
      <4>1. Parameters(c, k, pos - 1)'
        BY <1>1, <3>1, <3>2, <3>3 DEF Parameters, SizeOf, Passes
      <4>2. QED
        BY <1>1, <2>2, <3>2, <3>4, <4>1 DEF ChunksSeen, Passes
    <3>5. CASE byte # "CR" /\ parser'.state = "chunk_parameters"
      <4>1. \A i \in (k + 1)..pos : Text[i] # "CR"
        BY <1>1, <3>1, <3>2, <3>5 DEF Parameters, Passes
      <4>2. Parameters(c, k, pos)'
        BY <1>1, <3>1, <3>2, <3>3, <4>1 DEF Parameters, SizeOf, Passes
      <4>3. QED
        BY <1>1, <2>2, <3>2, <3>5, <4>2 DEF ChunksSeen, Passes
    <3>6. QED
      BY <2>5, <3>4, <3>5 DEF SizeMove, Took
  <2>6. QED
    BY <1>3, <2>3, <2>4, <2>5 DEF SizeMove
<1>4. QED
  BY <1>2, <1>3

\* The line of a chunk has ended with the LF that is looked at.
LEMMA LineOfChunk ==
  ASSUME IInv, Placed, ChunksSeen, Passes, parser.state = "chunk_size_almost_done", byte = "LF"
  PROVE  \E c \in stream.chunks, k \in 1..(pos - 1) :
           /\ SizeLine(stream, c, k, pos)
           /\ stream.hexes[k] = parser.length /\ Text[k] \notin Ends
<1>1. PICK c \in 1..(Passed - 1), k \in 1..(Passed - 1) : Parameters(c, k, Passed - 1)
  BY DEF ChunksSeen
<1>2. Text[Passed] = "CR"
  BY DEF ChunksSeen
<1>3. /\ pos \in Nat /\ Passed = pos - 1 /\ k \in Nat /\ c \in Nat /\ k + 1 < pos
      /\ k \in DOMAIN Text /\ pos \in DOMAIN Text /\ k \in 1..(pos - 1) /\ c <= k
  BY <1>1 DEF Passes, Parameters, SizeOf
<1>4. SizeLine(stream, c, k, pos)
  BY <1>1, <1>2, <1>3 DEF SizeLine, Parameters, SizeOf, Passes, Text
<1>5. parser.length = value
  BY DEF IInv, Bounded, SizeState, Spelled
<1>6. Text[k] \notin Ends
  BY <1>1, <1>3, BytesApart DEF Parameters, SizeOf
<1>7. QED
  BY <1>1, <1>3, <1>4, <1>5, <1>6 DEF Parameters, SizeOf

\* The data of a chunk, and the end of line behind it.
LEMMA ChunksKept ==
  ASSUME IInv, IInv', Placed, ChunksSeen, ChunkMove, Passes
  PROVE  ChunksSeen'
<1>1. /\ stream \in Responses /\ pos \in Nat /\ pos >= 1 /\ pos \in DOMAIN Text
      /\ parser.length \in Int /\ parser'.length \in Int /\ Passed' = pos'
      /\ Passed = pos - 1
  BY DEF Passes, Placed, IInv, Typed, Record
<1>2. parser.state \in ChunkState /\ parser'.state \in ChunkState
  BY DEF ChunkMove, Took, ChunkState
<1>3. EndsInChunks'
  BY <1>2, EndsLater DEF ChunksSeen, Passes
<1>4. CASE /\ parser.state = "chunk_size_almost_done" /\ byte = "LF" /\ parser.length # 0
           /\ parser'.state = "chunk_data" /\ parser'.length = parser.length /\ pos' = pos
  <2>1. PICK c \in stream.chunks, k \in 1..(pos - 1) :
          SizeLine(stream, c, k, pos) /\ stream.hexes[k] = parser.length
    BY <1>4, LineOfChunk
  <2>2. k \in 1..pos /\ pos \in 1..pos
    BY <1>1
  <2>3. \E b \in stream.chunks, m, l \in 1..pos :
          SizeLine(stream, b, m, l) /\ stream.hexes[m] # 0 /\ pos + parser.length = l + stream.hexes[m]
    BY <1>4, <2>1, <2>2
  <2>4. QED
    BY <1>1, <1>3, <1>4, <2>3 DEF ChunksSeen, DataEndsAt, Passes
<1>5. CASE /\ parser.state = "chunk_data" /\ parser'.state = "chunk_data"
           /\ pos' = pos + parser.length - parser'.length - 1
  <2>1. DataEndsAt(Passed + parser.length)
    BY <1>5 DEF ChunksSeen
  <2>2. Passed' + parser'.length = Passed + parser.length
    BY <1>1, <1>5
  <2>3. PICK c \in stream.chunks, k \in 1..Passed, l \in 1..Passed :
          /\ SizeLine(stream, c, k, l) /\ stream.hexes[k] # 0
          /\ Passed + parser.length = l + stream.hexes[k]
    BY <2>1 DEF DataEndsAt
  <2>4. k \in 1..Passed' /\ l \in 1..Passed'
    BY <1>1, <2>3 DEF Passes
  <2>5. DataEndsAt(Passed + parser.length)'
    BY <2>2, <2>3, <2>4 DEF DataEndsAt, Passes
  <2>6. QED
    BY <1>3, <1>5, <2>5 DEF ChunksSeen
<1>6. CASE /\ parser.state = "chunk_data" /\ parser'.state = "chunk_data_almost_done"
           /\ pos' = pos + parser.length - 1
  <2>1. DataEndsAt(Passed + parser.length)
    BY <1>6 DEF ChunksSeen
  <2>2. Passed' = Passed + parser.length
    BY <1>1, <1>6
  <2>3. PICK c \in stream.chunks, k \in 1..Passed, l \in 1..Passed :
          /\ SizeLine(stream, c, k, l) /\ stream.hexes[k] # 0
          /\ Passed + parser.length = l + stream.hexes[k]
    BY <2>1 DEF DataEndsAt
  <2>4. k \in 1..Passed' /\ l \in 1..Passed'
    BY <1>1, <2>3 DEF Passes
  <2>5. DataEndsAt(Passed)'
    BY <2>2, <2>3, <2>4 DEF DataEndsAt, Passes
  <2>6. QED
    BY <1>3, <1>6, <2>5 DEF ChunksSeen
<1>7. CASE /\ parser.state = "chunk_data_almost_done" /\ byte = "CR"
           /\ parser'.state = "chunk_data_done" /\ pos' = pos
  <2>1. PICK c \in stream.chunks, k \in 1..Passed, l \in 1..Passed :
          /\ SizeLine(stream, c, k, l) /\ stream.hexes[k] # 0
          /\ Passed = l + stream.hexes[k]
    BY <1>7 DEF ChunksSeen, DataEndsAt
  <2>2. k \in 1..Passed' /\ l \in 1..Passed' /\ Passed = Passed' - 1
    BY <1>1, <1>7, <2>1
  <2>3. DataEndsAt(Passed - 1)'
    BY <2>1, <2>2 DEF DataEndsAt, Passes
  <2>4. QED
    BY <1>1, <1>3, <1>7, <2>3 DEF ChunksSeen, Passes
<1>8. CASE /\ parser.state = "chunk_data_done" /\ byte = "LF"
           /\ parser'.state = "chunk_size_start" /\ pos' = pos
  <2>1. Text[Passed] = "CR"
    BY <1>8 DEF ChunksSeen
  <2>2. PICK c \in stream.chunks, k \in 1..Passed, l \in 1..Passed :
          /\ SizeLine(stream, c, k, l) /\ stream.hexes[k] # 0
          /\ Passed - 1 = l + stream.hexes[k]
    BY <1>8 DEF ChunksSeen, DataEndsAt
  <2>3. /\ k \in DOMAIN stream.text /\ l \in DOMAIN stream.text /\ c <= k /\ k + 1 < l
        /\ c \in Nat /\ Text[k] \in DOMAIN HexDigit
    <3>1. c \in Nat
      BY <1>1, ChunksAssumption
    <3>2. QED
      BY <2>2, <3>1 DEF SizeLine, Text
  <2>4. stream.hexes[k] \in Nat
    BY <1>1, <2>3, HexesAt DEF Text
  <2>5. pos + 1 = l + stream.hexes[k] + 3 /\ c < pos + 1
    BY <1>1, <2>2, <2>3, <2>4
  <2>6. stream.text[(pos + 1) - 2] = "CR" /\ stream.text[(pos + 1) - 1] = "LF"
    <3>1. (pos + 1) - 2 = Passed /\ (pos + 1) - 1 = pos
      BY <1>1
    <3>2. QED
      BY <1>8, <2>1, <3>1 DEF Passes, Text
  <2>7. ChunkBefore(stream, c, pos + 1)
    BY <2>2, <2>3, <2>5, <2>6 DEF ChunkBefore
  <2>8. pos + 1 \in 1..(Len(stream.text) + 1)
    BY DEF Passes, Text
  <2>9. pos + 1 \in stream.chunks
    BY <1>1, <2>2, <2>5, <2>7, <2>8, ChunksAssumption
  <2>10. QED
    BY <1>1, <1>3, <1>8, <2>9 DEF ChunksSeen, Passes
<1>9. QED
  BY <1>4, <1>5, <1>6, <1>7, <1>8 DEF ChunkMove, Took

\* The chunk of no bytes: headers follow, the empty line after which is the end.
LEMMA TrailersBegin ==
  ASSUME IInv, Placed, ChunksSeen, TrailerMove, Passes
  PROVE  ChunksSeen' /\ LinesSeen' /\ Looks'
<1>1. /\ pos \in Nat /\ Passed' = pos /\ pos' = pos /\ byte = "LF" /\ byte' = NoByte
      /\ parser.state = "chunk_size_almost_done" /\ parser.length = 0
      /\ parser'.state = "header_field_start" /\ Trailing'
  BY DEF Passes, TrailerMove, Took
<1>2. PICK c \in stream.chunks, k \in 1..(pos - 1) :
        SizeLine(stream, c, k, pos) /\ stream.hexes[k] = 0 /\ Text[k] \notin Ends
  BY <1>1, LineOfChunk
<1>3. EndsInChunks'
  BY <1>1, EndsLater DEF ChunksSeen, Passes, ChunkState
<1>4. ChunksSeen'
  BY <1>1, <1>3 DEF ChunksSeen
<1>5. k \in 1..pos /\ pos \in 1..pos /\ \A e \in HeadEnds(Text) : pos < e => e > pos
  BY <1>1 DEF HeadEnds, Passes
<1>6. LastLine(pos)
  BY <1>2, <1>5 DEF LastLine
<1>7. LinesSeen'
  BY <1>1, <1>5, <1>6 DEF LinesSeen, NewLine, EmptyLine, LastLine, Passes
<1>8. Looks'
  BY <1>1, <1>2, <1>5 DEF Looks, Passes
<1>9. QED
  BY <1>4, <1>7, <1>8

\* The empty line after the trailers is the end of the chunks.
LEMMA TrailersEnd ==
  ASSUME Placed, Looks, LinesSeen, ChunksSeen, Reads, Trailing,
         parser.state = "headers_almost_done", byte = "LF"
  PROVE  pos >= stream.whole
<1>1. /\ parser.state \in HeadPart /\ parser.state \in EmptyLine
      /\ Passed = pos - 1 /\ pos \in Nat /\ stream.whole \in Int
  BY WholeIsPlace DEF HeadPart, FieldState, EmptyLine, Reads, Passed
<1>2. PICK s \in 1..(pos - 1) : Text[s] \notin Ends
  BY <1>1 DEF Looks
<1>3. \/ Text[pos - 1] = "CR" /\ LineStart(Text, pos - 1)
      \/ Text[pos - 1] = "LF" /\ LineStart(Text, pos)
  BY <1>1, <1>2 DEF LinesSeen, LineStart
<1>4. pos \in HeadEnds(Text)
  BY <1>3 DEF HeadEnds, Reads
<1>5. PICK l \in 1..Passed : LastLine(l) /\ \A e \in HeadEnds(Text) : l < e => e > Passed
  BY <1>1 DEF LinesSeen
<1>6. PICK c \in stream.chunks, k \in 1..l : SizeLine(stream, c, k, l) /\ stream.hexes[k] = 0
  BY <1>5 DEF LastLine
<1>7. k \in 1..(pos - 1) /\ l \in 1..(pos - 1)
  BY <1>1
<1>8. \A f \in HeadEnds(Text) : l < f => pos <= f
  BY <1>1, <1>5 DEF HeadEnds, Reads
<1>9. pos \in LastEnds(stream)
  BY <1>4, <1>6, <1>7, <1>8 DEF LastEnds, Text
<1>10. EndsInChunks
  BY <1>1 DEF ChunksSeen
<1>11. QED
  BY <1>1, <1>9, <1>10 DEF EndsInChunks
-----------------------------------------------------------------------------
(* All steps.                                                              *)

LEMMA FirstReads ==
  ASSUME Placed, Looks, parser.state # "message_done", byte # NoByte,
         pos' = pos, UNCHANGED stream
  PROVE  Reads
<1>1. DOMAIN Text = 1..Len(Text) /\ Len(Text) \in Nat
  BY PlacesOfStream DEF Placed, Text
<1>2. pos \in 1..Len(Text)
  BY DEF Looks, Placed, Text
<1>3. QED
  BY <1>1, <1>2 DEF Reads, Looks

\* FirstMessage is kept: in the head, in the body, and between steps of the parser.
LEMMA HeadKept ==
  ASSUME IInv, Placed, FirstMessage, UNCHANGED stream, byte # NoByte, HeadMove, pos' = pos,
         parser.state = "start_res" \/ CodingMove
  PROVE  FirstMessage'
<1> USE DEF FirstMessage
<1>1. /\ parser.state \in HeadPart \cup {"start_res"}
      /\ parser'.state \in HeadPart \cup {"start_res"}
      /\ parser'.state \in HeadPart => (Trailing' <=> parser.state # "start_res" /\ Trailing)
      /\ byte' \in {byte, NoByte}
  BY HeadMoveStates
<1>2. /\ parser.state # "message_done" /\ stream \in Responses /\ value \in Nat
      /\ HeadPart \cap (ChunkState \cup {"start_res", "body_identity", "message_done"}) = {}
  BY <1>1 DEF HeadPart, FieldState, DiscardState, ValueState, ChunkState, Placed, IInv, Typed
<1>3. Reads
  BY <1>2, FirstReads
<1>4. KindSeen' /\ Looks'
  BY <1>3, KindKept, LooksKept
<1>5. LinesSeen'
  <2>1. CASE parser'.state \in HeadPart
    BY <1>3, <2>1, LinesKept
  <2>2. CASE parser'.state \notin HeadPart
    BY <2>2 DEF LinesSeen
  <2>3. QED
    BY <2>1, <2>2
<1>6. NamesSeen'
  <2>1. CASE InHeaders'
    BY <1>2, <1>3, <2>1, NamesKept
  <2>2. QED
    BY <2>1 DEF NamesSeen
<1>7. LengthSeen'
  BY <1>2, <1>3, <1>5, LengthKept
<1>8. OneLength'
  <2>1. CASE InHeaders'
    BY <1>2, <1>3, <1>6, <2>1, OneLengthKept
  <2>2. QED
    BY <2>1 DEF OneLength
<1>9. CodingsSeen'
  BY <1>2, <1>3, CodingsKept
<1>10. ChunksSeen'
  <2>1. Passed \in Int /\ Passed' \in Int /\ Passed' >= Passed
    BY <1>1, <1>3, PassedMoves DEF Reads
  <2>2. parser'.state \in HeadPart /\ Trailing' => EndsInChunks
    BY <1>1 DEF ChunksSeen
  <2>3. parser'.state \in HeadPart /\ Trailing' => EndsInChunks'
    BY <2>1, <2>2, EndsLater
  <2>4. parser'.state \notin ChunkState
    BY <1>1, <1>2 DEF ChunkState
  <2>5. QED
    BY <2>3, <2>4 DEF ChunksSeen, ChunkState
<1>11. BodyLeft'
  BY <1>1, <1>2 DEF BodyLeft
<1>12. QED
  BY <1>4, <1>5, <1>6, <1>7, <1>8, <1>9, <1>10, <1>11

\* The states of the head, of the chunks, and of other bodies.
LEMMA PartsApart ==
  /\ HeadPart \cap (ChunkState \cup {"start_res", "body_identity", "body_identity_eof",
       "message_done"}) = {}
  /\ ChunkState \cap {"start_res", "headers_done", "header_value_start", "body_identity",
       "body_identity_eof", "message_done"} = {}
BY DEF HeadPart, FieldState, DiscardState, ValueState, ChunkState

LEMMA BodyKept ==
  ASSUME IInv, Placed, FirstMessage, UNCHANGED stream, byte # NoByte, BodyMove,
         pos' \in Nat, pos' >= pos, parser.errno = "OK", parser' \in Record
  PROVE  FirstMessage'
<1> USE DEF FirstMessage
<1>1. /\ parser.state # "message_done"
      /\ parser'.state \in {"body_identity", "body_identity_eof", "message_done"}
      /\ parser'.state # "message_done" => byte' = NoByte
      /\ parser'.state = "message_done" => byte' = byte
  BY DEF BodyMove, Took, Left
<1>2. KindSeen'
  BY KindKept
<1>3. Passed = pos - 1 /\ pos \in Nat /\ pos > 0
  BY DEF Passed, Placed, Looks
<1>4. Looks'
  BY <1>1, <1>3, PartsApart DEF Looks
<1>5. LinesSeen' /\ NamesSeen' /\ OneLength' /\ LengthSeen' /\ CodingsSeen' /\ ChunksSeen'
  <2>1. parser'.state \notin HeadPart \cup {"start_res"} \cup ChunkState
    BY <1>1, PartsApart
  <2>2. QED
    BY <2>1 DEF LinesSeen, NamesSeen, OneLength, LengthSeen, CodingsSeen, ChunksSeen, InHeaders,
         ChunkState
<1>6. parser.length \in Int /\ parser'.length \in Int
  BY DEF IInv, Typed, Record
<1>7. parser'.state = "body_identity" => Passed' + parser'.length >= stream.whole
  <2>1. SUFFICES ASSUME parser'.state = "body_identity"
                 PROVE  Passed' + parser'.length >= stream.whole
    OBVIOUS
  <2>2. Passed' = pos'
    BY <1>1, <2>1 DEF Passed
  <2>3. CASE parser.state = "headers_done"
    <3>1. pos' = pos /\ parser'.length = parser.length /\ ~parser.usesTE
          /\ parser.length # MaxLength
      BY <2>1, <2>3 DEF BodyMove, Took, Left
    <3>2. Reads /\ stream \in Responses
      BY <2>3, <3>1, FirstReads DEF Placed
    <3>3. pos + parser.length >= stream.whole
      BY <2>3, <3>1, <3>2, WholeAtHead
    <3>4. QED
      BY <2>2, <3>1, <3>3
  <2>4. CASE parser.state = "body_identity"
    <3>1. pos' = pos + parser.length - parser'.length - 1
      BY <2>1, <2>4 DEF BodyMove, Took, Left
    <3>2. pos' + parser'.length = Passed + parser.length
      BY <1>3, <1>6, <3>1
    <3>3. Passed + parser.length >= stream.whole
      BY <2>4 DEF BodyLeft
    <3>4. QED
      BY <2>2, <3>2, <3>3
  <2>5. QED
    BY <1>1, <2>1, <2>3, <2>4 DEF BodyMove, Took, Left
<1>8. parser'.state = "message_done" => pos' >= stream.whole
  <2>1. SUFFICES ASSUME parser'.state = "message_done" PROVE pos' >= stream.whole
    OBVIOUS
  <2>2. CASE parser.state = "body_identity" /\ pos' = pos + parser.length - 1
    <3>1. pos' = Passed + parser.length
      BY <1>3, <1>6, <2>2
    <3>2. QED
      BY <2>2, <3>1 DEF BodyLeft
  <2>3. CASE parser.state = "headers_almost_done" /\ byte = "LF" /\ Trailing /\ pos' = pos
    <3>1. Reads
      BY <1>1, <2>3, FirstReads
    <3>2. QED
      BY <2>3, <3>1, TrailersEnd
  <2>4. QED
    BY <2>1, <2>2, <2>3 DEF BodyMove, Took, Left
<1>9. BodyLeft'
  BY <1>7, <1>8 DEF BodyLeft
<1>10. QED
  BY <1>2, <1>4, <1>5, <1>9

LEMMA ChunkKept ==
  ASSUME IInv, IInv', Placed, FirstMessage, UNCHANGED stream, byte # NoByte,
         SizeMove \/ ChunkMove \/ TrailerMove,
         pos' \in Nat, pos' >= pos, parser.errno = "OK"
  PROVE  FirstMessage'
<1> USE DEF FirstMessage
<1>1. parser.state # "message_done" /\ byte' = NoByte
  BY DEF SizeMove, ChunkMove, TrailerMove, Took
<1>2. Passes
  BY <1>1, LooksAndPasses
<1>3. KindSeen'
  BY KindKept
<1>4. CASE SizeMove \/ ChunkMove
  <2>1. parser'.state \in ChunkState
    BY <1>4 DEF SizeMove, ChunkMove, Took, ChunkState
  <2>2. /\ parser'.state \notin HeadPart \cup {"start_res", "headers_done", "header_value_start"}
        /\ parser'.state \notin {"body_identity", "message_done"}
    BY <2>1, PartsApart
  <2>3. ChunksSeen'
    BY <1>2, <1>4, SizesKept, ChunksKept
  <2>4. LinesSeen' /\ NamesSeen' /\ OneLength' /\ LengthSeen' /\ CodingsSeen'
    BY <2>2 DEF LinesSeen, NamesSeen, OneLength, LengthSeen, CodingsSeen, InHeaders
  <2>5. Looks' /\ BodyLeft'
    BY <1>1, <2>2 DEF Looks, BodyLeft
  <2>6. QED
    BY <1>3, <2>3, <2>4, <2>5
<1>5. CASE TrailerMove
  <2>1. ChunksSeen' /\ LinesSeen' /\ Looks'
    BY <1>2, <1>5, TrailersBegin
  <2>2. parser'.state = "header_field_start" /\ Trailing'
    BY <1>5 DEF TrailerMove, Took
  <2>3. NamesSeen' /\ OneLength' /\ LengthSeen' /\ CodingsSeen' /\ BodyLeft'
    BY <2>2 DEF NamesSeen, OneLength, LengthSeen, CodingsSeen, BodyLeft, InHeaders
  <2>4. QED
    BY <1>3, <2>1, <2>3
<1>6. QED
  BY <1>4, <1>5

\* The parser is given the next byte, which it has not looked at.
LEMMA FedKept ==
  ASSUME Placed, FirstMessage, UNCHANGED <<stream, parser, value>>, byte = NoByte,
         pos < Len(Text), byte' = Text[pos + 1], pos' = pos + 1
  PROVE  FirstMessage'
<1> USE DEF FirstMessage
<1>1. /\ byte' \in Byte /\ byte' # NoByte
  <2>1. pos + 1 \in 1..Len(Text)
    BY DEF Placed, Text
  <2>2. Text[pos + 1] \in Byte
    BY <2>1, PlacesOfStream DEF Text
  <2>3. QED
    BY <2>2, ByteIsByte
<1>2. /\ pos \in Nat /\ Passed = pos /\ Passed' = pos /\ Text' = Text
  BY <1>1 DEF Placed, Passed, Text
<1>3. parser.state \notin {"headers_done", "message_done", "header_value_start"}
  BY DEF Looks
<1>4. KindSeen' /\ (Trailing' <=> Trailing) /\ (InHeaders' <=> InHeaders)
  BY DEF KindSeen, InHeaders, Trailing
<1>5. Looks'
  BY <1>1, <1>2, <1>3 DEF Looks
<1>6. LinesSeen'
  BY <1>2, <1>3, <1>4, BytesApart DEF LinesSeen, LastLine, NoByte
<1>7. NamesSeen' /\ OneLength'
  BY <1>2, <1>4 DEF NamesSeen, NameOf, OneLength, HasLength
<1>8. LengthSeen'
  BY <1>2, <1>4 DEF LengthSeen, HasLength, InNumber
<1>9. CodingsSeen'
  <2>1. SaidChunked(pos) => SaidChunked(pos)'
    BY <1>2 DEF SaidChunked
  <2>2. SaidChunked(Passed) <=> SaidChunked(Passed)'
    BY <1>2 DEF SaidChunked
  <2>3. QED
    BY <1>2, <1>4, <2>1, <2>2 DEF CodingsSeen, HasChunks
<1>10. ChunksSeen'
  BY <1>2, <1>4 DEF ChunksSeen, EndsInChunks, SizeOf, Parameters, DataEndsAt
<1>11. BodyLeft'
  BY <1>2, <1>3 DEF BodyLeft
<1>12. QED
  BY <1>4, <1>5, <1>6, <1>7, <1>8, <1>9, <1>10, <1>11

LEMMA IdleKept ==
  ASSUME FirstMessage, UNCHANGED <<stream, parser, value, byte, pos>>
  PROVE  FirstMessage'
<1>1. /\ Passed' = Passed /\ Text' = Text
      /\ (Trailing' <=> Trailing) /\ (InHeaders' <=> InHeaders)
  BY DEF Passed, Text, Trailing, InHeaders
<1>2. KindSeen' /\ Looks' /\ LinesSeen' /\ BodyLeft'
  BY <1>1 DEF FirstMessage, KindSeen, Looks, LinesSeen, LastLine, BodyLeft
<1>3. NamesSeen' /\ OneLength' /\ LengthSeen'
  BY <1>1 DEF FirstMessage, NamesSeen, NameOf, OneLength, LengthSeen, HasLength, InNumber
<1>4. CodingsSeen' /\ ChunksSeen'
  BY <1>1 DEF FirstMessage, CodingsSeen, SaidChunked, HasChunks, ChunksSeen, EndsInChunks,
     SizeOf, Parameters, DataEndsAt
<1>5. QED
  BY <1>2, <1>3, <1>4 DEF FirstMessage

\* A message has begun in these states, and is not complete.
LEMMA PhaseOfPart ==
  ASSUME IInv', parser'.errno = "OK", parser'.state \in HeadPart \cup BodyState \cup ChunkState
  PROVE  phase' # "idle"
<1>1. PhaseFits'
  BY DEF IInv, Running
<1>2. QED
  BY <1>1 DEF PhaseFits, LineState, HeadPart

\* A step of the parser within the first message either goes on with it, or
\* ends it when the whole of it has been given.
LEMMA FirstSteps ==
  ASSUME IInv, IInv', PageInv, Placed, FirstMessage, Parses, parser'.errno = "OK"
  PROVE  \/ FirstMessage' /\ (phase = "idle" \/ phase' # "idle")
         \/ pos' >= stream.whole /\ phase # "idle" /\ phase' = "idle"
<1>1. /\ StartLineNext \/ HeaderNext \/ BodyNext
      /\ AsSent /\ pos' = pos + Bulk /\ UNCHANGED stream
  BY DEF Parses
<1>2. inCall /\ parser.errno = "OK"
  BY <1>1, ParserInCall DEF IInv, CallFits
<1>3. byte # NoByte
  BY <1>1, ParserInCall
<1>4. pos' \in Nat /\ pos' >= pos /\ parser \in Record /\ parser' \in Record
  BY <1>1, BulkForward DEF Placed, IInv, Typed
<1>5. CASE HeadMove /\ pos' = pos /\ (parser.state = "start_res" \/ CodingMove)
  <2>1. FirstMessage'
    BY <1>1, <1>3, <1>5, HeadKept
  <2>2. /\ parser.state \in HeadPart \cup {"start_res"}
        /\ parser'.state \in HeadPart \cup {"start_res"}
        /\ parser'.state = "start_res" => parser.state = "start_res"
    BY <1>5, HeadMoveStates
  <2>3. parser.state = "start_res" => phase = "idle"
    BY <1>2 DEF IInv, Running, PhaseFits, IdleState
  <2>4. parser'.state \in HeadPart => phase' # "idle"
    BY PhaseOfPart
  <2>5. QED
    BY <2>1, <2>2, <2>3, <2>4
<1>6. CASE BodyMove
  <2>1. FirstMessage'
    BY <1>1, <1>2, <1>3, <1>4, <1>6, BodyKept
  <2>2. parser'.state \in BodyState
    BY <1>6 DEF BodyMove, Took, Left, BodyState
  <2>3. QED
    BY <2>1, <2>2, PhaseOfPart
<1>7. CASE SizeMove \/ ChunkMove \/ TrailerMove
  <2>1. FirstMessage'
    BY <1>1, <1>2, <1>3, <1>4, <1>7, ChunkKept
  <2>2. parser'.state \in ChunkState \cup HeadPart
    BY <1>7 DEF SizeMove, ChunkMove, TrailerMove, Took, ChunkState, HeadPart, FieldState
  <2>3. QED
    BY <2>1, <2>2, PhaseOfPart
<1>8. CASE EndMove
  <2>1. phase # "idle"
    BY <1>2, <1>8 DEF EndMove, IInv, Running, PhaseFits, BodyState
  <2>2. pos' >= stream.whole
    <3>1. CASE parser.state = "headers_done" /\ Bodyless(parser)
      <4>1. Reads /\ stream \in Responses /\ pos' = pos
        BY <1>1, <1>3, <1>8, <3>1, FirstReads DEF FirstMessage, Placed, EndMove
      <4>2. pos >= stream.whole
        BY <1>2, <3>1, <4>1, WholeAtHead DEF FirstMessage
      <4>3. QED
        BY <4>1, <4>2
    <3>2. CASE parser.state = "message_done"
      BY <1>8, <3>2 DEF EndMove, FirstMessage, BodyLeft
    <3>3. QED
      BY <1>8, <3>1, <3>2 DEF EndMove
  <2>3. QED
    BY <1>8, <2>1, <2>2 DEF EndMove
<1>9. QED
  BY <1>1, <1>5, <1>6, <1>8, <1>7, FirstMoves DEF FirstMessage

LEMMA InitPageCovered == ReceiverInit => PageCovered
<1>1. SUFFICES ASSUME ReceiverInit PROVE PageCovered
  OBVIOUS
<1>2. /\ parser.state = "start_res" /\ parser.type = "response" /\ parser.flags = {}
      /\ parser.header = "general" /\ ~parser.connect /\ ~parser.upgrade
      /\ byte = NoByte /\ ~inCall /\ pos = 0 /\ ~page.fully_loaded /\ outcome = "none"
  BY <1>1 DEF ReceiverInit, Init, Fresh, StartState
<1>3. "start_res" \notin HeadPart
  BY DEF HeadPart, FieldState, DiscardState, ValueState
<1>4. KindSeen
  BY <1>2, <1>3 DEF KindSeen, FirstState
<1>5. Looks
  BY <1>2, <1>3 DEF Looks, Passed
<1>6. LinesSeen /\ NamesSeen /\ OneLength /\ LengthSeen /\ CodingsSeen /\ ChunksSeen /\ BodyLeft
  BY <1>2, <1>3 DEF LinesSeen, NamesSeen, OneLength, LengthSeen, CodingsSeen, ChunksSeen,
     ChunkState, BodyLeft, InHeaders
<1>7. QED
  BY <1>2, <1>4, <1>5, <1>6 DEF PageCovered, FirstMessage

LEMMA NextPageCovered ==
  ASSUME IInv, IInv', PageInv, Placed, PageCovered, [ReceiverNext]_allVars
  PROVE  PageCovered'
<1>1. page.fully_loaded \in BOOLEAN /\ pos \in Nat
  BY DEF PageInv, Shape, Placed
<1>2. stream.whole \in Int
  BY WholeIsPlace
<1>3. ASSUME NEW c, pos' = pos + 1, UNCHANGED <<stream, parser, value, outcome>>,
             page'.fully_loaded = page.fully_loaded, byte = NoByte, pos < Len(Text),
             c = Text[pos + 1], byte' = c, outcome # "eof"
      PROVE  PageCovered'
  <2>1. page'.fully_loaded => pos' >= stream'.whole
    <3>1. page.fully_loaded => pos >= stream.whole
      BY <1>3 DEF PageCovered
    <3>2. QED
      BY <1>1, <1>2, <1>3, <3>1
  <2>2. ~page'.fully_loaded /\ parser'.errno = "OK" => FirstMessage'
    BY <1>3, FedKept DEF PageCovered
  <2>3. QED
    BY <1>3, <2>1, <2>2 DEF PageCovered
<1>4. ASSUME NEW upto \in DOMAIN stream.text, Receive(upto) PROVE PageCovered'
  <2>1. /\ ~inCall /\ outcome # "eof" /\ recved < upto /\ pos' = pos + 1
        /\ byte' = stream.text[pos + 1]
        /\ UNCHANGED <<stream, parser, value, outcome>>
    BY <1>4 DEF Receive, Call, Loading, history
  <2>2. page'.fully_loaded = page.fully_loaded
    BY <1>4 DEF Receive, AppendCache, PageInv, Shape
  <2>3. byte = NoByte
    BY <2>1 DEF IInv, CallFits
  <2>4. pos < Len(Text)
    BY <1>1, <1>4, <2>1, PlacesOfStream DEF Placed, Text
  <2>5. QED
    BY <1>3, <2>1, <2>2, <2>3, <2>4 DEF Text
<1>5. CASE MoreData
  <2>1. /\ inCall /\ byte = NoByte /\ pos < recved /\ pos' = pos + 1
        /\ byte' = stream.text[pos + 1]
        /\ UNCHANGED <<stream, parser, value, outcome, page>>
    BY <1>5 DEF MoreData, NextByte, history
  <2>2. outcome # "eof" /\ pos < Len(Text)
    BY <2>1 DEF PageCovered, Placed, Text
  <2>3. QED
    BY <1>3, <2>1, <2>2 DEF Text
<1>6. CASE ReceiveNothing
  BY <1>6 DEF ReceiveNothing, Loading, vars, PageCovered
<1>7. ASSUME UNCHANGED <<stream, parser, value, byte, pos, page>>, outcome # "eof",
             outcome' # "eof"
      PROVE  PageCovered'
  BY <1>7, IdleKept DEF PageCovered
<1>8. CASE ReceiveFails
  BY <1>7, <1>8 DEF ReceiveFails, Loading, vars, history
<1>9. CASE DataEnds
  <2>1. inCall /\ UNCHANGED <<stream, parser, value, byte, pos, page>> /\ outcome' = "more"
    BY <1>9 DEF DataEnds, EndOfData, Sends
  <2>2. QED
    BY <1>7, <2>1 DEF PageCovered
<1>10. CASE Done \/ UNCHANGED allVars
  <2>1. UNCHANGED <<stream, parser, value, byte, pos, page, outcome, inCall>>
    BY <1>10 DEF Done, allVars, vars, history, receiverVars
  <2>2. QED
    BY <2>1, IdleKept DEF PageCovered
<1>11. CASE Parses
  <2>1. /\ StartLineNext \/ HeaderNext \/ BodyNext
        /\ pos' = pos + Bulk /\ UNCHANGED stream
        /\ outcome' \in {outcome, "unparsed", "more"}
    BY <1>11 DEF Parses, Sends
  <2>2. inCall /\ parser.errno = "OK" /\ page.exists /\ outcome # "eof" /\ outcome' # "eof"
    BY <2>1, ParserInCall DEF IInv, CallFits, PageInv, Stored, PageCovered
  <2>3. pos' \in Nat /\ pos' >= pos
    BY <1>1, <2>1, BulkForward
  <2>4. \/ parser'.errno # "OK" /\ page' = page
        \/ parser'.errno = "OK" /\ page' = MessageComplete
    BY <1>11 DEF Parses
  <2>5. CASE page.fully_loaded
    <3>1. page'.fully_loaded /\ pos' >= stream'.whole
      <4>1. page'.fully_loaded
        BY <2>2, <2>4, <2>5, CompletedPage DEF PageInv
      <4>2. pos >= stream.whole
        BY <2>2, <2>5 DEF PageCovered
      <4>3. QED
        BY <1>1, <1>2, <2>1, <2>3, <4>1, <4>2
    <3>2. QED
      BY <2>2, <3>1 DEF PageCovered
  <2>6. CASE ~page.fully_loaded /\ parser'.errno # "OK"
    BY <2>2, <2>4, <2>6 DEF PageCovered
  <2>7. CASE ~page.fully_loaded /\ parser'.errno = "OK"
    <3>1. \/ FirstMessage' /\ (phase = "idle" \/ phase' # "idle")
          \/ pos' >= stream.whole /\ phase # "idle" /\ phase' = "idle"
      BY <1>11, <2>2, <2>7, FirstSteps DEF PageCovered
    <3>2. CASE FirstMessage' /\ (phase = "idle" \/ phase' # "idle")
      <4>1. page' = page
        BY <2>4, <2>7, <3>2 DEF MessageComplete
      <4>2. QED
        BY <2>2, <2>7, <3>2, <4>1 DEF PageCovered
    <3>3. CASE pos' >= stream.whole /\ phase # "idle" /\ phase' = "idle"
      <4>1. page'.fully_loaded
        BY <2>2, <2>4, <2>7, <3>3, CompletedPage DEF PageInv
      <4>2. QED
        BY <2>1, <2>2, <3>3, <4>1 DEF PageCovered
    <3>4. QED
      BY <3>1, <3>2, <3>3
  <2>8. QED
    BY <1>1, <2>5, <2>6, <2>7
<1>12. QED
  BY <1>4, <1>5, <1>6, <1>8, <1>9, <1>10, <1>11 DEF ReceiverNext

\* All that is known of the handler and its parser, in every state.
LEMMA Invariants == ReceiverSpec => [](Placed /\ PageInv /\ Delivery /\ PageCovered)
<1>1. PageInv /\ [ReceiverNext]_allVars => PageInv'
  BY NextPageInv
<1>2. RunInv /\ PageInv /\ Delivery /\ [ReceiverNext]_allVars => Delivery'
  BY NextDelivery DEF RunInv
<1>3. RunInv /\ RunInv' /\ PageInv /\ PageCovered /\ [ReceiverNext]_allVars => PageCovered'
  BY NextPageCovered DEF RunInv
<1>4. RunInv => Placed
  BY DEF RunInv
<1>5. ReceiverInit => PageCovered
  BY InitPageCovered
<1>6. QED
  BY <1>1, <1>2, <1>3, <1>4, <1>5, InitPageInv, InitDelivery, RunInvariance, PTL
     DEF ReceiverSpec

\* A page that the end of a message has marked as complete has the whole of it,
\* the body that its length announces with it, or all of its chunks and what
\* follows the last, wherever recv() has cut it (messageCompleteCallback,
\* SocketHandler.cpp:108-112; the page is stored before it is parsed, 168-181).
THEOREM CompletePagesAreWhole == ReceiverSpec => []CompletePageIsWhole
<1>1. Placed /\ PageInv /\ Delivery /\ PageCovered => CompletePageIsWhole
  <2>1. SUFFICES ASSUME Placed, Delivery, PageCovered, page.fully_loaded, outcome # "eof",
                        type = "LOAD_CASHING"
                 PROVE  page.size >= stream.whole
    BY DEF CompletePageIsWhole
  <2>2. pos >= stream.whole /\ page.size = recved /\ pos \in Nat /\ recved \in Nat
        /\ pos <= recved
    BY <2>1 DEF PageCovered, Delivery, Placed
  <2>3. stream.whole \in Int
    BY <2>1, WholeIsPlace
  <2>4. QED
    BY <2>2, <2>3
<1>2. QED
  BY <1>1, Invariants, PTL

\* The client gets no more than was received, nor than the page while there is
\* memory; and a handler that has ended a response has sent all of it, also when
\* memory has ended on the way (receiveAndParseResponse and sendResponseChunk,
\* SocketHandler.cpp:168-205, 282-294).
THEOREM ClientsGetThePage == ReceiverSpec => []ClientGotThePage
<1>1. Placed /\ PageInv /\ Delivery /\ PageCovered => ClientGotThePage
  <2>1. SUFFICES ASSUME Placed, PageInv, Delivery, PageCovered PROVE ClientGotThePage
    OBVIOUS
  <2>2. sent <= recved /\ (type = "LOAD_CASHING" => sent <= page.size)
    BY <2>1 DEF Placed, Delivery
  <2>3. ASSUME resp.sent, resp.ready PROVE sent = recved /\ sent >= stream.whole
    <3>1. sent = recved /\ page.fully_loaded /\ outcome # "eof"
      BY <2>1, <2>3 DEF Delivery, PageInv, ReadyLeavesCompletePage
    <3>2. pos >= stream.whole /\ pos \in Nat /\ recved \in Nat /\ pos <= recved
      BY <2>1, <3>1 DEF PageCovered, Placed
    <3>3. stream.whole \in Int
      BY <2>1, WholeIsPlace
    <3>4. QED
      BY <3>1, <3>2, <3>3
  <2>4. QED
    BY <2>2, <2>3 DEF ClientGotThePage
<1>2. QED
  BY <1>1, Invariants, PTL
=============================================================================
