---------------------------- MODULE ResponseReceiver ---------------------------
(***************************************************************************)
(* How a SocketHandler that loads takes in a response:                     *)
(* receiveAndParseResponse, called for every recv() until resp_ready.      *)
(* What was received goes to the page first, then through HttpParser, whose *)
(* message_complete marks the page as complete in the middle of it, and    *)
(* then to the client.                                                     *)
(*                                                                         *)
(* What Proxy leaves open, where in the data of a recv() a message ends, is *)
(* here the parser's doing.  The page is the only one; a page and what the *)
(* client was sent are prefixes of what the server sends, and counted.     *)
(***************************************************************************)
EXTENDS HttpParser, Sequences

\* What servers send, and what is in it: text is the bytes; status, and head,
\* say what response it is, and closes that the server closes the connection
\* behind it; whole is where it ends.  names, codings and words are as ReadsAs
\* has them; numbers, hexes and chunks are what its digits spell, below.
CONSTANT Responses

ASSUME ResponsesAssumption == \A r \in Responses : r.text \in Seq(Byte)

\* A line after the first of a response starts at i; empty lines before it are
\* not a part of it.
LineStart(t, i) == i > 1 /\ t[i - 1] = "LF" /\ \E s \in 1..(i - 1) : t[s] \notin Ends

\* Where an empty line ends, the first of which ends the headers.
HeadEnds(t) ==
  {e \in DOMAIN t : /\ t[e] = "LF"
                    /\ LineStart(t, e) \/ (LineStart(t, e - 1) /\ t[e - 1] = "CR")}

HeadEnd(t) == CHOOSE e \in HeadEnds(t) : \A f \in HeadEnds(t) : e <= f

\* Where the colon after the name of a header may be.
NameEnds(t) ==
  {c \in DOMAIN t :
     /\ t[c] = "COLON"
     /\ \E l \in 1..(c - 1) : LineStart(t, l) /\ \A i \in l..(c - 1) : t[i] \in Token}

\* Those of the headers of the response itself, before its body, which are
\* lengths, and which begin with transfer-encoding.
InHead(r, c) == \A e \in HeadEnds(r.text) : c < e

HeadLengths(r) == {c \in DOMAIN r.names : r.names[c] = "content_length" /\ InHead(r, c)}

HeadCodings(r) == {c \in r.codings : InHead(r, c)}

\* The digits from i on are the first thing after the colon at c.
DigitsFrom(t, c, i, j) ==
  /\ \A k \in (c + 1)..(i - 1) : t[k] \in Blank \cup Ends
  /\ \A k \in i..j : t[k] \in DOMAIN Digit

\* Where the number of a content-length header ends.
NumberEnds(r) ==
  {j \in DOMAIN r.text :
     /\ \E c \in HeadLengths(r) : \E i \in (c + 1)..j : DigitsFrom(r.text, c, i, j)
     /\ j < Len(r.text) => r.text[j + 1] \notin DOMAIN Digit}

\* A value ends at j in the word chunked, the last byte of which is at k.
SaysChunked(r, k, j) ==
  /\ k \in DOMAIN r.words /\ r.words[k] = "te_chunked"
  /\ j \in DOMAIN r.text /\ k < j /\ r.text[j] \in Ends
  /\ \A i \in (k + 1)..(j - 1) : r.text[i] = "SP"

\* The body comes in chunks.
Chunks(r) ==
  /\ r.status = "plain" /\ ~r.head /\ HeadCodings(r) # {}
  /\ \E k, j \in DOMAIN r.text : SaysChunked(r, k, j) /\ InHead(r, j)

\* The line of a chunk: its size from c to k, what else it says, and LF at l.
SizeLine(r, c, k, l) ==
  /\ {k, l} \subseteq DOMAIN r.text /\ c <= k /\ k + 1 < l
  /\ \A i \in c..k : r.text[i] \in DOMAIN HexDigit
  /\ r.text[k + 1] \in {"CR", "SEMI", "SP"}
  /\ \A i \in (k + 1)..(l - 2) : r.text[i] # "CR"
  /\ r.text[l - 1] = "CR" /\ r.text[l] = "LF"

\* The data of the chunk whose line begins at c, and an end of line, lie before d.
ChunkBefore(r, c, d) ==
  /\ \E k, l \in DOMAIN r.text :
       SizeLine(r, c, k, l) /\ r.hexes[k] # 0 /\ d = l + r.hexes[k] + 3
  /\ r.text[d - 2] = "CR" /\ r.text[d - 1] = "LF"

\* Where the empty line ends that comes first after the chunk of no bytes.
LastEnds(r) ==
  {e \in HeadEnds(r.text) :
     \E c \in r.chunks : \E k, l \in 1..(e - 1) :
       /\ SizeLine(r, c, k, l) /\ r.hexes[k] = 0
       /\ \A f \in HeadEnds(r.text) : l < f => e <= f}

\* What of a response is a message: its headers end, have one length at most,
\* which is a number, and none beside a coding; and so do its chunks.
Framed(r) ==
  /\ HeadEnds(r.text) # {}
  /\ \A c, d \in HeadLengths(r) : c = d
  /\ HeadLengths(r) # {} => NumberEnds(r) # {} /\ HeadCodings(r) = {}
  /\ Chunks(r) => LastEnds(r) # {}

\* Names are of headers; one that is transfer-encoding begins with it.
ASSUME NamesAssumption ==
  \A r \in Responses :
    /\ DOMAIN r.names \cup r.codings \subseteq NameEnds(r.text)
    /\ \A c \in DOMAIN r.names : r.names[c] = "transfer_encoding" <=> c \in r.codings

\* What the digits up to i spell, by what those up to i - 1 do.
Spelling(t, digit, base, spelled) ==
  /\ DOMAIN spelled = {i \in DOMAIN t : t[i] \in DOMAIN digit}
  /\ \A i \in DOMAIN spelled :
       /\ spelled[i] \in Nat
       /\ spelled[i] = digit[t[i]] +
            IF i - 1 \in DOMAIN spelled THEN spelled[i - 1] * base ELSE 0

ASSUME NumbersAssumption ==
  \A r \in Responses :
    Spelling(r.text, Digit, 10, r.numbers) /\ Spelling(r.text, HexDigit, 16, r.hexes)

\* r.chunks is where the lines of chunks begin: the first after the headers, and
\* each other after the data of the one before.
ASSUME ChunksAssumption ==
  \A r \in Responses :
    /\ r.chunks \subseteq 1..(Len(r.text) + 1)
    /\ \A d \in 1..(Len(r.text) + 1) :
         d \in r.chunks <=> \/ HeadEnds(r.text) # {} /\ d = HeadEnd(r.text) + 1
                            \/ \E c \in r.chunks : c < d /\ ChunkBefore(r, c, d)

\* The whole of a response is its head, with the body of the length that this
\* announces, with its chunks, or without a body, or else all that the server
\* sends.
ASSUME WholeAssumption ==
  \A r \in Responses :
    /\ r.whole \in Nat
    /\ Framed(r) =>
         /\ r.head \/ (r.status # "plain" /\ HeadLengths(r) = {}) =>
              r.whole = HeadEnd(r.text)
         /\ ~r.head /\ HeadLengths(r) # {} =>
              r.whole = HeadEnd(r.text) + r.numbers[CHOOSE j \in NumberEnds(r) : TRUE]
         /\ Chunks(r) => \A e \in LastEnds(r) : r.whole = e
         /\ ~r.head /\ r.status = "plain" /\ HeadLengths(r) = {} /\ ~Chunks(r) =>
              r.whole = Len(r.text)

VARIABLES stream,  \* what this server sends
          pos,     \* bytes of it that the parser was given
          recved,  \* bytes of it that recv() has returned
          page,    \* the page: whether it exists, its size, fully_loaded
          type,    \* LOAD_CASHING, until there is no memory left
          resp,    \* resp_ready, resp_sent, and whether the client's socket is broken
          sent,    \* bytes that the client has been sent
          outcome  \* what the last call came to

receiverVars == <<stream, pos, recved, page, type, resp, sent, outcome>>

allVars == <<vars, receiverVars>>

ReceiverInit ==
  /\ Init
  /\ parser.type = "response"
  /\ stream \in Responses
  /\ pos = 0
  /\ recved = 0
  /\ page = [exists |-> FALSE, size |-> 0, fully_loaded |-> FALSE]
  /\ type = "LOAD_CASHING"
  /\ resp = [ready |-> FALSE, sent |-> FALSE, broken |-> FALSE]
  /\ sent = 0
  /\ outcome = "none"

-----------------------------------------------------------------------------
(* The call up to http_parser_execute, and what follows it.                *)

\* The loop calls a handler that waits for its response.
Loading == ~inCall /\ outcome \in {"none", "more"} /\ ~resp.ready

\* Cacher::appendCache: bytes upto stored are kept when memory ends there.
AppendCache(stored) == [page EXCEPT !.exists = TRUE, !.size = stored]

SetFullyLoaded(pg) == IF pg.exists THEN [pg EXCEPT !.fully_loaded = TRUE] ELSE pg

\* Fault: the page gets the data only as the parser goes along, at the end.
ReceiveUnstored(upto) ==
  /\ Loading
  /\ recved < upto
  /\ Call(stream.text[pos + 1])
  /\ recved' = upto
  /\ pos' = pos + 1
  /\ UNCHANGED <<stream, page, type, resp, sent, outcome>>

\* recv() returns the data upto some place: it is stored, and the parser is
\* given the first byte of it.
Receive(upto) ==
  /\ Loading
  /\ recved < upto
  /\ Call(stream.text[pos + 1])
  /\ recved' = upto
  /\ pos' = pos + 1
  /\ \/ type = "LOAD_CASHING" /\ page' = AppendCache(upto) /\ UNCHANGED type
     \/ /\ type = "LOAD_CASHING"
        /\ \E stored \in page.size..(upto - 1) : page' = AppendCache(stored)
        /\ type' = "LOAD_TRANSIENT"
     \/ type = "LOAD_TRANSIENT" /\ UNCHANGED <<page, type>>
  /\ UNCHANGED <<stream, resp, sent, outcome>>

\* The server has closed the connection.
ReceiveNothing ==
  /\ Loading
  /\ recved = Len(stream.text) /\ stream.closes
  /\ resp' = [resp EXCEPT !.sent = TRUE]
  /\ page' = SetFullyLoaded(page)
  /\ outcome' = "eof"
  /\ UNCHANGED <<vars, stream, pos, recved, type, sent>>

ReceiveFails ==
  /\ Loading
  /\ outcome' = "error"
  /\ UNCHANGED <<vars, stream, pos, recved, page, type, resp, sent>>

\* Fault: nothing is left to send once the response is complete.
SendsUnlessReady(ready) ==
  /\ sent' = IF ready THEN sent ELSE recved
  /\ resp' = [resp EXCEPT !.ready = ready, !.sent = @ \/ ready]
  /\ outcome' = "more"

\* sendResponseChunk, whose failure is not looked at: the next will fail too.
\* Parts of the data may have gone before it.
Sends(ready) ==
  /\ \/ /\ ~resp.broken
        /\ sent' = recved
        /\ resp' = [resp EXCEPT !.ready = ready, !.sent = @ \/ ready]
     \/ /\ sent' \in IF resp.broken THEN {sent} ELSE sent..(recved - 1)
        /\ resp' = [resp EXCEPT !.ready = ready, !.broken = TRUE]
  /\ outcome' = "more"

MoreData ==
  /\ pos < recved
  /\ NextByte(stream.text[pos + 1])
  /\ pos' = pos + 1
  /\ UNCHANGED <<stream, recved, page, type, resp, sent, outcome>>

DataEnds ==
  /\ pos = recved
  /\ EndOfData
  /\ Sends(resp.ready)
  /\ UNCHANGED <<stream, pos, recved, page, type>>

-----------------------------------------------------------------------------
(* The parser's own steps.                                                 *)

\* What the server's bytes stand for where HttpParser leaves it open.
AsSent ==
  /\ parser'.state = "res_status" /\ parser.state = "res_line" =>
       /\ parser'.noBody = (stream.status # "plain")
       /\ parser'.switching = (stream.status = "switching")
  /\ ReadsAs(stream, pos)

\* Bytes of a body that a step takes beside the one at p.
Bulk ==
  CASE parser.state \in {"body_identity", "chunk_data"} ->
         parser.length - parser'.length - 1
    [] parser.state = "body_identity_eof" -> recved - pos
    [] OTHER -> 0

\* Fault: a message is complete when its headers are.
MessageCompleteEarly ==
  IF phase = "head" /\ phase' # "head" THEN SetFullyLoaded(page) ELSE page

\* The page after the callback of a step; on_message_complete is the only one.
MessageComplete ==
  IF phase # "idle" /\ phase' = "idle" THEN SetFullyLoaded(page) ELSE page

Ready == resp.ready \/ (phase # "idle" /\ phase' = "idle")

\* The parser may stop for good, at an error or before the bytes of another
\* protocol: the rest is not parsed, and nothing of this recv() is sent.
Parses ==
  /\ StartLineNext \/ HeaderNext \/ BodyNext
  /\ AsSent
  /\ pos' = pos + Bulk
  /\ pos' <= recved
  /\ UNCHANGED <<stream, recved, type>>
  /\ \/ /\ parser'.errno # "OK"
        /\ outcome' = "unparsed"
        /\ UNCHANGED <<page, resp, sent>>
     \/ /\ parser'.errno = "OK" /\ inCall'
        /\ page' = MessageComplete
        /\ resp' = [resp EXCEPT !.ready = Ready]
        /\ UNCHANGED <<sent, outcome>>
     \/ /\ parser'.errno = "OK" /\ ~inCall' /\ pos' = recved
        /\ page' = MessageComplete
        /\ Sends(Ready)
     \/ /\ parser'.errno = "OK" /\ ~inCall' /\ phase' = "idle" /\ pos' < recved
        /\ page' = MessageComplete
        /\ resp' = [resp EXCEPT !.ready = Ready]
        /\ outcome' = "unparsed"
        /\ UNCHANGED sent

\* The server sends no more, or the handler takes no more.
Done == ~inCall /\ UNCHANGED allVars

ReceiverNext ==
  \/ \E upto \in DOMAIN stream.text : Receive(upto)
  \/ ReceiveNothing \/ ReceiveFails
  \/ MoreData \/ DataEnds \/ Parses
  \/ Done

ReceiverSpec == ReceiverInit /\ [][ReceiverNext]_allVars

\* The server sends all of its response; the poll loop calls the handler for
\* all of it.
FairSpec ==
  /\ ReceiverSpec
  /\ WF_allVars(\E upto \in DOMAIN stream.text : Receive(upto))
  /\ WF_allVars(ReceiveNothing)
  /\ WF_allVars(MoreData \/ DataEnds)
  /\ WF_allVars(Parses)

-----------------------------------------------------------------------------
(* Properties.                                                             *)

\* A page that the end of a message has marked as complete holds all of the
\* message, wherever recv() has cut it and whatever follows it in the last
\* part: readers that stop at its end have the whole response.
CompletePageIsWhole ==
  page.fully_loaded /\ outcome # "eof" /\ type = "LOAD_CASHING" =>
    page.size >= stream.whole

\* A handler that takes no more of a response has left its page complete, even
\* when one recv() has brought all of it: the page exists by the time the
\* callback runs in the middle of the call.  An incomplete page would keep its
\* readers waiting for ever.
ReadyLeavesCompletePage == resp.ready => page.fully_loaded

\* The client has been sent nothing that a reader of the page would not get,
\* while there is memory; and a handler that is finished with a response that
\* ended has sent all it received, to the end of the response at least, whether
\* there was memory for it or not.
ClientGotThePage ==
  /\ sent <= recved
  /\ type = "LOAD_CASHING" => sent <= page.size
  /\ resp.sent /\ resp.ready /\ ~inCall => sent = recved /\ sent >= stream.whole

\* A response that has an end is over for the handler when it has arrived,
\* though the server keeps the connection open.
ResponseEnds == <>(resp.ready \/ outcome \in {"eof", "error", "unparsed"})

\* http_parser.h:75-79 says that on_headers_complete returns 1 for the response
\* to a HEAD request, "which may contain 'Content-Length' [...] that indicate
\* the presence of a body": such a response is over after its headers.
HeadResponseEnds ==
  stream.head => <>(resp.ready \/ outcome \in {"eof", "error", "unparsed"})
=============================================================================
