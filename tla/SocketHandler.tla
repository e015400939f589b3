---------------------------- MODULE SocketHandler ----------------------------
(***************************************************************************)
(* The state of one SocketHandler (src/proxy/SocketHandler.cpp) and the    *)
(* operations that change nothing but that state.  Proxy composes them     *)
(* with the poll loop, the cache and the kernel into whole work() calls.   *)
(*                                                                         *)
(* handed and since are history fields, which no guard reads.  handed is   *)
(* the units given to a successful send() on client_socket, oldest first,  *)
(* for the client that is there now: what that client was sent.  since is  *)
(* the position in the cache at which the handler got this client.         *)
(***************************************************************************)
EXTENDS Cacher, Integers

CONSTANTS Urls, NoUrl

ASSUME NoUrlAssumption == NoUrl \notin Urls

HandlerType == {"STANDBY", "CASH", "LOAD_CASHING", "LOAD_TRANSIENT", "HEIR"}

Loading == {"LOAD_CASHING", "LOAD_TRANSIENT"}

NoSocket == -1

\* Fault: the constructor forgets server_socket(-1), and memory is zero.
NewHandlerOwningZero ==
  [type |-> "STANDBY", server |-> 0, url |-> NoUrl,
   reqReady |-> FALSE, reqSent |-> FALSE,
   respReady |-> FALSE, respSent |-> FALSE,
   pos |-> 0, handed |-> <<>>, since |-> 0]

\* The constructor.  has_heir is left uninitialised by the code; its only
\* reader is the destructor, so Proxy chooses its value there.
NewHandler ==
  [type |-> "STANDBY", server |-> NoSocket, url |-> NoUrl,
   reqReady |-> FALSE, reqSent |-> FALSE,
   respReady |-> FALSE, respSent |-> FALSE,
   pos |-> 0, handed |-> <<>>, since |-> 0]

\* History: the handler has another client, who was sent nothing yet.
ForNewClient(h) == [h EXCEPT !.handed = <<>>, !.since = h.pos]

Finished(h) == h.reqSent /\ h.respSent

\* urlCallback and messageCompleteCallback, once the whole request is in,
\* then acquireHandlerType for a handler still in STANDBY.
WithRequest(h, u, role) ==
  [h EXCEPT !.url = u, !.reqReady = TRUE, !.type = role]

AcquireHandlerType(pages, u) ==
  IF IsCached(pages, u) THEN "CASH" ELSE "LOAD_CASHING"

\* connectToServer and then sendRequest, both successful.
Connected(h, s) == [h EXCEPT !.server = s]
RequestSent(h) == [h EXCEPT !.reqSent = TRUE]

\* sendResponseChunk, when every send() it makes succeeds.
SendResponseChunk(h, units) ==
  [h EXCEPT !.handed = @ \o units,
            !.respSent = \/ @
                         \/ /\ h.respReady
                            /\ h.type = "CASH" => Len(units) < ChunkSize]

\* Faults: the heir does not take the server over; it goes on as a reader.
HeirWithoutServer(h, ancestor) ==
  [h EXCEPT !.type = "HEIR", !.url = ancestor.url]

HeirStaysReader(h, ancestor) == [h EXCEPT !.server = ancestor.server]

BecomeHeir(h, ancestor) ==
  [h EXCEPT !.type = "HEIR", !.server = ancestor.server, !.url = ancestor.url]

BecomeMaster(h) == [h EXCEPT !.type = "LOAD_CASHING", !.reqReady = TRUE]

\* Faults: nobody tells a reader that the page is complete; an heir that has
\* caught up waits like a reader.
ReaderNeverDone(pages, h) ==
  IF ~IsFullyLoaded(pages, h.url) /\ h.type = "HEIR" THEN BecomeMaster(h) ELSE h

HeirWaits(pages, h) ==
  IF IsFullyLoaded(pages, h.url) THEN [h EXCEPT !.respSent = TRUE] ELSE h

\* sendChunkFromCache when acquireChunk found nothing new: the page is
\* complete, or an heir has caught up, or a reader waits.
AtPageEnd(pages, h) ==
  CASE IsFullyLoaded(pages, h.url) -> [h EXCEPT !.respSent = TRUE]
    [] ~IsFullyLoaded(pages, h.url) /\ h.type = "HEIR" -> BecomeMaster(h)
    [] OTHER -> h

\* Fault: the position is not moved on.
SendChunkAgain(pages, h) ==
  LET chunk == AcquireChunk(pages, h.url, h.pos)
  IN  IF chunk = <<>> THEN AtPageEnd(pages, h) ELSE SendResponseChunk(h, chunk)

\* sendChunkFromCache, successful.
SendChunkFromCache(pages, h) ==
  LET chunk == AcquireChunk(pages, h.url, h.pos)
  IN  IF chunk = <<>>
      THEN AtPageEnd(pages, h)
      ELSE SendResponseChunk([h EXCEPT !.pos = @ + Len(chunk)], chunk)
=============================================================================
