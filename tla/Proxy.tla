-------------------------------- MODULE Proxy --------------------------------
(***************************************************************************)
(* The poll loop of the proxy (src/proxy/Proxy.cpp) with the handlers it   *)
(* drives, the cache they share and the sockets the kernel keeps for it.   *)
(*                                                                         *)
(* launch() is one thread: it polls, then walks poll_fds in order and      *)
(* handles one socket per iteration; many branches break, which polls      *)
(* again and restarts at the first slot.  An action is one iteration of    *)
(* that walk, with everything it calls.  What poll() reports for the slot, *)
(* how much recv() returns, what http_parser makes of it and whether       *)
(* connect() and send() succeed are choices of the environment.            *)
(***************************************************************************)
EXTENDS SocketHandler

CONSTANTS MaxFd,      \* descriptors the process may have open
          MaxClients, \* bound: connections clients open
          MaxUnits,   \* bound: units a server sends on one connection
          RecvMax,    \* most units one recv() returns
          MemoryFails \* whether appendCache may run out of memory

ASSUME BoundsAssumption == /\ MaxFd \in Nat
                           /\ MaxClients \in Nat
                           /\ MaxUnits \in Nat
                           /\ RecvMax \in Nat \ {0}
                           /\ MemoryFails \in BOOLEAN

VARIABLES pollFds,   \* poll_fds: a sequence of descriptors
          sockets,   \* sockets: descriptor -> SocketType
          handlers,  \* socketHandlers: descriptor of the client -> handler
          pages,     \* the cache
          cursor,    \* index in pollFds the for loop has reached
          status,    \* how the process is doing
          peer,      \* kernel: open descriptor -> what is at the other end
          accepted,  \* clients accepted so far
          connects   \* connections to servers made so far

vars == <<pollFds, sockets, handlers, pages, cursor, status, peer,
          accepted, connects>>

\* client_accepting_socket; the handler the constructor makes for it is
\* never looked up by the loop and is left out.
Listener == 0

Fd == 1..MaxFd

\* What a response is made of: the idx-th unit of the conn-th connection to
\* a server, made to fetch url.
Unit == [url : Urls, conn : Nat \ {0}, idx : Nat \ {0}]

\* sent is the number of units received on the connection.  lost is history:
\* how far they had got when a page that held some of them was last dropped.
Peer == [url : Urls \cup {NoUrl}, conn : Nat, sent : Nat, lost : Nat]

ServerPeer == [url : Urls, conn : Nat \ {0}, sent : Nat, lost : Nat]

Client == [url |-> NoUrl, conn |-> 0, sent |-> 0, lost |-> 0]

Server(u, c) == [url |-> u, conn |-> c, sent |-> 0, lost |-> 0]

Init ==
  /\ pollFds = <<Listener>>
  /\ sockets = [fd \in {Listener} |-> "ACCEPTING"]
  /\ handlers = [fd \in {} |-> NewHandler]
  /\ pages = [u \in {} |-> EmptyPage]
  /\ cursor = 1
  /\ status = "running"
  /\ peer = [fd \in {} |-> Client]
  /\ accepted = 0
  /\ connects = 0

-----------------------------------------------------------------------------
(* The loop and the tables.                                                *)

Slot == pollFds[cursor]

SlotIs(type) == status = "running" /\ sockets[Slot] = type

\* On to the next slot, or to poll() after the last one.
NextSlot == cursor' = IF cursor < Len(pollFds) THEN cursor + 1 ELSE 1

\* break: poll() again.
Repoll == cursor' = 1

\* The kernel hands out the lowest descriptor that is not open.
FreeFds == Fd \ DOMAIN peer
NewFd == Min(FreeFds)

\* findByServerSocket: the first handler, in key order, that names it.
Owners(fd) == {c \in DOMAIN handlers : handlers[c].server = fd}
FindByServerSocket(fd) == Min(Owners(fd))

\* Fault: the socket table keeps the closed socket.
RemoveServerFromPoll(fd) ==
  /\ pollFds' = RemoveFirst(pollFds, fd)
  /\ peer' = Erase(peer, {fd})
  /\ UNCHANGED sockets
  /\ Repoll

\* removeServer, for the socket of the current slot.  The handler that owns
\* it is not told: its server_socket goes on naming the closed descriptor.
RemoveServer(fd) ==
  /\ pollFds' = RemoveFirst(pollFds, fd)
  /\ sockets' = Erase(sockets, {fd})
  /\ peer' = Erase(peer, {fd})
  /\ Repoll

\* The process is gone; the rest of its state means nothing any more.
Die(how) ==
  /\ status' = how
  /\ UNCHANGED <<pollFds, sockets, handlers, pages, cursor, peer, accepted,
                 connects>>

-----------------------------------------------------------------------------
(* removeClient, for client c whose handler has become h in this step, on  *)
(* tables that have become fds, socks and prs.                             *)

\* Fault: a reader of a single unit is not asked.
DeputiesFurtherOn(h) ==
  {d \in DOMAIN handlers : /\ handlers[d].type = "CASH"
                           /\ handlers[d].url = h.url
                           /\ handlers[d].pos > 1}

\* tryChooseDeputy: readers of the same page that have read some of it.
\* max_cache_position is never raised, so the last of them is taken.
Deputies(h) ==
  {d \in DOMAIN handlers : /\ handlers[d].type = "CASH"
                           /\ handlers[d].url = h.url
                           /\ handlers[d].pos > 0}

HandsOver(h) == h.type # "CASH" /\ h.server # NoSocket /\ Deputies(h) # {}

WithHeir(h) ==
  IF HandsOver(h)
  THEN [handlers EXCEPT ![Max(Deputies(h))] = BecomeHeir(@, h)]
  ELSE handlers

\* Fault: nor is the server closed while anybody else names its socket.
KeepsSharedServer(h) ==
  \/ h.type = "CASH"
  \/ HandsOver(h)
  \/ Cardinality({d \in DOMAIN handlers : handlers[d].server = h.server}) > 1

KeepsServer(h) == h.type = "CASH" \/ HandsOver(h)

ClosedWith(h, fds) ==
  IF KeepsServer(h) THEN {} ELSE {h.server} \cap Range(fds)

LeftPolled(h, fds) ==
  IF KeepsServer(h) THEN fds ELSE RemoveFirst(fds, h.server)

\* has_heir is set by becomeHeir; a handler without an heir reads it
\* uninitialised.
HasHeir(h) == IF HandsOver(h) THEN {TRUE} ELSE BOOLEAN

\* Fault: the destructor does not ask whether the page is complete.
DropsAnyPage(h, hasHeir) ==
  ~hasHeir /\ h.type = "LOAD_CASHING" /\ IsCached(pages, h.url)

\* ~SocketHandler drops a page nobody is going to complete.
DropsPage(h, hasHeir) ==
  ~hasHeir /\ h.type = "LOAD_CASHING" /\ ~IsFullyLoaded(pages, h.url)

DestructorThrows(h, hasHeir) ==
  DropsPage(h, hasHeir) /\ DeletePageThrows(pages, h.url)

\* The units of a connection in the page of url.
UnitsOf(conn, url) ==
  {i \in DOMAIN pages[url].data : pages[url].data[i].conn = conn}

\* History: the units in the page of url go with it.
Losing(p, url) ==
  IF UnitsOf(p.conn, url) = {}
  THEN p
  ELSE [p EXCEPT !.lost = pages[url].data[Max(UnitsOf(p.conn, url))].idx]

PeersLosing(prs, url) == [fd \in DOMAIN prs |-> Losing(prs[fd], url)]

RemoveClient(c, h, fds, socks, prs) ==
  \* removeServer has just taken c's own entry: poll_fds.erase(end()).
  \/ /\ c \notin Range(LeftPolled(h, fds))
     /\ Die("segfault")
  \* deletePage throws out of the destructor.
  \/ /\ c \in Range(LeftPolled(h, fds))
     /\ \E hasHeir \in HasHeir(h) : DestructorThrows(h, hasHeir)
     /\ Die("terminated")
  \/ /\ c \in Range(LeftPolled(h, fds))
     /\ \E hasHeir \in HasHeir(h) :
          /\ ~DestructorThrows(h, hasHeir)
          /\ \/ /\ DropsPage(h, hasHeir)
                /\ pages' = DeletePage(pages, h.url)
                /\ peer' = Erase(PeersLosing(prs, h.url),
                                 {c} \cup ClosedWith(h, fds))
             \/ /\ ~DropsPage(h, hasHeir)
                /\ peer' = Erase(prs, {c} \cup ClosedWith(h, fds))
                /\ UNCHANGED pages
     /\ pollFds' = RemoveFirst(LeftPolled(h, fds), c)
     /\ sockets' = Erase(socks, {c} \cup ClosedWith(h, fds))
     /\ handlers' = Erase(WithHeir(h), {c})
     /\ Repoll
     /\ UNCHANGED status

-----------------------------------------------------------------------------
(* poll() and the listening socket.                                        *)

\* poll() returns -1: launch() returns and the process exits.
PollFails ==
  /\ status = "running"
  /\ cursor = 1
  /\ Die("stopped")

\* A handler left behind at this descriptor is kept: map::insert does not
\* overwrite it, and the new client talks to it, in the middle of whatever
\* it was doing.
AcceptClient ==
  /\ SlotIs("ACCEPTING")
  /\ accepted < MaxClients
  /\ FreeFds # {}
  /\ pollFds' = Append(pollFds, NewFd)
  /\ sockets' = Insert(sockets, NewFd, "CLIENT")
  /\ handlers' = [Insert(handlers, NewFd, NewHandler) EXCEPT
                    ![NewFd] = ForNewClient(@)]
  /\ peer' = Put(peer, NewFd, Client)
  /\ accepted' = accepted + 1
  /\ Repoll
  /\ UNCHANGED <<pages, status, connects>>

\* Nothing to accept, or accept() fails.
NoAccept ==
  /\ SlotIs("ACCEPTING")
  /\ NextSlot
  /\ UNCHANGED <<pollFds, sockets, handlers, pages, status, peer, accepted,
                 connects>>

-----------------------------------------------------------------------------
(* A slot with a client's socket.                                          *)

RemoveThisClient(h) ==
  /\ RemoveClient(Slot, h, pollFds, sockets, peer)
  /\ UNCHANGED <<accepted, connects>>

\* The handler is the only thing the iteration changes.
HandlerBecomes(c, h) ==
  /\ handlers' = [handlers EXCEPT ![c] = h]
  /\ NextSlot
  /\ UNCHANGED <<pollFds, sockets, pages, status, peer, accepted, connects>>

\* Request and response are through.
ReleaseFinished ==
  /\ SlotIs("CLIENT")
  /\ Finished(handlers[Slot])
  /\ RemoveThisClient(handlers[Slot])

\* POLLHUP, POLLERR; a request that cannot be received or parsed; a chunk
\* from the cache that cannot be sent.
DropClient ==
  /\ SlotIs("CLIENT")
  /\ ~Finished(handlers[Slot])
  /\ RemoveThisClient(handlers[Slot])

\* Fault: work() does not look whether request and response are through.
IdleWhenFinished ==
  /\ SlotIs("CLIENT")
  /\ handlers[Slot].type # "CASH"
  /\ HandlerBecomes(Slot, handlers[Slot])

\* Nothing to do for a client: part of its request, nothing to read, input
\* after the request, no room to write.  A CASH handler is never idle.
ClientIdle ==
  /\ SlotIs("CLIENT")
  /\ ~Finished(handlers[Slot])
  /\ handlers[Slot].type # "CASH"
  /\ HandlerBecomes(Slot, handlers[Slot])

\* The handler of this slot once it holds a whole request for u, with the
\* role acquireHandlerType gives it.
Requesting(u) ==
  WithRequest(handlers[Slot], u, AcquireHandlerType(pages, u))

RequestArrives(u, role) ==
  /\ SlotIs("CLIENT")
  /\ ~handlers[Slot].reqReady
  /\ Requesting(u).type = role

\* A page, complete or not, is there: the handler becomes its reader and
\* sends its first chunk.
RequestFromCache(u) ==
  /\ RequestArrives(u, "CASH")
  /\ CanAcquire(pages, u, handlers[Slot].pos)
  /\ HandlerBecomes(Slot, SendChunkFromCache(pages, RequestSent(Requesting(u))))

\* No page: the handler connects to the server and sends it the request.
\* connectToServer has grown poll_fds, so the walk over it is given up.
RequestFromServer(u) ==
  /\ RequestArrives(u, "LOAD_CASHING")
  /\ FreeFds # {}
  /\ pollFds' = Append(pollFds, NewFd)
  /\ sockets' = Insert(sockets, NewFd, "SERVER")
  /\ peer' = Put(peer, NewFd, Server(u, connects + 1))
  /\ connects' = connects + 1
  /\ handlers' = [handlers EXCEPT ![Slot] =
                    RequestSent(Connected(Requesting(u), NewFd))]
  /\ Repoll
  /\ UNCHANGED <<pages, status, accepted>>

\* No address, no descriptor, nobody listening.
ConnectFails(u) ==
  /\ RequestArrives(u, "LOAD_CASHING")
  /\ RemoveThisClient(Requesting(u))

\* The connection is there and polled, but the request cannot be sent.  The
\* push_back may have moved poll_fds, and launch() then reads poll_fd.fd from
\* the freed array: it finds the old value or one that no handler has.
SendRequestFails(u) ==
  /\ RequestArrives(u, "LOAD_CASHING")
  /\ FreeFds # {}
  /\ \/ RemoveClient(Slot, Connected(Requesting(u), NewFd),
                     Append(pollFds, NewFd),
                     Insert(sockets, NewFd, "SERVER"),
                     Put(peer, NewFd, Server(u, connects + 1)))
     \/ Die("terminated")
  /\ UNCHANGED <<accepted, connects>>

\* A reader gets its next chunk, or learns that there is none.  It does not
\* wait for POLLOUT.
ServeReader ==
  /\ SlotIs("CLIENT")
  /\ ~Finished(handlers[Slot])
  /\ handlers[Slot].type = "CASH"
  /\ CanAcquire(pages, handlers[Slot].url, handlers[Slot].pos)
  /\ HandlerBecomes(Slot, SendChunkFromCache(pages, handlers[Slot]))

\* An heir gets its next chunk, or becomes the master of its server.
CatchingUp(c) ==
  /\ handlers[c].type = "HEIR"
  /\ ~handlers[c].respSent
  /\ CanAcquire(pages, handlers[c].url, handlers[c].pos)

ServeHeir ==
  /\ SlotIs("CLIENT")
  /\ CatchingUp(Slot)
  /\ HandlerBecomes(Slot, SendChunkFromCache(pages, handlers[Slot]))

\* acquireChunk finds no page, or a shorter one than the handler has read:
\* the page has been dropped, and perhaps started anew, since.
PageLost(c) ==
  /\ handlers[c].type \in {"CASH", "HEIR"}
  /\ ~handlers[c].respSent
  /\ ~CanAcquire(pages, handlers[c].url, handlers[c].pos)

DropReader ==
  /\ SlotIs("CLIENT")
  /\ PageLost(Slot)
  /\ RemoveThisClient(handlers[Slot])

-----------------------------------------------------------------------------
(* A slot with a server's socket.  The handler that owns it may be that of *)
(* any client that names the descriptor.                                   *)

ServerSlot(c) ==
  /\ SlotIs("SERVER")
  /\ Owners(Slot) # {}
  /\ c = FindByServerSocket(Slot)
  /\ ~Finished(handlers[c])

\* Fault: an heir receives like a loader.
HeirReceives(c) ==
  /\ ServerSlot(c)
  /\ handlers[c].type \in Loading \cup {"HEIR"}
  /\ ~handlers[c].respReady

\* work() is going to receive the response.
Receiving(c) ==
  /\ ServerSlot(c)
  /\ handlers[c].type \in Loading
  /\ ~handlers[c].respReady

\* POLLHUP, POLLERR, a failed recv(), a handler that is finished, an heir
\* that cannot acquire its chunk.
ServerGone ==
  /\ SlotIs("SERVER")
  /\ RemoveServer(Slot)
  /\ UNCHANGED <<handlers, pages, status, accepted, connects>>

\* Nothing to read, an heir that is not to read yet, a response that is
\* already complete.
ServerIdle(c) ==
  /\ ServerSlot(c)
  /\ HandlerBecomes(c, handlers[c])

\* recv() returns 0: the response counts as sent and its page as complete,
\* however much of it the parser has seen.
ServerEof(c) ==
  /\ Receiving(c)
  /\ handlers' = [handlers EXCEPT ![c].respSent = TRUE]
  /\ pages' = SetFullyLoaded(pages, handlers[c].url)
  /\ RemoveServer(Slot)
  /\ UNCHANGED <<status, accepted, connects>>

\* The next n units of the connection in the current slot.
Received(n) ==
  [i \in 1..n |-> [url |-> peer[Slot].url, conn |-> peer[Slot].conn,
                   idx |-> peer[Slot].sent + i]]

\* appendCache stores all n units, or runs out of memory before that.
Stored(h, n, stored) ==
  \/ stored = n
  \/ MemoryFails /\ h.type = "LOAD_CASHING"

CacheWith(h, n, stored) ==
  IF h.type = "LOAD_CASHING"
  THEN AppendCache(pages, h.url, SubSeq(Received(n), 1, stored))
  ELSE pages

\* The handler after appendCache and the parser: complete when the parser
\* saw the end of the message, which also completes the page.
Loaded(h, n, stored, complete) ==
  [h EXCEPT !.type = IF stored < n THEN "LOAD_TRANSIENT" ELSE @,
            !.respReady = complete]

Receive(c, n, stored, complete) ==
  /\ Receiving(c)
  /\ peer[Slot].sent + n <= MaxUnits
  /\ Stored(handlers[c], n, stored)
  /\ pages' = LET cache == CacheWith(handlers[c], n, stored)
              IN  IF complete
                  THEN SetFullyLoaded(cache, handlers[c].url)
                  ELSE cache
  /\ UNCHANGED <<status, accepted, connects>>

\* The parser takes the data and the client gets it, or cannot be sent it:
\* receiveAndParseResponse does not look at what sendResponseChunk returns.
ServerData(c, n, stored, complete) ==
  /\ Receive(c, n, stored, complete)
  /\ LET h == Loaded(handlers[c], n, stored, complete)
     IN  \E after \in {SendResponseChunk(h, Received(n)), h} :
           handlers' = [handlers EXCEPT ![c] = after]
  /\ peer' = [peer EXCEPT ![Slot].sent = @ + n]
  /\ NextSlot
  /\ UNCHANGED <<pollFds, sockets>>

\* The parser refuses the data, perhaps after the end of a message: it is in
\* the cache by then, and the server is dropped.
ServerDataRefused(c, n, stored, complete) ==
  /\ Receive(c, n, stored, complete)
  /\ handlers' = [handlers EXCEPT ![c] =
                    Loaded(handlers[c], n, stored, complete)]
  /\ RemoveServer(Slot)

\* An heir is served from its server's slot as well, when that is writable;
\* a chunk that cannot be sent then costs the server its connection.
ServeHeirFromServerSlot(c) ==
  /\ ServerSlot(c)
  /\ CatchingUp(c)
  /\ HandlerBecomes(c, SendChunkFromCache(pages, handlers[c]))

HeirChunkLost(c) ==
  /\ ServerSlot(c)
  /\ CatchingUp(c)
  /\ LET chunk == AcquireChunk(pages, handlers[c].url, handlers[c].pos)
     IN  /\ chunk # <<>>
         /\ handlers' = [handlers EXCEPT ![c].pos = @ + Len(chunk)]
  /\ RemoveServer(Slot)
  /\ UNCHANGED <<pages, status, accepted, connects>>

-----------------------------------------------------------------------------
\* The process has ended, one way or another.
Halted == status # "running" /\ UNCHANGED vars

ListenerNext == AcceptClient \/ NoAccept

ClientNext ==
  \/ ReleaseFinished
  \/ DropClient
  \/ ClientIdle
  \/ ServeReader
  \/ ServeHeir
  \/ DropReader
  \/ \E u \in Urls : \/ RequestFromCache(u)
                     \/ RequestFromServer(u)
                     \/ ConnectFails(u)
                     \/ SendRequestFails(u)

ServerNext ==
  \/ ServerGone
  \/ \E c \in DOMAIN handlers :
       \/ ServerIdle(c)
       \/ ServerEof(c)
       \/ ServeHeirFromServerSlot(c)
       \/ HeirChunkLost(c)
       \/ \E n \in 1..RecvMax : \E stored \in 0..n, complete \in BOOLEAN :
            \/ ServerData(c, n, stored, complete)
            \/ ServerDataRefused(c, n, stored, complete)

Next == PollFails \/ ListenerNext \/ ClientNext \/ ServerNext \/ Halted

Spec == Init /\ [][Next]_vars

-----------------------------------------------------------------------------
(* Type correctness.                                                       *)

Page == [data : Seq(Unit), full : BOOLEAN]

Handler == [type : HandlerType, server : Fd \cup {NoSocket},
            url : Urls \cup {NoUrl},
            reqReady : BOOLEAN, reqSent : BOOLEAN,
            respReady : BOOLEAN, respSent : BOOLEAN,
            pos : Nat, handed : Seq(Unit), since : Nat]

\* The types of the variables.  A handler's server_socket is never the
\* listener, which is why removeServer never closes that one.
TypeOK ==
  /\ pollFds \in Seq({Listener} \cup Fd)
  /\ DOMAIN sockets \subseteq {Listener} \cup Fd
  /\ sockets \in [DOMAIN sockets -> {"ACCEPTING", "CLIENT", "SERVER"}]
  /\ DOMAIN handlers \subseteq Fd
  /\ handlers \in [DOMAIN handlers -> Handler]
  /\ DOMAIN pages \subseteq Urls
  /\ pages \in [DOMAIN pages -> Page]
  /\ cursor \in Nat \ {0}
  /\ status \in {"running", "stopped", "segfault", "terminated"}
  /\ DOMAIN peer \subseteq Fd
  /\ peer \in [DOMAIN peer -> Peer]
  /\ \A fd \in DOMAIN sockets : sockets[fd] = "SERVER" => peer[fd] \in ServerPeer
  /\ accepted \in 0..MaxClients
  /\ connects \in Nat

-----------------------------------------------------------------------------
(* Safety.                                                                 *)

\* The poll set, the socket table and the descriptors the kernel has open
\* stay the same set however often sockets are closed by a stale number, so
\* launch() always finds the socket of its slot (the exit at Proxy.cpp:114
\* is dead) and never runs off poll_fds; the listener keeps its first slot.
TablesAgree ==
  /\ IsInjective(pollFds)
  /\ Range(pollFds) = DOMAIN sockets
  /\ DOMAIN sockets = DOMAIN peer \cup {Listener}
  /\ cursor \in 1..Len(pollFds)
  /\ pollFds[1] = Listener
  /\ \A fd \in DOMAIN sockets : sockets[fd] = "ACCEPTING" <=> fd = Listener

\* Every polled client socket has a handler, so at() never throws in
\* launch() or removeClient(); every polled server socket has an owner, so
\* findByServerSocket() never answers nullptr.
SlotsHaveHandlers ==
  \A fd \in DOMAIN sockets :
    /\ sockets[fd] = "CLIENT" => fd \in DOMAIN handlers
    /\ sockets[fd] = "SERVER" => Owners(fd) # {}

RoleFits(h) ==
  /\ h.type = "STANDBY" <=> ~h.reqReady
  /\ h.type = "STANDBY" <=> h.url = NoUrl
  /\ h.reqSent = h.reqReady
  /\ h.type \in {"STANDBY", "CASH"} <=> h.server = NoSocket
  /\ h.type \in {"STANDBY", "CASH", "HEIR"} => ~h.respReady
  /\ h.type = "STANDBY" => ~h.respSent /\ h.pos = 0

\* The flags a handler of each role can have.  work() tests them one by one;
\* that a reader owns no server, that whoever owns one has sent its request
\* and that an heir has not received anything is nowhere tested.
RoleConsistent == \A c \in DOMAIN handlers : RoleFits(handlers[c])

\* A reader that has read anything still has its page, and what its client
\* was sent is the part of that page before its position, from where the
\* handler was when it got the client (the beginning, unless the handler was
\* left behind by an earlier client): handing the server over to a reader
\* instead of dropping the page is what keeps this true.
ReaderMirrorsCache ==
  \A c \in DOMAIN handlers :
    handlers[c].type = "CASH" /\ handlers[c].pos > 0 =>
      /\ CanAcquire(pages, handlers[c].url, handlers[c].pos)
      /\ handlers[c].handed =
           SubSeq(pages[handlers[c].url].data, handlers[c].since + 1,
                  handlers[c].pos)

InOrder(units) ==
  \A i, j \in DOMAIN units :
    i < j /\ units[i].conn = units[j].conn => units[i].idx < units[j].idx

\* What one server connection sends reaches a client, and a page, at most
\* once and in the order it was sent: by whatever handler, as loader, reader,
\* heir or master, across every change of role.
DeliveryInOrder ==
  /\ \A c \in DOMAIN handlers : InOrder(handlers[c].handed)
  /\ \A u \in DOMAIN pages : InOrder(pages[u].data)

\* A response counts as complete only when its page does: for the handler
\* that loads it as soon as the parser sees the end of the message, and for
\* a reader before it may stop waiting.  (A page filled by two loaders can
\* still grow after that.)
CompletionSealsPage ==
  \A c \in DOMAIN handlers :
    LET h == handlers[c] IN
    \/ h.type = "LOAD_CASHING" /\ h.respReady
    \/ h.type = "CASH" /\ h.respSent
    => IsFullyLoaded(pages, h.url)

\* A server is never left to strangers: whoever names the socket of an open
\* connection, as its owner or by a stale number, and goes, leaves it to a
\* handler of the same page or closes it.  So a connection whose owners load
\* two pages stays one of two pages to its end.
ServerIsHandedOn ==
  [][\A s \in DOMAIN sockets \cap DOMAIN sockets' :
       sockets[s] = "SERVER" /\ peer'[s].conn = peer[s].conn =>
         \A c \in Owners(s) :
           \E d \in Owners(s)' : handlers'[d].url = handlers[c].url]_vars

\* The idx of the units of a connection in the page of url, if there is one.
Kept(conn, url) ==
  IF IsCached(pages, url)
  THEN {pages[url].data[i].idx : i \in UnitsOf(conn, url)}
  ELSE {}

\* Nobody of another url names the socket: no handler has kept its number
\* from an earlier connection, and none has inherited it so.
OneUrl(s) == \A c, d \in Owners(s) : handlers[c].url = handlers[d].url

\* The end of the page is where the server goes on: of a connection whose
\* owner loads a page, or is an heir that will, the page holds every unit
\* received so far, without a hole, but for those that went with an earlier
\* page of that url when another of its loaders left.  This is what lets an
\* heir switch from the cache to the server at the end of the page.  It
\* needs MemoryFails = FALSE, and OneUrl: a handler with a stale number that
\* is found first takes units to the page of its own url, and they are
\* missing in this one when the connection comes back to its owner.
PageEndsWhereServerIs ==
  \A s \in DOMAIN sockets :
    sockets[s] = "SERVER" /\ OneUrl(s) =>
      LET h == handlers[FindByServerSocket(s)]
      IN  h.type \in {"LOAD_CASHING", "HEIR"} =>
            Kept(peer[s].conn, h.url) = (peer[s].lost + 1)..peer[s].sent

\* The cache implements PageStore.
Store == INSTANCE PageStore
CacheIsPageStore == Store!Spec

-----------------------------------------------------------------------------
(* What comments in the code say and the code does not do.                 *)

\* Proxy.cpp:158: "segfault somewhere here when terminating inherited
\* master".  Removing a client does not run off poll_fds.
NoSegfault == status # "segfault"

\* Casher.h:49: pages maps "req_url-page_in_cash": the page kept under a url
\* is made of responses to requests for it.
PageHoldsItsUrl ==
  \A u \in DOMAIN pages :
    \A i \in DOMAIN pages[u].data : pages[u].data[i].url = u

-----------------------------------------------------------------------------
(* Liveness.                                                               *)

\* The loop goes on.  poll() waits without a timeout, but every polled
\* connection asks for POLLOUT, so it returns as soon as one of them has
\* room in its send buffer.
LoopFairness == WF_vars(Next)

\* A client that reads what it is sent is writable again and again when its
\* slot is handled.
WriteFairness == \A c \in Fd : SF_vars(Slot = c /\ (ServeHeir \/ DropReader))

FairSpec == Spec /\ LoopFairness /\ WriteFairness

Polled(c) == status = "running" /\ c \in DOMAIN sockets /\ sockets[c] = "CLIENT"

\* A client whose response is through is disconnected.
FinishedLeaves ==
  \A c \in Fd : Polled(c) /\ Finished(handlers[c])
                  ~> ~(Polled(c) /\ Finished(handlers[c]))

\* A reader of a complete page gets to its end, unless it is made an heir or
\* is disconnected.
Reading(c) == Polled(c) /\ handlers[c].type = "CASH" /\ ~handlers[c].respSent

ReaderFinishes ==
  \A c \in Fd : Reading(c) /\ IsFullyLoaded(pages, handlers[c].url)
                  ~> ~Reading(c)

\* The role of an heir is temporary while its client is connected: it gets
\* to the end of the page, or is disconnected when the page is dropped.
Heir(c) == Polled(c) /\ handlers[c].type = "HEIR" /\ ~handlers[c].respSent

HeirCatchesUp == \A c \in Fd : Heir(c) ~> ~Heir(c)
=============================================================================
