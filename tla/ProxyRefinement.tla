--------------------------- MODULE ProxyRefinement ---------------------------
(***************************************************************************)
(* The cache, as launch() and its handlers use it, implements PageStore:   *)
(* proved for every number of clients, servers, urls and units, and        *)
(* whether or not appendCache runs out of memory.                          *)
(***************************************************************************)
EXTENDS ProxyProofs

\* A sequence is a prefix of what is made by appending to it.
LEMMA PrefixOfConcat ==
  ASSUME NEW S, NEW s \in Seq(S), NEW t \in Seq(S)
  PROVE  Store!IsPrefix(s, s \o t)
<1>1. Len(s) \in Nat /\ Len(t) \in Nat /\ Len(s \o t) = Len(s) + Len(t)
  BY LenProperties, ConcatProperties
<1>2. SubSeq(s \o t, 1, Len(s)) = SubSeq(s, 1, Len(s))
  BY <1>1, SubSeqOfConcat1
<1>3. QED
  BY <1>1, <1>2 DEF Store!IsPrefix

LEMMA PrefixOfItself ==
  ASSUME NEW S, NEW s \in Seq(S)
  PROVE  Store!IsPrefix(s, s)
BY LenProperties DEF Store!IsPrefix

\* setFullyLoaded completes a page, or leaves a cache without it alone.
LEMMA SetFullyLoadedGrows ==
  ASSUME PagesFit(pages), NEW url, pages' = SetFullyLoaded(pages, url)
  PROVE  Store!Grow(url) \/ UNCHANGED pages
<1>1. CASE ~IsCached(pages, url)
  BY <1>1 DEF SetFullyLoaded
<1>2. CASE IsCached(pages, url)
  <2>1. url \in DOMAIN pages /\ pages[url] \in Page
    BY <1>2 DEF IsCached, PagesFit
  <2>2. /\ DOMAIN pages' = DOMAIN pages
        /\ pages'[url].data = pages[url].data /\ pages'[url].full
        /\ \A u \in DOMAIN pages \ {url} : pages'[u] = pages[u]
    BY <1>2, <2>1 DEF SetFullyLoaded, Page, PagesFit
  <2>3. Store!IsPrefix(Store!Data(url), pages'[url].data)
    BY <2>1, <2>2, PrefixOfItself DEF Store!Data, Page
  <2>4. QED
    BY <2>1, <2>2, <2>3 DEF Store!Grow, Store!OthersKept
<1>3. QED
  BY <1>1, <1>2

\* appendCache, followed or not by setFullyLoaded, grows one page.
LEMMA AppendCacheGrows ==
  ASSUME PagesFit(pages), NEW url \in Urls, NEW units \in Seq(Unit),
         \/ pages' = AppendCache(pages, url, units)
         \/ pages' = SetFullyLoaded(AppendCache(pages, url, units), url)
  PROVE  Store!Grow(url)
<1> DEFINE old == PageOrNew(pages, url)
           appended == AppendCache(pages, url, units)
<1>1. old \in Page /\ old.data = Store!Data(url) /\ (Store!Complete(url) => old.full)
  BY EmptySeq DEF PageOrNew, IsCached, EmptyPage, PagesFit, Page,
                  Store!Data, Store!Complete
<1> HIDE DEF old
<1>2. /\ DOMAIN appended = DOMAIN pages \cup {url}
      /\ appended[url] = [old EXCEPT !.data = @ \o units]
      /\ \A u \in DOMAIN pages \ {url} : appended[u] = pages[u]
  BY DEF AppendCache, Put, old
<1>3. appended[url].data = old.data \o units /\ appended[url].full = old.full
  BY <1>1, <1>2 DEF Page
<1>4. PagesFit(appended)
  BY AppendCacheFits
<1> HIDE DEF appended
<1>5. /\ DOMAIN pages' = DOMAIN appended
      /\ pages'[url].data = appended[url].data
      /\ appended[url].full => pages'[url].full
      /\ \A u \in DOMAIN pages \ {url} : pages'[u] = pages[u]
  <2>1. CASE pages' = appended
    BY <1>2, <2>1
  <2>2. CASE pages' = SetFullyLoaded(appended, url)
    <3>1. pages' = [appended EXCEPT ![url].full = TRUE]
      BY <1>2, <2>2 DEF SetFullyLoaded, IsCached
    <3>2. appended[url] \in Page
      BY <1>2, <1>4 DEF PagesFit
    <3>3. QED
      BY <1>2, <3>1, <3>2 DEF Page
  <2>3. QED
    BY <2>1, <2>2 DEF appended
<1>6. Store!IsPrefix(Store!Data(url), pages'[url].data)
  BY <1>1, <1>3, <1>5, PrefixOfConcat DEF Page
<1>7. QED
  BY <1>1, <1>2, <1>3, <1>5, <1>6 DEF Store!Grow, Store!OthersKept

\* A destructor that does not throw drops a page that is there and is not
\* complete.
LEMMA DeletePageDrops ==
  ASSUME NEW h, NEW hasHeir, DropsPage(h, hasHeir), ~DestructorThrows(h, hasHeir),
         pages' = DeletePage(pages, h.url)
  PROVE  Store!Drop(h.url)
<1>1. h.url \in DOMAIN pages /\ ~pages[h.url].full
  BY DEF DropsPage, DestructorThrows, DeletePageThrows, IsCached, IsFullyLoaded
<1>2. /\ DOMAIN pages' = DOMAIN pages \ {h.url}
      /\ \A u \in DOMAIN pages \ {h.url} : pages'[u] = pages[u]
  BY DEF DeletePage, Erase, Restrict
<1>3. QED
  BY <1>1, <1>2 DEF Store!Drop, Store!Complete, Store!OthersKept

LEMMA RemoveClientRefines ==
  ASSUME PagesFit(pages), NEW c, NEW h, NEW fds, NEW socks, NEW prs,
         RemoveClient(c, h, fds, socks, prs)
  PROVE  Store!Next \/ UNCHANGED pages
<1>1. CASE Die("segfault") \/ Die("terminated")
  BY <1>1 DEF Die
<1>2. ASSUME NEW hasHeir \in HasHeir(h), ~DestructorThrows(h, hasHeir),
             DropsPage(h, hasHeir), pages' = DeletePage(pages, h.url)
      PROVE  Store!Next
  <2>1. Store!Drop(h.url)
    BY <1>2, DeletePageDrops
  <2>2. h.url \in Urls
    BY <2>1 DEF Store!Drop, PagesFit
  <2>3. QED
    BY <2>1, <2>2 DEF Store!Next
<1>3. QED
  BY <1>1, <1>2 DEF RemoveClient

LEMMA ReceiveRefines ==
  ASSUME IInv, NEW c \in DOMAIN handlers, NEW n \in Nat, NEW stored \in 0..n,
         NEW complete \in BOOLEAN, Receive(c, n, stored, complete)
  PROVE  Store!Next \/ UNCHANGED pages
<1> DEFINE h == handlers[c]
           units == SubSeq(Received(n), 1, stored)
<1>1. /\ h \in Handler /\ RoleFits(h) /\ h.type \in Loading
      /\ Received(n) \in Seq(Unit)
  BY ReceivePreserves
<1>2. h.url \in Urls
  BY <1>1 DEF RoleFits, Handler, Loading
<1>3. PagesFit(pages)
  BY DEF IInv
<1>4. units \in Seq(Unit)
  <2>1. Received(n) \in [1..n -> Unit]
    BY <1>1, LenProperties DEF Received
  <2>2. \A i \in 1..stored : Received(n)[i] \in Unit
    BY <2>1
  <2>3. QED
    BY <2>2, SubSeqProperties
<1> HIDE DEF h, units
<1>5. pages' = IF complete THEN SetFullyLoaded(CacheWith(h, n, stored), h.url)
                           ELSE CacheWith(h, n, stored)
  BY DEF Receive, h
<1>6. CASE h.type = "LOAD_CASHING"
  <2>1. CacheWith(h, n, stored) = AppendCache(pages, h.url, units)
    BY <1>6 DEF CacheWith, units
  <2>2. Store!Grow(h.url)
    BY <1>2, <1>3, <1>4, <1>5, <2>1, AppendCacheGrows
  <2>3. QED
    BY <1>2, <2>2 DEF Store!Next
<1>7. CASE h.type # "LOAD_CASHING"
  <2>1. CacheWith(h, n, stored) = pages
    BY <1>7 DEF CacheWith
  <2>2. pages' = SetFullyLoaded(pages, h.url) \/ UNCHANGED pages
    BY <1>5, <2>1
  <2>3. QED
    BY <1>2, <1>3, <2>2, SetFullyLoadedGrows DEF Store!Next
<1>8. QED
  BY <1>6, <1>7

LEMMA ServerEofRefines ==
  ASSUME IInv, NEW c \in DOMAIN handlers, ServerEof(c)
  PROVE  Store!Next \/ UNCHANGED pages
<1>1. handlers[c] \in Handler /\ RoleFits(handlers[c]) /\ handlers[c].type \in Loading
  BY SlotFacts DEF ServerEof, Receiving
<1>2. handlers[c].url \in Urls
  BY <1>1 DEF RoleFits, Handler, Loading
<1>3. pages' = SetFullyLoaded(pages, handlers[c].url)
  BY DEF ServerEof
<1>4. QED
  BY <1>2, <1>3, SetFullyLoadedGrows DEF IInv, Store!Next

LEMMA ClientNextRefines ==
  ASSUME IInv, ClientNext
  PROVE  Store!Next \/ UNCHANGED pages
<1>1. PagesFit(pages)
  BY DEF IInv
<1>2. CASE ReleaseFinished \/ DropClient \/ DropReader
  BY <1>1, <1>2, RemoveClientRefines
  DEF ReleaseFinished, DropClient, DropReader, RemoveThisClient
<1>3. CASE ClientIdle \/ ServeReader \/ ServeHeir
  BY <1>3 DEF ClientIdle, ServeReader, ServeHeir, HandlerBecomes
<1>4. ASSUME NEW u \in Urls, ConnectFails(u) \/ SendRequestFails(u)
      PROVE  Store!Next \/ UNCHANGED pages
  BY <1>1, <1>4, RemoveClientRefines
  DEF ConnectFails, SendRequestFails, RemoveThisClient, Die
<1>5. ASSUME NEW u \in Urls, RequestFromCache(u) \/ RequestFromServer(u)
      PROVE  UNCHANGED pages
  BY <1>5 DEF RequestFromCache, RequestFromServer, HandlerBecomes
<1>6. QED
  BY <1>2, <1>3, <1>4, <1>5 DEF ClientNext

LEMMA ServerNextRefines ==
  ASSUME IInv, ServerNext
  PROVE  Store!Next \/ UNCHANGED pages
<1>1. CASE ServerGone
  BY <1>1 DEF ServerGone
<1>2. ASSUME NEW c \in DOMAIN handlers,
             ServerIdle(c) \/ ServeHeirFromServerSlot(c) \/ HeirChunkLost(c)
      PROVE  UNCHANGED pages
  BY <1>2 DEF ServerIdle, ServeHeirFromServerSlot, HeirChunkLost, HandlerBecomes
<1>3. ASSUME NEW c \in DOMAIN handlers, ServerEof(c)
      PROVE  Store!Next \/ UNCHANGED pages
  BY <1>3, ServerEofRefines
<1>4. ASSUME NEW c \in DOMAIN handlers, NEW n \in 1..RecvMax,
             NEW stored \in 0..n, NEW complete \in BOOLEAN,
             \/ ServerData(c, n, stored, complete)
             \/ ServerDataRefused(c, n, stored, complete)
      PROVE  Store!Next \/ UNCHANGED pages
  <2>1. n \in Nat /\ Receive(c, n, stored, complete)
    BY <1>4, BoundsAssumption DEF ServerData, ServerDataRefused
  <2>2. QED
    BY <2>1, ReceiveRefines
<1>5. QED
  BY <1>1, <1>2, <1>3, <1>4 DEF ServerNext

LEMMA NextRefines ==
  ASSUME IInv, [Next]_vars
  PROVE  [Store!Next]_pages
<1>1. CASE AcceptClient \/ NoAccept \/ PollFails \/ Halted \/ UNCHANGED vars
  BY <1>1 DEF AcceptClient, NoAccept, PollFails, Die, Halted, vars
<1>2. CASE ClientNext
  BY <1>2, ClientNextRefines
<1>3. CASE ServerNext
  BY <1>3, ServerNextRefines
<1>4. QED
  BY <1>1, <1>2, <1>3 DEF Next, ListenerNext

\* The cache implements PageStore: no step of any handler, whichever loads,
\* reads, inherits or leaves, cuts a page short, reopens or drops a complete
\* one, or touches two pages at once.
THEOREM CacheRefinement == Spec => CacheIsPageStore
<1>1. Init => Store!Init
  BY DEF Init, Store!Init
<1>2. IInv /\ [Next]_vars => [Store!Next]_pages
  BY NextRefines
<1>3. QED
  BY <1>1, <1>2, Invariance, PTL DEF Spec, CacheIsPageStore, Store!Spec
=============================================================================
