---------------------------- MODULE ProxyDelivery ----------------------------
(***************************************************************************)
(* What clients are sent, proved for every number of clients, connections, *)
(* urls and units, and whether or not memory suffices: readers mirror      *)
(* their page, only complete pages count as responses, and the units of a  *)
(* connection reach a client and a page in their order.                    *)
(***************************************************************************)
EXTENDS ProxyProofs

-----------------------------------------------------------------------------
(* Readers and pages.                                                      *)

\* t begins with s.
Begins(s, t) == Len(s) <= Len(t) /\ \A i \in 1..Len(s) : t[i] = s[i]

\* What t has behind its place k begins with s.
Behind(k, s, t) == k + Len(s) <= Len(t) /\ \A i \in 1..Len(s) : t[k + i] = s[i]

\* A handler without a role has sent nothing; a reader is at its position in a
\* page that is there, and has sent its client what comes before it, from
\* where it got the client.
Mirrors(h, pg) ==
  /\ h.type = "STANDBY" => h.handed = <<>> /\ h.since = 0
  /\ h.type = "CASH" =>
       /\ h.since + Len(h.handed) = h.pos
       /\ h.pos > 0 =>
            /\ IsCached(pg, h.url)
            /\ Behind(h.since, h.handed, pg[h.url].data)

Seals(h, pg) ==
  (h.type = "LOAD_CASHING" /\ h.respReady) \/ (h.type = "CASH" /\ h.respSent) =>
    IsFullyLoaded(pg, h.url)

Reads(hs, pg) == \A c \in DOMAIN hs : Mirrors(hs[c], pg) /\ Seals(hs[c], pg)

RInv == IInv /\ Reads(handlers, pages)

\* What becomes of the pages while none is dropped.
Extends(pg, qg) ==
  \A u \in DOMAIN pg :
    /\ u \in DOMAIN qg
    /\ Begins(pg[u].data, qg[u].data)
    /\ pg[u].full => qg[u].full

-----------------------------------------------------------------------------
(* Connections and units.                                                  *)

\* Connections are numbered once: no two open sockets share one.
Numbered(prs, n) ==
  /\ \A s \in DOMAIN prs : prs[s].conn <= n
  /\ \A s, t \in DOMAIN prs : prs[s].conn # 0 /\ prs[s].conn = prs[t].conn => s = t

\* The units were received: on a connection that was made, and on one that is
\* still open not beyond what has been sent there.
Known(units, prs, n) ==
  \A i \in DOMAIN units :
    /\ units[i].conn <= n
    /\ \A s \in DOMAIN prs :
         prs[s].conn = units[i].conn => units[i].idx <= prs[s].sent

\* Nothing in data behind pos comes before any of the units.
Ahead(units, pos, data) ==
  \A i \in DOMAIN units, j \in DOMAIN data :
    j > pos /\ units[i].conn = data[j].conn => units[i].idx < data[j].idx

\* A reader or an heir goes on with what comes after all it has sent.
Continues(h, pg) ==
  h.type \in {"CASH", "HEIR"} /\ IsCached(pg, h.url) =>
    Ahead(h.handed, h.pos, pg[h.url].data)

Sequence(units, prs, n) == InOrder(units) /\ Known(units, prs, n)

Delivers(hs, pg, prs, n) ==
  /\ \A c \in DOMAIN hs : Sequence(hs[c].handed, prs, n) /\ Continues(hs[c], pg)
  /\ \A u \in DOMAIN pg : Sequence(pg[u].data, prs, n)

DInv == RInv /\ Numbered(peer, connects) /\ Delivers(handlers, pages, peer, connects)

-----------------------------------------------------------------------------
(* Pages.                                                                  *)

LEMMA ExtendsItself ==
  ASSUME NEW pg, PagesFit(pg)
  PROVE  Extends(pg, pg)
<1>1. \A u \in DOMAIN pg : Len(pg[u].data) \in Nat
  BY LenProperties DEF PagesFit, Page
<1>2. QED
  BY <1>1 DEF Extends, Begins

LEMMA ExtendsFurther ==
  ASSUME NEW pg, PagesFit(pg), NEW qg, PagesFit(qg), NEW rg, PagesFit(rg),
         Extends(pg, qg), Extends(qg, rg)
  PROVE  Extends(pg, rg)
<1>1. SUFFICES ASSUME NEW u \in DOMAIN pg
               PROVE  /\ u \in DOMAIN rg
                      /\ Begins(pg[u].data, rg[u].data)
                      /\ pg[u].full => rg[u].full
  BY DEF Extends
<1>2. /\ u \in DOMAIN qg /\ u \in DOMAIN rg
      /\ Begins(pg[u].data, qg[u].data) /\ Begins(qg[u].data, rg[u].data)
      /\ pg[u].full => rg[u].full
  BY DEF Extends
<1>3. Len(pg[u].data) \in Nat /\ Len(qg[u].data) \in Nat /\ Len(rg[u].data) \in Nat
  BY <1>2, LenProperties DEF PagesFit, Page
<1>4. QED
  BY <1>2, <1>3 DEF Begins

\* What appendCache does to the page of a url, and to no other.
LEMMA AppendCacheCases ==
  ASSUME NEW pg, PagesFit(pg), NEW url \in Urls, NEW units \in Seq(Unit)
  PROVE  LET qg == AppendCache(pg, url, units) IN
         /\ PagesFit(qg) /\ Extends(pg, qg)
         /\ IsCached(qg, url)
         /\ \A u \in DOMAIN qg :
              \/ u \in DOMAIN pg /\ qg[u].data = pg[u].data
              \/ u \in DOMAIN pg /\ qg[u].data = pg[u].data \o units
              \/ qg[u].data = units
<1> DEFINE old == PageOrNew(pg, url)
           qg == AppendCache(pg, url, units)
<1>1. old \in Page
  BY EmptySeq DEF PageOrNew, IsCached, EmptyPage, PagesFit, Page
<1> HIDE DEF old
<1>2. /\ DOMAIN qg = DOMAIN pg \cup {url}
      /\ qg[url] = [old EXCEPT !.data = @ \o units]
      /\ \A u \in DOMAIN pg \ {url} : qg[u] = pg[u]
  BY DEF AppendCache, Put, old
<1>3. qg[url].data = old.data \o units /\ qg[url].full = old.full
  BY <1>1, <1>2 DEF Page
<1>4. PagesFit(qg)
  BY AppendCacheFits
<1> HIDE DEF qg
<1>5. CASE IsCached(pg, url)
  <2>1. old = pg[url] /\ url \in DOMAIN pg
    BY <1>5 DEF PageOrNew, IsCached, old
  <2>2. /\ Len(old.data) \in Nat /\ Len(units) \in Nat
        /\ Len(old.data \o units) = Len(old.data) + Len(units)
        /\ \A i \in 1..Len(old.data) : (old.data \o units)[i] = old.data[i]
    BY <1>1, LenProperties, ConcatProperties DEF Page
  <2>3. Begins(old.data, qg[url].data)
    BY <1>3, <2>2 DEF Begins
  <2>4. Extends(pg, qg)
    <3>1. SUFFICES ASSUME NEW u \in DOMAIN pg
                   PROVE  /\ u \in DOMAIN qg
                          /\ Begins(pg[u].data, qg[u].data)
                          /\ pg[u].full => qg[u].full
      BY DEF Extends
    <3>2. CASE u = url
      BY <1>2, <1>3, <2>1, <2>3, <3>2
    <3>3. CASE u # url
      BY <1>2, <3>3, ExtendsItself DEF Extends
    <3>4. QED
      BY <3>2, <3>3
  <2>5. QED
    <3>1. \A u \in DOMAIN qg :
             \/ u \in DOMAIN pg /\ qg[u].data = pg[u].data
             \/ u \in DOMAIN pg /\ qg[u].data = pg[u].data \o units
      BY <1>2, <1>3, <2>1
    <3>2. QED
      BY <1>2, <1>4, <2>4, <3>1 DEF qg, IsCached
<1>6. CASE ~IsCached(pg, url)
  <2>1. old.data = <<>> /\ url \notin DOMAIN pg
    BY <1>6 DEF PageOrNew, IsCached, EmptyPage, old
  <2>2. qg[url].data = units
    BY <1>3, <2>1, ConcatEmptySeq
  <2>3. Extends(pg, qg)
    BY <1>2, <2>1, ExtendsItself DEF Extends
  <2>4. QED
    <3>1. \A u \in DOMAIN qg :
             \/ u \in DOMAIN pg /\ qg[u].data = pg[u].data
             \/ qg[u].data = units
      BY <1>2, <2>1, <2>2
    <3>2. QED
      BY <1>2, <1>4, <2>3, <3>1 DEF qg, IsCached
<1>7. QED
  BY <1>5, <1>6

\* What setFullyLoaded does.
LEMMA SetFullyLoadedFacts ==
  ASSUME NEW pg, PagesFit(pg), NEW url
  PROVE  LET qg == SetFullyLoaded(pg, url) IN
         /\ PagesFit(qg) /\ Extends(pg, qg)
         /\ DOMAIN qg = DOMAIN pg
         /\ \A u \in DOMAIN pg : qg[u].data = pg[u].data
         /\ IsCached(pg, url) => IsFullyLoaded(qg, url)
<1> DEFINE qg == SetFullyLoaded(pg, url)
<1>1. PagesFit(qg)
  BY SetFullyLoadedFits
<1>2. /\ DOMAIN qg = DOMAIN pg
      /\ \A u \in DOMAIN pg : qg[u].data = pg[u].data /\ (pg[u].full => qg[u].full)
      /\ IsCached(pg, url) => qg[url].full
  BY DEF SetFullyLoaded, IsCached, PagesFit, Page
<1> HIDE DEF qg
<1>3. Extends(pg, qg)
  BY <1>2, ExtendsItself DEF Extends
<1>4. QED
  BY <1>1, <1>2, <1>3 DEF IsFullyLoaded, IsCached, qg

-----------------------------------------------------------------------------
(* Readers.                                                                *)

\* What is true of a reader stays true while pages grow.
LEMMA ReaderKeeps ==
  ASSUME NEW pg, PagesFit(pg), NEW qg, PagesFit(qg), Extends(pg, qg),
         NEW h \in Handler, Mirrors(h, pg), Seals(h, pg)
  PROVE  Mirrors(h, qg) /\ Seals(h, qg)
<1>1. Seals(h, qg)
  BY DEF Seals, Extends, IsFullyLoaded, IsCached
<1>2. ASSUME h.type = "CASH", h.pos > 0
      PROVE  IsCached(qg, h.url) /\ Behind(h.since, h.handed, qg[h.url].data)
  <2>1. /\ h.url \in DOMAIN pg /\ h.url \in DOMAIN qg
        /\ Behind(h.since, h.handed, pg[h.url].data)
        /\ Begins(pg[h.url].data, qg[h.url].data)
    BY <1>2 DEF Mirrors, Extends, IsCached
  <2>2. /\ Len(h.handed) \in Nat /\ Len(pg[h.url].data) \in Nat
        /\ Len(qg[h.url].data) \in Nat /\ h.since \in Nat
    BY <2>1, LenProperties DEF PagesFit, Page, Handler
  <2> DEFINE s == h.handed
             t == pg[h.url].data
             k == h.since
  <2>3. /\ k + Len(s) <= Len(t) /\ \A i \in 1..Len(s) : t[k + i] = s[i]
        /\ Len(t) <= Len(qg[h.url].data)
        /\ \A i \in 1..Len(t) : qg[h.url].data[i] = t[i]
    BY <2>1 DEF Behind, Begins
  <2>4. Len(s) \in Nat /\ Len(t) \in Nat /\ k \in Nat
    BY <2>2
  <2>5. h.url \in DOMAIN qg
    BY <2>1
  <2> DEFINE q == qg[h.url].data
  <2>6. Len(t) <= Len(q) /\ Len(q) \in Nat /\ \A i \in 1..Len(t) : q[i] = t[i]
    BY <2>2, <2>3
  <2> SUFFICES Behind(k, s, q)
    BY <2>5 DEF IsCached
  <2> HIDE DEF s, t, k, q
  <2>7. \A i \in 1..Len(s) : k + i \in 1..Len(t)
    BY <2>3, <2>4
  <2>8. QED
    BY <2>3, <2>4, <2>6, <2>7 DEF Behind
<1>3. QED
  BY <1>1, <1>2 DEF Mirrors

LEMMA OneReads ==
  ASSUME NEW pg, PagesFit(pg), NEW qg, PagesFit(qg), Extends(pg, qg),
         NEW hs, HandlersFit(hs), Reads(hs, pg),
         NEW c \in DOMAIN hs, NEW h, Mirrors(h, qg), Seals(h, qg)
  PROVE  Reads([hs EXCEPT ![c] = h], qg)
<1> DEFINE gs == [hs EXCEPT ![c] = h]
<1>1. DOMAIN gs = DOMAIN hs /\ \A d \in DOMAIN hs : gs[d] = IF d = c THEN h ELSE hs[d]
  BY DEF HandlersFit
<1>2. \A d \in DOMAIN hs : Mirrors(hs[d], qg) /\ Seals(hs[d], qg)
  BY ReaderKeeps DEF Reads, HandlersFit
<1> HIDE DEF gs
<1>3. Reads(gs, qg)
  BY <1>1, <1>2 DEF Reads
<1>4. QED
  BY <1>3 DEF gs

\* sendChunkFromCache: the handler moves on in its page by what it sends.
LEMMA ServedChunk ==
  ASSUME NEW pg, PagesFit(pg), NEW h \in Handler, RoleFits(h),
         h.type \in {"CASH", "HEIR"}, CanAcquire(pg, h.url, h.pos)
  PROVE  LET g == SendChunkFromCache(pg, h)
             data == pg[h.url].data
         IN  \E chunk \in Seq(Unit) :
               /\ g \in Handler /\ g.url = h.url /\ ~g.respReady
               /\ g.type = h.type \/ (h.type = "HEIR" /\ g.type = "LOAD_CASHING")
               /\ g.handed = h.handed \o chunk
               /\ g.pos = h.pos + Len(chunk) /\ g.pos <= Len(data)
               /\ g.since = h.since
               /\ \A i \in 1..Len(chunk) : chunk[i] = data[h.pos + i]
               /\ g.respSent => h.respSent \/ IsFullyLoaded(pg, h.url)
<1> DEFINE g == SendChunkFromCache(pg, h)
           data == pg[h.url].data
           chunk == AcquireChunk(pg, h.url, h.pos)
           end == Min({Len(data), h.pos + ChunkSize})
           moved == [h EXCEPT !.pos = @ + Len(chunk)]
<1>1. data \in Seq(Unit) /\ IsCached(pg, h.url)
  BY DEF PagesFit, CanAcquire, IsCached, Page
<1>2. /\ Len(data) \in Nat /\ h.pos \in Nat /\ h.pos <= Len(data)
      /\ \A i \in 1..Len(data) : data[i] \in Unit
  BY <1>1, LenProperties, ElementOfSeq DEF CanAcquire, Handler
<1>3. end \in Nat /\ end <= Len(data) /\ h.pos <= end
  <2>1. {Len(data), h.pos + ChunkSize} \in SUBSET Nat
    BY <1>2, ChunkSizeAssumption
  <2>2. end \in {Len(data), h.pos + ChunkSize} /\ end <= Len(data)
    <3> HIDE DEF data
    <3>1. QED
      BY <2>1, MinOfNats
  <2>3. QED
    BY <1>2, <2>1, <2>2, ChunkSizeAssumption
<1>4. chunk = SubSeq(data, h.pos + 1, end)
  BY DEF AcquireChunk
<1> HIDE DEF data, end, chunk
<1>5. /\ chunk \in Seq(Unit)
      /\ Len(chunk) = end - h.pos
      /\ \A i \in 1..Len(chunk) : chunk[i] = data[h.pos + i]
  <2>1. /\ h.pos + 1 \in Int /\ end \in Int
        /\ \A i \in (h.pos + 1)..end : data[i] \in Unit
    BY <1>2, <1>3
  <2>2. /\ chunk \in Seq(Unit)
        /\ Len(chunk) = IF h.pos + 1 <= end THEN end - (h.pos + 1) + 1 ELSE 0
        /\ \A i \in 1..(end - (h.pos + 1) + 1) : chunk[i] = data[(h.pos + 1) + i - 1]
    BY <1>4, <2>1, SubSeqProperties
  <2>3. Len(chunk) = end - h.pos
    BY <1>2, <1>3, <2>2
  <2>4. ASSUME NEW i \in 1..Len(chunk) PROVE chunk[i] = data[h.pos + i]
    <3>1. i \in 1..(end - (h.pos + 1) + 1) /\ (h.pos + 1) + i - 1 = h.pos + i
      BY <1>2, <1>3, <2>3
    <3>2. QED
      BY <2>2, <3>1
  <2>5. QED
    BY <2>2, <2>3, <2>4
<1>6. h.respReady = FALSE
  BY DEF RoleFits, Handler
<1>7. g \in Handler
  BY SendChunkFromCacheFits
<1>8. CASE chunk # <<>>
  <2>1. g = SendResponseChunk(moved, chunk)
    BY <1>8 DEF SendChunkFromCache, chunk
  <2>2. /\ moved.url = h.url /\ moved.type = h.type /\ moved.handed = h.handed
        /\ moved.since = h.since
        /\ moved.pos = h.pos + Len(chunk) /\ moved.respReady = h.respReady
        /\ moved.respSent = h.respSent
    BY DEF Handler
  <2>a. moved \in Handler
    <3>1. h.pos + Len(chunk) \in Nat
      BY <1>2, <1>5, LenProperties
    <3>2. QED
      BY <3>1 DEF Handler
  <2> HIDE DEF moved, g
  <2>3. /\ g.url = moved.url /\ g.type = moved.type /\ g.pos = moved.pos
        /\ g.since = moved.since
        /\ g.handed = moved.handed \o chunk /\ g.respReady = moved.respReady
        /\ g.respSent = (moved.respSent \/ (moved.respReady /\ (moved.type = "CASH" => Len(chunk) < ChunkSize)))
    BY <2>1, <2>a DEF SendResponseChunk, Handler
  <2>4. g.pos <= Len(data)
    BY <1>2, <1>3, <1>5, <2>2, <2>3
  <2>5. QED
    BY <1>5, <1>6, <1>7, <2>2, <2>3, <2>4 DEF g, data
<1>9. CASE chunk = <<>>
  <2>1. g = AtPageEnd(pg, h)
    BY <1>9 DEF SendChunkFromCache, chunk
  <2>2. IsFullyLoaded(pg, h.url) \in BOOLEAN
    BY DEF IsFullyLoaded, IsCached, PagesFit, Page
  <2>3. \/ IsFullyLoaded(pg, h.url) /\ g = [h EXCEPT !.respSent = TRUE]
        \/ h.type = "HEIR" /\ g = BecomeMaster(h)
        \/ g = h
    BY <2>1, <2>2 DEF AtPageEnd
  <2> HIDE DEF g
  <2>4. /\ g.url = h.url /\ g.handed = h.handed /\ g.pos = h.pos
        /\ g.respReady = h.respReady /\ g.since = h.since
        /\ g.type = h.type \/ (h.type = "HEIR" /\ g.type = "LOAD_CASHING")
        /\ g.respSent => h.respSent \/ IsFullyLoaded(pg, h.url)
    BY <2>3 DEF Handler, BecomeMaster
  <2>5. h.handed = h.handed \o chunk /\ Len(chunk) = 0
    BY <1>9, ConcatEmptySeq, EmptySeq DEF Handler
  <2>6. g.pos = h.pos + Len(chunk) /\ g.pos <= Len(data)
    BY <1>2, <2>4, <2>5
  <2>7. QED
    BY <1>5, <1>6, <1>7, <2>4, <2>5, <2>6 DEF g, data
<1>10. QED
  BY <1>8, <1>9

LEMMA ChunkReads ==
  ASSUME NEW pg, PagesFit(pg), NEW h \in Handler, RoleFits(h),
         h.type \in {"CASH", "HEIR"}, CanAcquire(pg, h.url, h.pos),
         Mirrors(h, pg), Seals(h, pg)
  PROVE  Mirrors(SendChunkFromCache(pg, h), pg) /\ Seals(SendChunkFromCache(pg, h), pg)
<1> DEFINE g == SendChunkFromCache(pg, h)
           data == pg[h.url].data
<1>1. PICK chunk \in Seq(Unit) :
        /\ g \in Handler /\ g.url = h.url /\ ~g.respReady
        /\ g.type = h.type \/ (h.type = "HEIR" /\ g.type = "LOAD_CASHING")
        /\ g.handed = h.handed \o chunk
        /\ g.pos = h.pos + Len(chunk) /\ g.pos <= Len(data)
        /\ g.since = h.since
        /\ \A i \in 1..Len(chunk) : chunk[i] = data[h.pos + i]
        /\ g.respSent => h.respSent \/ IsFullyLoaded(pg, h.url)
  BY ServedChunk
<1>2. h.url \in DOMAIN pg /\ Len(data) \in Nat
  BY LenProperties DEF CanAcquire, IsCached, PagesFit, Page
<1> HIDE DEF g
<1>3. Seals(g, pg)
  BY <1>1 DEF Seals
<1>4. ASSUME g.type = "CASH"
      PROVE  g.since + Len(g.handed) = g.pos /\ Behind(g.since, g.handed, data)
  <2>1. /\ h.type = "CASH" /\ h.since + Len(h.handed) = h.pos
        /\ h.pos \in Nat /\ h.since \in Nat
    BY <1>1, <1>4 DEF Mirrors, Handler
  <2>2. /\ h.handed \in Seq(Unit) /\ Len(h.handed) \in Nat /\ Len(chunk) \in Nat
        /\ Len(h.handed \o chunk) = Len(h.handed) + Len(chunk)
        /\ \A i \in 1..(Len(h.handed) + Len(chunk)) :
             (h.handed \o chunk)[i] = IF i <= Len(h.handed) THEN h.handed[i]
                                      ELSE chunk[i - Len(h.handed)]
    BY LenProperties, ConcatProperties DEF Handler
  <2>3. g.since + Len(g.handed) = g.pos
    BY <1>1, <2>1, <2>2
  <2>4. ASSUME NEW i \in 1..Len(g.handed)
        PROVE  data[g.since + i] = g.handed[i]
    <3>1. CASE i <= Len(h.handed)
      <4>1. h.pos > 0 /\ i \in 1..Len(h.handed)
        BY <2>1, <2>2, <3>1
      <4>2. data[h.since + i] = h.handed[i]
        BY <2>1, <4>1 DEF Mirrors, Behind
      <4>3. QED
        BY <1>1, <2>1, <2>2, <2>3, <3>1, <4>2
    <3>2. CASE ~(i <= Len(h.handed))
      <4>4. Len(g.handed) = Len(h.handed) + Len(chunk)
        BY <1>1, <2>2
      <4>1. /\ i - Len(h.handed) \in 1..Len(chunk)
            /\ h.pos + (i - Len(h.handed)) = h.since + i
        BY <2>1, <2>2, <3>2, <4>4
      <4>2. chunk[i - Len(h.handed)] = data[h.since + i]
        BY <1>1, <4>1
      <4>3. QED
        BY <1>1, <2>1, <2>2, <2>3, <3>2, <4>2
    <3>3. QED
      BY <3>1, <3>2
  <2>5. QED
    BY <1>1, <2>3, <2>4 DEF Behind
<1>5. g.type # "STANDBY"
  BY <1>1
<1>6. Mirrors(g, pg)
  BY <1>1, <1>2, <1>4, <1>5 DEF Mirrors, IsCached
<1>7. QED
  BY <1>3, <1>6 DEF g

\* Who is left after removeClient: everybody else as before, but for the
\* reader that has become the heir.
LEMMA LeftBehind ==
  ASSUME HandlersFit(handlers), NEW c, NEW h \in Handler,
         h.server # NoSocket => h.url \in Urls
  PROVE  /\ DOMAIN Erase(WithHeir(h), {c}) \subseteq DOMAIN handlers
         /\ \A e \in DOMAIN Erase(WithHeir(h), {c}) :
              LET g == Erase(WithHeir(h), {c})[e] IN
              \/ g = handlers[e]
              \/ /\ e \in Deputies(h)
                 /\ g.type = "HEIR" /\ g.url = handlers[e].url
                 /\ g.pos = handlers[e].pos /\ g.handed = handlers[e].handed
<1>1. /\ DOMAIN Erase(WithHeir(h), {c}) = DOMAIN WithHeir(h) \ {c}
      /\ \A e \in DOMAIN WithHeir(h) \ {c} :
           Erase(WithHeir(h), {c})[e] = WithHeir(h)[e]
  BY DEF Erase, Restrict
<1>2. CASE ~HandsOver(h)
  BY <1>1, <1>2 DEF WithHeir
<1>3. CASE HandsOver(h)
  <2> DEFINE d == Max(Deputies(h))
             g == BecomeHeir(handlers[d], h)
  <2>1. d \in Deputies(h) /\ d \in DOMAIN handlers /\ handlers[d].url = h.url
    BY <1>3, DeputyIsReader DEF HandsOver, Deputies
  <2> HIDE DEF d
  <2>2. handlers[d] \in Handler
    BY <2>1 DEF HandlersFit
  <2>3. /\ g.type = "HEIR" /\ g.url = handlers[d].url
        /\ g.pos = handlers[d].pos /\ g.handed = handlers[d].handed
    BY <2>1, <2>2 DEF BecomeHeir, Handler
  <2> HIDE DEF g
  <2>4. WithHeir(h) = [handlers EXCEPT ![d] = g]
    BY <1>3 DEF WithHeir, d, g
  <2>5. /\ DOMAIN WithHeir(h) = DOMAIN handlers
        /\ \A e \in DOMAIN handlers : WithHeir(h)[e] = IF e = d THEN g ELSE handlers[e]
    BY <2>1, <2>4 DEF HandlersFit
  <2>6. QED
    BY <1>1, <2>1, <2>3, <2>5
<1>4. QED
  BY <1>2, <1>3

\* A page that goes is there, not complete, and no reader is in it.
LEMMA DroppedAlone ==
  ASSUME NEW h, NEW hasHeir \in HasHeir(h), DropsPage(h, hasHeir),
         ~DestructorThrows(h, hasHeir),
         h.type = "LOAD_CASHING" /\ IsCached(pages, h.url) => h.server # NoSocket
  PROVE  /\ IsCached(pages, h.url) /\ ~IsFullyLoaded(pages, h.url)
         /\ Deputies(h) = {}
<1>1. IsCached(pages, h.url) /\ h.type = "LOAD_CASHING" /\ ~hasHeir
  BY DEF DropsPage, DestructorThrows, DeletePageThrows
<1>2. ~HandsOver(h)
  BY <1>1 DEF HasHeir
<1>3. QED
  BY <1>1, <1>2 DEF HandsOver, DropsPage

\* A page is dropped that no reader is in.
LEMMA DropReads ==
  ASSUME PagesFit(pages), HandlersFit(handlers), NEW h, ~IsFullyLoaded(pages, h.url),
         Deputies(h) = {}, NEW d \in DOMAIN handlers,
         Mirrors(handlers[d], pages), Seals(handlers[d], pages)
  PROVE  /\ Mirrors(handlers[d], DeletePage(pages, h.url))
         /\ Seals(handlers[d], DeletePage(pages, h.url))
<1> DEFINE g == handlers[d]
           qg == DeletePage(pages, h.url)
<1>1. /\ DOMAIN qg = DOMAIN pages \ {h.url}
      /\ \A u \in DOMAIN qg : qg[u] = pages[u]
  BY DEF DeletePage, Erase, Restrict
<1>2. g.type = "CASH" /\ g.pos > 0 => g.url # h.url
  BY DEF Deputies
<1> HIDE DEF g, qg
<1>3. Mirrors(g, pages) /\ Seals(g, pages)
  BY DEF g
<1>4. Seals(g, qg)
  BY <1>1, <1>3 DEF Seals, IsFullyLoaded, IsCached
<1>5. Mirrors(g, qg)
  BY <1>1, <1>2, <1>3 DEF Mirrors, IsCached
<1>6. QED
  BY <1>4, <1>5 DEF g, qg

-----------------------------------------------------------------------------
(* What the actions do to handlers and pages.                              *)

\* A client is removed, with handler h as it was or as it became in the step.
Removes(h) ==
  /\ h.server # NoSocket => h.url \in Urls
  /\ handlers' = Erase(WithHeir(h), {Slot})
  /\ \/ /\ UNCHANGED pages
        /\ \A s \in DOMAIN peer' : peer'[s] = peer[s]
     \/ /\ pages' = DeletePage(pages, h.url)
        /\ IsCached(pages, h.url) /\ ~IsFullyLoaded(pages, h.url)
        /\ Deputies(h) = {}
        /\ \A s \in DOMAIN peer' : peer'[s] = Losing(peer[s], h.url)
  /\ \A s \in DOMAIN peer' : /\ s \in DOMAIN peer
                             /\ peer'[s].conn = peer[s].conn
                             /\ peer'[s].sent = peer[s].sent
  /\ handlers[Slot].server # NoSocket =>
       /\ h = handlers[Slot]
       /\ h.server \in DOMAIN peer' => HandsOver(h)
  /\ UNCHANGED connects

Stays == UNCHANGED <<handlers, pages, peer, connects>>

LEMMA RemoveClientRemoves ==
  ASSUME RInv, NEW h \in Handler, NEW fds, NEW socks, NEW prs,
         RemoveClient(Slot, h, fds, socks, prs), UNCHANGED connects,
         Tables(fds, socks, prs),
         h.type = "LOAD_CASHING" /\ IsCached(pages, h.url) => h.server # NoSocket,
         h.server # NoSocket => h.url \in Urls,
         h.type = "CASH" => h.server = NoSocket,
         handlers[Slot].server # NoSocket =>
           h = handlers[Slot] /\ fds = pollFds /\ prs = peer,
         \A s \in DOMAIN prs \ ({Slot} \cup ClosedWith(h, fds)) :
           s \in DOMAIN peer /\ prs[s] = peer[s]
  PROVE  Stays \/ Removes(h)
<1>1. HandlersFit(handlers) /\ PagesFit(pages)
  BY DEF RInv, IInv
<1>2. CASE Die("segfault") \/ Die("terminated")
  BY <1>2 DEF Die, Stays
<1> DEFINE gone == {Slot} \cup ClosedWith(h, fds)
<1>3. CASE /\ handlers' = Erase(WithHeir(h), {Slot})
           /\ \/ /\ IsCached(pages, h.url) /\ ~IsFullyLoaded(pages, h.url)
                 /\ Deputies(h) = {}
                 /\ pages' = DeletePage(pages, h.url)
                 /\ peer' = Erase(PeersLosing(prs, h.url), gone)
              \/ peer' = Erase(prs, gone) /\ UNCHANGED pages
  <2>1. \/ /\ UNCHANGED pages
           /\ \A s \in DOMAIN peer' : peer'[s] = prs[s]
        \/ /\ pages' = DeletePage(pages, h.url)
           /\ IsCached(pages, h.url) /\ ~IsFullyLoaded(pages, h.url)
           /\ Deputies(h) = {}
           /\ \A s \in DOMAIN peer' : peer'[s] = Losing(prs[s], h.url)
    BY <1>3 DEF Erase, Restrict, PeersLosing
  <2>2. \A s \in DOMAIN peer' : /\ s \in DOMAIN prs \ gone
                              /\ peer'[s].conn = prs[s].conn
                              /\ peer'[s].sent = prs[s].sent
    <3>1. PICK qrs : /\ peer' = Erase(qrs, gone)
                     /\ DOMAIN qrs = DOMAIN prs
                     /\ \A s \in DOMAIN prs : /\ qrs[s].conn = prs[s].conn
                                              /\ qrs[s].sent = prs[s].sent
      <4>1. CASE peer' = Erase(PeersLosing(prs, h.url), gone)
        <5>2. \A p \in Peer : /\ Losing(p, h.url).conn = p.conn
                              /\ Losing(p, h.url).sent = p.sent
          BY DEF Losing, Peer
        <5>1. /\ DOMAIN PeersLosing(prs, h.url) = DOMAIN prs
              /\ \A s \in DOMAIN prs :
                   /\ PeersLosing(prs, h.url)[s].conn = prs[s].conn
                   /\ PeersLosing(prs, h.url)[s].sent = prs[s].sent
          BY <5>2 DEF PeersLosing, Tables
        <5>3. QED
          BY <4>1, <5>1
      <4>2. CASE peer' = Erase(prs, gone)
        BY <4>2
      <4>3. QED
        BY <1>3, <4>1, <4>2
    <3>2. QED
      BY <3>1 DEF Erase, Restrict
  <2>6. \A s \in DOMAIN peer' : s \in DOMAIN peer /\ prs[s] = peer[s]
    BY <2>2
  <2>3. ASSUME handlers[Slot].server # NoSocket, h.server \in DOMAIN peer'
        PROVE  HandsOver(h)
    <3>1. h.server \in DOMAIN peer \ ClosedWith(h, fds)
      BY <2>2, <2>3
    <3>2. DOMAIN peer \subseteq Range(fds)
      BY <2>3 DEF RInv, IInv, Tables
    <3>3. h.type # "CASH"
      BY <2>3
    <3>4. QED
      BY <3>1, <3>2, <3>3 DEF ClosedWith, KeepsServer
  <2>4. QED
    BY <1>3, <2>1, <2>2, <2>3, <2>6 DEF Removes
<1>4. ASSUME NEW hasHeir \in HasHeir(h), DropsPage(h, hasHeir),
             ~DestructorThrows(h, hasHeir)
      PROVE  /\ IsCached(pages, h.url) /\ ~IsFullyLoaded(pages, h.url)
             /\ Deputies(h) = {}
  BY <1>4, DroppedAlone
<1>5. QED
  BY <1>2, <1>3, <1>4 DEF RemoveClient

LEMMA AsIsRemoves ==
  ASSUME RInv, ReleaseFinished \/ DropClient \/ DropReader
  PROVE  Stays \/ \E h \in Handler : Removes(h)
<1> DEFINE h == handlers[Slot]
<1>1. SlotIs("CLIENT") /\ RemoveThisClient(h)
  BY DEF ReleaseFinished, DropClient, DropReader
<1>2. h \in Handler /\ RoleFits(h)
  BY <1>1, SlotFacts DEF RInv
<1> HIDE DEF h
<1>3. h.type = "LOAD_CASHING" => h.server # NoSocket
  BY <1>2 DEF RoleFits
<1>4. h.server # NoSocket => h.url \in Urls
  BY <1>2 DEF RoleFits, Handler
<1>5. h.type = "CASH" => h.server = NoSocket
  BY <1>2 DEF RoleFits
<1>6. h = handlers[Slot]
  BY DEF h
<1>7. RemoveClient(Slot, h, pollFds, sockets, peer) /\ UNCHANGED connects
  BY <1>1 DEF RemoveThisClient
<1>8. Tables(pollFds, sockets, peer)
  BY DEF RInv, IInv
<1>9. QED
  BY <1>2, <1>3, <1>4, <1>5, <1>6, <1>7, <1>8, RemoveClientRemoves

\* A handler that has just been given a request for which there is no page.
LEMMA ConnectFailsRemoves ==
  ASSUME RInv, NEW u \in Urls, ConnectFails(u)
  PROVE  Stays \/ \E h \in Handler : Removes(h)
<1> DEFINE h == Requesting(u)
<1>1. /\ handlers[Slot] \in Handler
      /\ handlers[Slot].type = "STANDBY" /\ handlers[Slot].server = NoSocket
      /\ h \in Handler /\ h = WithRequest(handlers[Slot], u, "LOAD_CASHING")
      /\ h.type = AcquireHandlerType(pages, u)
  BY RequestFacts DEF RInv, ConnectFails, RequestArrives, Requesting, WithRequest, Handler
<1>2. /\ h.type = "LOAD_CASHING" /\ h.server = NoSocket /\ h.url = u
      /\ ~IsCached(pages, u)
  BY <1>1 DEF WithRequest, Handler, AcquireHandlerType
<1> HIDE DEF h
<1>3. /\ RemoveClient(Slot, h, pollFds, sockets, peer) /\ UNCHANGED connects
  BY DEF ConnectFails, RemoveThisClient, h
<1>4. Tables(pollFds, sockets, peer)
  BY DEF RInv, IInv
<1>5. QED
  BY <1>1, <1>2, <1>3, <1>4, RemoveClientRemoves

\* The connection that was just made is closed again, because nobody reads a
\* page that is not there.
LEMMA SendRequestFailsRemoves ==
  ASSUME RInv, NEW u \in Urls, SendRequestFails(u)
  PROVE  Stays \/ \E h \in Handler : Removes(h)
<1> DEFINE h == Connected(Requesting(u), NewFd)
           fds == Append(pollFds, NewFd)
           socks == Insert(sockets, NewFd, "SERVER")
           prs == Put(peer, NewFd, Server(u, connects + 1))
<1>1. /\ handlers[Slot] \in Handler
      /\ handlers[Slot].type = "STANDBY" /\ handlers[Slot].server = NoSocket
      /\ Requesting(u) = WithRequest(handlers[Slot], u, "LOAD_CASHING")
      /\ Requesting(u).type = "LOAD_CASHING"
      /\ Requesting(u).type = AcquireHandlerType(pages, u)
  <2>1. RequestArrives(u, "LOAD_CASHING")
    BY DEF SendRequestFails
  <2>2. /\ handlers[Slot] \in Handler
        /\ handlers[Slot].type = "STANDBY" /\ handlers[Slot].server = NoSocket
        /\ Requesting(u) = WithRequest(handlers[Slot], u, "LOAD_CASHING")
    BY <2>1, RequestFacts DEF RInv
  <2>3. QED
    BY <2>1, <2>2 DEF RequestArrives, Requesting, WithRequest, Handler
<1>2. NewFd \in Fd /\ NewFd \notin DOMAIN peer
  BY NewFdIsFree DEF SendRequestFails
<1>3. h \in Handler /\ h.type = "LOAD_CASHING" /\ h.server = NewFd /\ h.url = u
  BY <1>1, <1>2 DEF Connected, WithRequest, Handler, HandlerType
<1>4. ~IsCached(pages, u)
  BY <1>1 DEF AcquireHandlerType
<1> HIDE DEF h
<1>5. Deputies(h) = {}
  BY <1>3, <1>4 DEF Deputies, RInv, Reads, Mirrors
<1>6. NewFd # NoSocket
  BY <1>2 DEF Fd, NoSocket
<1>7. NewFd \in Range(fds)
  <2>1. pollFds \in Seq({Listener} \cup Fd) /\ IsInjective(pollFds)
    BY DEF RInv, IInv, Tables
  <2>2. NewFd \notin Range(pollFds)
    BY <1>2 DEF RInv, IInv, Tables, Fd, Listener
  <2>3. QED
    BY <1>2, <2>1, <2>2, AppendElements
<1>13. Tables(fds, socks, prs)
  <2>1. Server(u, connects + 1) \in ServerPeer /\ Server(u, connects + 1) \in Peer
    BY DEF RInv, IInv, Server, ServerPeer, Peer
  <2>2. QED
    BY <1>2, <2>1, TablesAdd DEF RInv, IInv
<1> HIDE DEF fds, socks
<1>8. ClosedWith(h, fds) = {NewFd}
  BY <1>3, <1>5, <1>7 DEF ClosedWith, KeepsServer, HandsOver
<1>9. \A s \in DOMAIN prs \ {NewFd} : s \in DOMAIN peer /\ prs[s] = peer[s]
  BY DEF Put
<1> HIDE DEF prs
<1>10. CASE RemoveClient(Slot, h, fds, socks, prs)
  <2>1. UNCHANGED connects
    BY DEF SendRequestFails
  <2>2. \A s \in DOMAIN prs \ ({Slot} \cup ClosedWith(h, fds)) :
          s \in DOMAIN peer /\ prs[s] = peer[s]
    BY <1>8, <1>9
  <2>3. QED
    BY <1>1, <1>3, <1>4, <1>10, <1>13, <2>1, <2>2, RemoveClientRemoves
<1>11. CASE Die("terminated")
  BY <1>11 DEF Die, Stays, SendRequestFails
<1>12. QED
  BY <1>10, <1>11 DEF SendRequestFails, h, fds, socks, prs

\* A reader or an heir is served, by handler h: the one that is there, or the
\* one a request has just made of a handler without a role.
Sends(c, h) ==
  /\ RoleFits(h) /\ h.type \in {"CASH", "HEIR"}
  /\ CanAcquire(pages, h.url, h.pos)
  /\ \/ h = handlers[c]
     \/ /\ handlers[c].type = "STANDBY"
        /\ h.handed = <<>> /\ h.pos = 0 /\ h.since = 0 /\ ~h.respSent
  /\ handlers' = [handlers EXCEPT ![c] = SendChunkFromCache(pages, h)]
  /\ UNCHANGED <<pages, peer, connects>>

LEMMA ServedSends ==
  ASSUME RInv, NEW c \in DOMAIN handlers,
         handlers[c].type \in {"CASH", "HEIR"},
         CanAcquire(pages, handlers[c].url, handlers[c].pos),
         HandlerBecomes(c, SendChunkFromCache(pages, handlers[c]))
  PROVE  \E h \in Handler : Sends(c, h)
<1>1. handlers[c] \in Handler /\ RoleFits(handlers[c])
  BY SlotFacts DEF RInv
<1>2. Sends(c, handlers[c])
  BY <1>1 DEF Sends, HandlerBecomes
<1>3. QED
  BY <1>1, <1>2

LEMMA RequestSends ==
  ASSUME RInv, NEW u \in Urls, RequestFromCache(u)
  PROVE  Slot \in DOMAIN handlers /\ \E h \in Handler : Sends(Slot, h)
<1> DEFINE h == RequestSent(Requesting(u))
<1>1. RequestArrives(u, "CASH") /\ CanAcquire(pages, u, handlers[Slot].pos)
  BY DEF RequestFromCache
<1>2. /\ handlers[Slot] \in Handler /\ RoleFits(handlers[Slot])
      /\ handlers[Slot].type = "STANDBY" /\ handlers[Slot].server = NoSocket
      /\ Slot \in DOMAIN handlers /\ u # NoUrl
      /\ Requesting(u) = WithRequest(handlers[Slot], u, "CASH")
  BY <1>1, RequestFacts DEF RInv
<1>3. h = [handlers[Slot] EXCEPT !.url = u, !.reqReady = TRUE, !.type = "CASH",
                                 !.reqSent = TRUE]
  BY <1>2 DEF RequestSent, WithRequest, Handler
<1>4. h \in Handler
  BY <1>2, <1>3 DEF Handler, HandlerType
<1>5. /\ h.url = u /\ h.reqReady = TRUE /\ h.type = "CASH" /\ h.reqSent = TRUE
      /\ h.server = NoSocket /\ h.pos = handlers[Slot].pos
      /\ h.handed = handlers[Slot].handed /\ h.since = handlers[Slot].since
      /\ h.respReady = handlers[Slot].respReady
      /\ h.respSent = handlers[Slot].respSent
  BY <1>2, <1>3 DEF Handler
<1>6. /\ ~handlers[Slot].respReady /\ ~handlers[Slot].respSent
      /\ handlers[Slot].pos = 0
  BY <1>2 DEF RoleFits
<1>7. handlers[Slot].handed = <<>> /\ handlers[Slot].since = 0
  BY <1>2 DEF RInv, Reads, Mirrors
<1> HIDE DEF h
<1>8. RoleFits(h)
  BY <1>2, <1>5, <1>6 DEF RoleFits
<1>9. /\ handlers' = [handlers EXCEPT ![Slot] = SendChunkFromCache(pages, h)]
      /\ UNCHANGED <<pages, peer, connects>>
  BY DEF RequestFromCache, HandlerBecomes, h
<1>10. Sends(Slot, h)
  BY <1>1, <1>2, <1>5, <1>6, <1>7, <1>8, <1>9 DEF Sends
<1>11. QED
  BY <1>2, <1>4, <1>10

LEMMA SendsReads ==
  ASSUME RInv, NEW c \in DOMAIN handlers, NEW h \in Handler, Sends(c, h)
  PROVE  Reads(handlers', pages')
<1>1. HandlersFit(handlers) /\ PagesFit(pages) /\ Reads(handlers, pages)
  BY DEF RInv, IInv
<1>2. Mirrors(h, pages) /\ Seals(h, pages)
  <2>1. CASE h = handlers[c]
    BY <1>1, <2>1 DEF Reads
  <2>2. CASE h.handed = <<>> /\ h.pos = 0 /\ h.since = 0 /\ ~h.respSent
    <3>1. h.type \in {"CASH", "HEIR"} /\ Len(h.handed) = 0
      BY <2>2, EmptySeq DEF Sends
    <3>2. QED
      BY <2>2, <3>1 DEF Mirrors, Seals
  <2>3. QED
    BY <2>1, <2>2 DEF Sends
<1>3. /\ Mirrors(SendChunkFromCache(pages, h), pages)
      /\ Seals(SendChunkFromCache(pages, h), pages)
  BY <1>1, <1>2, ChunkReads DEF Sends
<1>4. Reads([handlers EXCEPT ![c] = SendChunkFromCache(pages, h)], pages)
  BY <1>1, <1>3, OneReads, ExtendsItself
<1>5. QED
  BY <1>4 DEF Sends

LEMMA RemovesReads ==
  ASSUME RInv, NEW h \in Handler, Removes(h)
  PROVE  Reads(handlers', pages')
<1>1. HandlersFit(handlers) /\ PagesFit(pages) /\ Reads(handlers, pages)
  BY DEF RInv, IInv
<1>2. ASSUME NEW d \in DOMAIN handlers
      PROVE  Mirrors(handlers[d], pages') /\ Seals(handlers[d], pages')
  <2>1. Mirrors(handlers[d], pages) /\ Seals(handlers[d], pages)
    BY <1>1 DEF Reads
  <2>2. CASE UNCHANGED pages
    BY <2>1, <2>2
  <2>3. CASE /\ pages' = DeletePage(pages, h.url)
             /\ ~IsFullyLoaded(pages, h.url)
             /\ Deputies(h) = {}
    BY <1>1, <2>1, <2>3, DropReads
  <2>4. QED
    BY <2>2, <2>3 DEF Removes
<1>3. ASSUME NEW e \in DOMAIN handlers'
      PROVE  Mirrors(handlers'[e], pages') /\ Seals(handlers'[e], pages')
  <2>1. /\ e \in DOMAIN handlers
        /\ handlers'[e] = handlers[e] \/ handlers'[e].type = "HEIR"
    BY <1>1, LeftBehind DEF Removes
  <2>2. QED
    BY <1>2, <2>1 DEF Mirrors, Seals
<1>4. QED
  BY <1>3 DEF Reads

\* A loader's page gets some of what is received, and is complete when the
\* response is.
LEMMA ReceivePages ==
  ASSUME RInv, NEW c \in DOMAIN handlers, NEW n \in Nat, NEW stored \in 0..n,
         NEW complete \in BOOLEAN, Receive(c, n, stored, complete)
  PROVE  LET url == handlers[c].url
             units == SubSeq(Received(n), 1, stored)
         IN  /\ PagesFit(pages') /\ Extends(pages, pages')
             /\ units \in Seq(Unit)
             /\ \A u \in DOMAIN pages' :
                  \/ u \in DOMAIN pages /\ pages'[u].data = pages[u].data
                  \/ u \in DOMAIN pages /\ pages'[u].data = pages[u].data \o units
                  \/ pages'[u].data = units
             /\ handlers[c].type = "LOAD_CASHING" /\ complete =>
                  IsFullyLoaded(pages', url)
<1> DEFINE h == handlers[c]
           units == SubSeq(Received(n), 1, stored)
           mid == CacheWith(h, n, stored)
<1>1. /\ h \in Handler /\ RoleFits(h) /\ h.type \in Loading
      /\ Received(n) \in Seq(Unit) /\ PagesFit(pages')
  BY ReceivePreserves DEF RInv
<1>2. h.url \in Urls
  BY <1>1 DEF RoleFits, Handler, Loading
<1>3. PagesFit(pages)
  BY DEF RInv, IInv
<1>4. units \in Seq(Unit)
  <2>1. Received(n) \in [1..n -> Unit]
    BY <1>1, LenProperties DEF Received
  <2>2. \A i \in 1..stored : Received(n)[i] \in Unit
    BY <2>1
  <2>3. QED
    BY <2>2, SubSeqProperties
<1> HIDE DEF h
<1>5. pages' = IF complete THEN SetFullyLoaded(mid, h.url) ELSE mid
  BY DEF Receive, h
<1>6. mid = IF h.type = "LOAD_CASHING" THEN AppendCache(pages, h.url, units) ELSE pages
  BY DEF CacheWith
<1> HIDE DEF units, mid
<1>7. /\ PagesFit(mid) /\ Extends(pages, mid)
      /\ h.type = "LOAD_CASHING" => IsCached(mid, h.url)
      /\ \A u \in DOMAIN mid :
           \/ u \in DOMAIN pages /\ mid[u].data = pages[u].data
           \/ u \in DOMAIN pages /\ mid[u].data = pages[u].data \o units
           \/ mid[u].data = units
  <2>1. CASE h.type = "LOAD_CASHING"
    <3>1. mid = AppendCache(pages, h.url, units)
      BY <1>6, <2>1
    <3>2. QED
      BY <1>2, <1>3, <1>4, <3>1, AppendCacheCases
  <2>2. CASE h.type # "LOAD_CASHING"
    BY <1>3, <1>6, <2>2, ExtendsItself
  <2>3. QED
    BY <2>1, <2>2
<1>8. CASE complete
  <2>1. /\ Extends(mid, pages') /\ DOMAIN pages' = DOMAIN mid
        /\ \A u \in DOMAIN mid : pages'[u].data = mid[u].data
        /\ IsCached(mid, h.url) => IsFullyLoaded(pages', h.url)
    BY <1>5, <1>7, <1>8, SetFullyLoadedFacts
  <2>2. Extends(pages, pages')
    BY <1>1, <1>3, <1>7, <2>1, ExtendsFurther
  <2>3. \A u \in DOMAIN pages' :
           \/ u \in DOMAIN pages /\ pages'[u].data = pages[u].data
           \/ u \in DOMAIN pages /\ pages'[u].data = pages[u].data \o units
           \/ pages'[u].data = units
    BY <1>7, <2>1
  <2>4. QED
    BY <1>1, <1>4, <1>7, <2>1, <2>2, <2>3 DEF h, units
<1>9. CASE ~complete
  <2>1. pages' = mid
    BY <1>5, <1>9
  <2>2. QED
    BY <1>1, <1>4, <1>7, <1>9, <2>1 DEF h, units
<1>10. QED
  BY <1>8, <1>9

\* The loader before, g, and afterwards, h: it has sent what it received, or
\* nothing, and loads from the same server.
Passes(g, h, n, stored) ==
  /\ h.handed = g.handed \/ h.handed = g.handed \o Received(n)
  /\ h.server = g.server
  /\ stored = n => h.type = g.type

LEMMA ReceiveHandler ==
  ASSUME RInv, NEW c \in DOMAIN handlers, NEW n \in Nat, NEW stored \in 0..n,
         NEW complete \in BOOLEAN,
         \/ ServerData(c, n, stored, complete)
         \/ ServerDataRefused(c, n, stored, complete)
  PROVE  \E h \in Handler :
           /\ handlers' = [handlers EXCEPT ![c] = h]
           /\ h.type \in Loading /\ h.url = handlers[c].url
           /\ h.type = "LOAD_CASHING" => handlers[c].type = "LOAD_CASHING"
           /\ h.respReady = complete
           /\ Passes(handlers[c], h, n, stored)
<1> DEFINE h == Loaded(handlers[c], n, stored, complete)
<1>1. Receive(c, n, stored, complete)
  BY DEF ServerData, ServerDataRefused
<1>2. /\ handlers[c] \in Handler /\ RoleFits(handlers[c])
      /\ handlers[c].type \in Loading
      /\ Received(n) \in Seq(Unit)
  BY <1>1, ReceivePreserves DEF RInv
<1>3. /\ h \in Handler /\ h.type \in Loading /\ RoleFits(h)
  BY <1>2, LoadedFits
<1>4. /\ h.url = handlers[c].url /\ h.respReady = complete
      /\ h.handed = handlers[c].handed /\ h.server = handlers[c].server
      /\ stored = n => h.type = handlers[c].type
      /\ h.type = "LOAD_CASHING" => handlers[c].type = "LOAD_CASHING"
  BY <1>2 DEF Loaded, Handler
<1> DEFINE g == SendResponseChunk(h, Received(n))
<1>5. handlers' = [handlers EXCEPT ![c] = g] \/ handlers' = [handlers EXCEPT ![c] = h]
  BY DEF ServerData, ServerDataRefused
<1> HIDE DEF h
<1>6. g \in Handler /\ g.type = h.type
  BY <1>2, <1>3, SendResponseChunkFits
<1>7. /\ g.url = h.url /\ g.respReady = h.respReady /\ g.server = h.server
      /\ g.handed = h.handed \o Received(n)
  BY <1>3 DEF SendResponseChunk, Handler
<1> HIDE DEF g
<1>8. CASE handlers' = [handlers EXCEPT ![c] = g]
  <2>1. Passes(handlers[c], g, n, stored)
    BY <1>4, <1>6, <1>7 DEF Passes
  <2>2. QED
    BY <1>3, <1>4, <1>6, <1>7, <1>8, <2>1
<1>9. CASE handlers' = [handlers EXCEPT ![c] = h]
  <2>1. Passes(handlers[c], h, n, stored)
    BY <1>4 DEF Passes
  <2>2. QED
    BY <1>3, <1>4, <1>9, <2>1
<1>10. QED
  BY <1>5, <1>8, <1>9

LEMMA ReceiveReads ==
  ASSUME RInv, NEW c \in DOMAIN handlers, NEW n \in Nat, NEW stored \in 0..n,
         NEW complete \in BOOLEAN,
         \/ ServerData(c, n, stored, complete)
         \/ ServerDataRefused(c, n, stored, complete)
  PROVE  Reads(handlers', pages')
<1>1. PICK h \in Handler :
           /\ handlers' = [handlers EXCEPT ![c] = h]
           /\ h.type \in Loading /\ h.url = handlers[c].url
           /\ h.type = "LOAD_CASHING" => handlers[c].type = "LOAD_CASHING"
           /\ h.respReady = complete
  BY ReceiveHandler
<1>2. /\ PagesFit(pages') /\ Extends(pages, pages')
      /\ handlers[c].type = "LOAD_CASHING" /\ complete =>
           IsFullyLoaded(pages', handlers[c].url)
  BY ReceivePages DEF ServerData, ServerDataRefused
<1>3. Mirrors(h, pages') /\ Seals(h, pages')
  BY <1>1, <1>2 DEF Mirrors, Seals, Loading
<1>4. HandlersFit(handlers) /\ PagesFit(pages) /\ Reads(handlers, pages)
  BY DEF RInv, IInv
<1>5. Reads([handlers EXCEPT ![c] = h], pages')
  BY <1>2, <1>3, <1>4, OneReads
<1>6. QED
  BY <1>1, <1>5

\* The end of a connection completes the page, if it is there.
LEMMA EofHandler ==
  ASSUME RInv, NEW c \in DOMAIN handlers, ServerEof(c)
  PROVE  \E h \in Handler :
           /\ handlers' = [handlers EXCEPT ![c] = h]
           /\ h.type \in Loading /\ ~h.respReady
           /\ h.handed = handlers[c].handed
           /\ h.server = handlers[c].server /\ h.url = handlers[c].url
           /\ h.type = handlers[c].type
<1>1. /\ handlers[c] \in Handler /\ handlers[c].type \in Loading
      /\ ~handlers[c].respReady
  BY SlotFacts DEF RInv, ServerEof, Receiving
<1> DEFINE h == [handlers[c] EXCEPT !.respSent = TRUE]
<1>2. /\ h \in Handler /\ h.type = handlers[c].type
      /\ h.respReady = handlers[c].respReady /\ h.handed = handlers[c].handed
      /\ h.server = handlers[c].server /\ h.url = handlers[c].url
  BY <1>1 DEF Handler
<1>3. handlers' = [handlers EXCEPT ![c] = h]
  BY DEF ServerEof
<1> HIDE DEF h
<1>4. QED
  BY <1>1, <1>2, <1>3

LEMMA EofReads ==
  ASSUME RInv, NEW c \in DOMAIN handlers, ServerEof(c)
  PROVE  Reads(handlers', pages')
<1>1. HandlersFit(handlers) /\ PagesFit(pages) /\ Reads(handlers, pages)
  BY DEF RInv, IInv
<1>2. PICK h \in Handler :
        /\ handlers' = [handlers EXCEPT ![c] = h]
        /\ h.type \in Loading /\ ~h.respReady
  BY EofHandler
<1>3. PagesFit(pages') /\ Extends(pages, pages')
  BY <1>1, SetFullyLoadedFacts DEF ServerEof
<1>4. Mirrors(h, pages') /\ Seals(h, pages')
  BY <1>2 DEF Mirrors, Seals, Loading
<1>5. Reads([handlers EXCEPT ![c] = h], pages')
  BY <1>1, <1>3, <1>4, OneReads
<1>6. QED
  BY <1>2, <1>5

\* The handler of a new request, and an heir whose chunk is lost, neither
\* read nor are through.
LEMMA ConnectsHandler ==
  ASSUME RInv, NEW u \in Urls, RequestFromServer(u)
  PROVE  /\ Slot \in DOMAIN handlers
         /\ \E h : /\ handlers' = [handlers EXCEPT ![Slot] = h]
                   /\ h.type = "LOAD_CASHING" /\ ~h.respReady
                   /\ h.handed = handlers[Slot].handed
                   /\ h.server = NewFd
         /\ handlers[Slot].server = NoSocket
<1> DEFINE h == RequestSent(Connected(Requesting(u), NewFd))
<1>1. /\ handlers[Slot] \in Handler /\ RoleFits(handlers[Slot])
      /\ handlers[Slot].type = "STANDBY" /\ Slot \in DOMAIN handlers
      /\ handlers[Slot].server = NoSocket
      /\ Requesting(u) = WithRequest(handlers[Slot], u, "LOAD_CASHING")
  BY RequestFacts DEF RInv, RequestFromServer
<1>2. /\ h.type = "LOAD_CASHING" /\ h.handed = handlers[Slot].handed
      /\ h.respReady = handlers[Slot].respReady /\ h.server = NewFd
  BY <1>1 DEF RequestSent, Connected, WithRequest, Handler
<1>3. handlers[Slot].respReady = FALSE
  BY <1>1 DEF RoleFits, Handler
<1>4. handlers' = [handlers EXCEPT ![Slot] = h]
  BY DEF RequestFromServer
<1> HIDE DEF h
<1>5. QED
  BY <1>1, <1>2, <1>3, <1>4

LEMMA LostHandler ==
  ASSUME RInv, NEW c \in DOMAIN handlers, HeirChunkLost(c)
  PROVE  \E h : /\ handlers' = [handlers EXCEPT ![c] = h]
                /\ handlers[c].type = "HEIR" /\ h.type = "HEIR"
                /\ h.url = handlers[c].url
                /\ h.handed = handlers[c].handed
                /\ h.pos \in Nat /\ h.pos >= handlers[c].pos
                /\ h.server = handlers[c].server
<1> DEFINE chunk == AcquireChunk(pages, handlers[c].url, handlers[c].pos)
           h == [handlers[c] EXCEPT !.pos = @ + Len(chunk)]
<1>1. /\ handlers[c] \in Handler /\ handlers[c].type = "HEIR"
      /\ CanAcquire(pages, handlers[c].url, handlers[c].pos)
  BY SlotFacts DEF RInv, HeirChunkLost, ServerSlot, CatchingUp
<1>2. Len(chunk) \in Nat
  <2>1. chunk \in Seq(Unit)
    BY <1>1, ChunkType DEF RInv, IInv, Handler
  <2>2. QED
    BY <2>1, LenProperties
<1>3. handlers' = [handlers EXCEPT ![c] = h]
  BY DEF HeirChunkLost
<1> HIDE DEF chunk
<1>4. /\ h.type = handlers[c].type /\ h.url = handlers[c].url
      /\ h.handed = handlers[c].handed /\ h.pos = handlers[c].pos + Len(chunk)
      /\ h.server = handlers[c].server
  BY <1>1 DEF Handler
<1>5. handlers[c].pos \in Nat
  BY <1>1 DEF Handler
<1> HIDE DEF h
<1>6. h.pos \in Nat /\ h.pos >= handlers[c].pos
  BY <1>2, <1>4, <1>5
<1>7. QED
  BY <1>1, <1>3, <1>4, <1>6

LEMMA AcceptReads ==
  ASSUME RInv, AcceptClient
  PROVE  Reads(handlers', pages')
<1>1. HandlersFit(handlers) /\ PagesFit(pages) /\ Reads(handlers, pages)
  BY DEF RInv, IInv
<1>2. PICK h \in Handler : Welcomes(h)
  BY <1>1, AcceptedHandler
<1>3. Len(h.handed) = 0 /\ h.handed = <<>> /\ h.since = h.pos /\ h.pos \in Nat
  BY <1>2, EmptySeq DEF Welcomes, Handler
<1>4. CASE NewFd \notin DOMAIN handlers
  <2>1. h.type = "STANDBY" /\ h.pos = 0
    BY <1>2, <1>4 DEF Welcomes, RoleFits
  <2>2. Mirrors(h, pages) /\ Seals(h, pages)
    BY <1>3, <2>1 DEF Mirrors, Seals
  <2>3. QED
    BY <1>1, <1>2, <2>2 DEF AcceptClient, Reads, Welcomes
<1>5. CASE NewFd \in DOMAIN handlers
  <2> DEFINE g == handlers[NewFd]
  <2>1. /\ h.type = g.type /\ h.url = g.url /\ h.pos = g.pos
        /\ h.respReady = g.respReady /\ h.respSent = g.respSent
        /\ RoleFits(h)
    BY <1>2, <1>5 DEF Welcomes
  <2>2. g \in Handler /\ Mirrors(g, pages) /\ Seals(g, pages)
    BY <1>1, <1>5 DEF Reads, HandlersFit
  <2> HIDE DEF g
  <2>3. Seals(h, pages)
    BY <2>1, <2>2 DEF Seals
  <2>4. ASSUME h.type = "CASH", h.pos > 0
        PROVE  IsCached(pages, h.url) /\ Behind(h.since, h.handed, pages[h.url].data)
    <3>1. /\ IsCached(pages, h.url) /\ g.since + Len(g.handed) = h.pos
          /\ g.since + Len(g.handed) <= Len(pages[h.url].data)
      BY <2>1, <2>2, <2>4 DEF Mirrors, Behind
    <3>2. QED
      BY <1>3, <3>1 DEF Behind
  <2>5. h.type = "STANDBY" => h.since = 0
    BY <1>3, <2>1 DEF RoleFits
  <2>6. Mirrors(h, pages)
    BY <1>3, <2>4, <2>5 DEF Mirrors
  <2>7. QED
    BY <1>1, <1>2, <2>3, <2>6 DEF AcceptClient, Reads, Welcomes
<1>6. QED
  BY <1>4, <1>5

\* What a step of launch() can be, as far as handlers, pages and connections
\* go.
LEMMA ClientSteps ==
  ASSUME RInv, ClientNext
  PROVE  \/ Stays
         \/ \E h \in Handler : Removes(h)
         \/ \E c \in DOMAIN handlers, h \in Handler : Sends(c, h)
         \/ \E u \in Urls : RequestFromServer(u)
<1>1. CASE ReleaseFinished \/ DropClient \/ DropReader
  BY <1>1, AsIsRemoves
<1>2. CASE ClientIdle
  <2>1. handlers' = handlers
    BY <1>2, SlotFacts DEF ClientIdle, HandlerBecomes, RInv, IInv, HandlersFit
  <2>2. QED
    BY <1>2, <2>1 DEF ClientIdle, HandlerBecomes, Stays
<1>3. CASE ServeReader
  BY <1>3, ServedSends, SlotFacts DEF ServeReader, RInv
<1>4. CASE ServeHeir
  BY <1>4, ServedSends, SlotFacts DEF ServeHeir, CatchingUp, RInv
<1>5. ASSUME NEW u \in Urls, RequestFromCache(u)
      PROVE  \E c \in DOMAIN handlers, h \in Handler : Sends(c, h)
  BY <1>5, RequestSends
<1>6. ASSUME NEW u \in Urls, ConnectFails(u) \/ SendRequestFails(u)
      PROVE  Stays \/ \E h \in Handler : Removes(h)
  BY <1>6, ConnectFailsRemoves, SendRequestFailsRemoves
<1>7. QED
  BY <1>1, <1>2, <1>3, <1>4, <1>5, <1>6 DEF ClientNext

LEMMA ServerSteps ==
  ASSUME RInv, ServerNext
  PROVE  \/ Stays
         \/ ServerGone
         \/ \E c \in DOMAIN handlers, h \in Handler : Sends(c, h)
         \/ \E c \in DOMAIN handlers : ServerEof(c) \/ HeirChunkLost(c)
         \/ \E c \in DOMAIN handlers, n \in Nat \ {0} : \E stored \in 0..n, complete \in BOOLEAN :
              \/ ServerData(c, n, stored, complete)
              \/ ServerDataRefused(c, n, stored, complete)
<1>1. ASSUME NEW c \in DOMAIN handlers, ServerIdle(c)
      PROVE  Stays
  <2>1. handlers' = handlers
    BY <1>1 DEF ServerIdle, HandlerBecomes, RInv, IInv, HandlersFit
  <2>2. QED
    BY <1>1, <2>1 DEF ServerIdle, HandlerBecomes, Stays
<1>2. ASSUME NEW c \in DOMAIN handlers, ServeHeirFromServerSlot(c)
      PROVE  \E h \in Handler : Sends(c, h)
  BY <1>2, ServedSends DEF ServeHeirFromServerSlot, CatchingUp
<1>3. 1..RecvMax \subseteq Nat \ {0}
  BY BoundsAssumption
<1>4. QED
  BY <1>1, <1>2, <1>3 DEF ServerNext

LEMMA NextReads ==
  ASSUME RInv, [Next]_vars
  PROVE  Reads(handlers', pages')
<1>1. HandlersFit(handlers) /\ PagesFit(pages) /\ Reads(handlers, pages)
  BY DEF RInv, IInv
<1>2. CASE NoAccept \/ PollFails \/ Halted \/ UNCHANGED vars \/ ServerGone \/ Stays
  <2>1. UNCHANGED <<handlers, pages>>
    BY <1>2 DEF NoAccept, PollFails, Die, Halted, vars, ServerGone, Stays
  <2>2. QED
    BY <1>1, <2>1
<1>3. CASE AcceptClient
  BY <1>3, AcceptReads
<1>4. ASSUME NEW h \in Handler, Removes(h)
      PROVE  Reads(handlers', pages')
  BY <1>4, RemovesReads
<1>5. ASSUME NEW c \in DOMAIN handlers, NEW h \in Handler, Sends(c, h)
      PROVE  Reads(handlers', pages')
  BY <1>5, SendsReads
<1>6. ASSUME NEW c \in DOMAIN handlers, NEW h, handlers' = [handlers EXCEPT ![c] = h],
             h.type = "HEIR" \/ (h.type = "LOAD_CASHING" /\ ~h.respReady),
             UNCHANGED pages
      PROVE  Reads(handlers', pages')
  <2>1. Mirrors(h, pages) /\ Seals(h, pages)
    BY <1>6 DEF Mirrors, Seals
  <2>2. Reads([handlers EXCEPT ![c] = h], pages)
    BY <1>1, <2>1, OneReads, ExtendsItself
  <2>3. QED
    BY <1>6, <2>2
<1>7. ASSUME NEW u \in Urls, RequestFromServer(u)
      PROVE  Reads(handlers', pages')
  <2>1. UNCHANGED pages
    BY <1>7 DEF RequestFromServer
  <2>2. QED
    BY <1>6, <1>7, <2>1, ConnectsHandler
<1>8. ASSUME NEW c \in DOMAIN handlers, HeirChunkLost(c)
      PROVE  Reads(handlers', pages')
  <2>1. UNCHANGED pages
    BY <1>8 DEF HeirChunkLost
  <2>2. QED
    BY <1>6, <1>8, <2>1, LostHandler
<1>9. ASSUME NEW c \in DOMAIN handlers, ServerEof(c)
      PROVE  Reads(handlers', pages')
  BY <1>9, EofReads
<1>10. ASSUME NEW c \in DOMAIN handlers, NEW n \in Nat \ {0}, NEW stored \in 0..n,
              NEW complete \in BOOLEAN,
              \/ ServerData(c, n, stored, complete)
              \/ ServerDataRefused(c, n, stored, complete)
       PROVE  Reads(handlers', pages')
  BY <1>10, ReceiveReads
<1>11. CASE ClientNext
  BY <1>2, <1>4, <1>5, <1>7, <1>11, ClientSteps
<1>12. CASE ServerNext
  BY <1>2, <1>5, <1>8, <1>9, <1>10, <1>12, ServerSteps
<1>13. QED
  BY <1>2, <1>3, <1>11, <1>12 DEF Next, ListenerNext

LEMMA ReadersInvariance == Spec => []RInv
<1>1. Init => RInv
  <2>1. SUFFICES ASSUME Init PROVE RInv
    OBVIOUS
  <2>2. IInv
    BY <2>1, InitIInv
  <2>3. QED
    BY <2>1, <2>2 DEF RInv, Reads, Init
<1>2. RInv /\ [Next]_vars => RInv'
  <2>1. SUFFICES ASSUME RInv, [Next]_vars PROVE RInv'
    OBVIOUS
  <2>2. IInv'
    BY <2>1, NextPreserves DEF RInv
  <2>3. Reads(handlers', pages')
    BY <2>1, NextReads
  <2>4. QED
    BY <2>2, <2>3 DEF RInv
<1>3. QED
  BY <1>1, <1>2, PTL DEF Spec

LEMMA BehindIsSubSeq ==
  ASSUME NEW s \in Seq(Unit), NEW t \in Seq(Unit), NEW k \in Nat, Behind(k, s, t)
  PROVE  s = SubSeq(t, k + 1, k + Len(s))
<1> DEFINE n == k + Len(s)
           u == SubSeq(t, k + 1, n)
<1>1. /\ Len(s) \in Nat /\ Len(t) \in Nat /\ n <= Len(t) /\ n \in Nat
      /\ \A i \in 1..Len(s) : t[k + i] = s[i]
      /\ \A i \in 1..Len(t) : t[i] \in Unit
  BY LenProperties, ElementOfSeq DEF Behind
<1>2. \A i \in (k + 1)..n : t[i] \in Unit
  BY <1>1
<1>3. /\ u \in Seq(Unit)
      /\ Len(u) = IF k + 1 <= n THEN n - (k + 1) + 1 ELSE 0
      /\ \A i \in 1..(n - (k + 1) + 1) : u[i] = t[(k + 1) + i - 1]
  <2> HIDE DEF n
  <2>1. k + 1 \in Int /\ n \in Int
    BY <1>1
  <2>2. QED
    BY <1>2, <2>1, SubSeqProperties
<1> HIDE DEF u
<1>4. Len(u) = Len(s)
  BY <1>1, <1>3
<1>5. ASSUME NEW i \in 1..Len(s) PROVE s[i] = u[i]
  <2>1. i \in 1..(n - (k + 1) + 1) /\ (k + 1) + i - 1 = k + i
    BY <1>1
  <2>2. QED
    BY <1>1, <1>3, <2>1
<1>6. s = u
  BY <1>3, <1>4, <1>5, SeqEqual
<1>7. QED
  BY <1>6 DEF u

\* A reader never loses the page it is in, although pages are dropped with
\* their loaders, and its client has been sent exactly what stands between the
\* position at which the handler got that client and the one it has now
\* (tryChooseDeputy, ~SocketHandler, sendChunkFromCache, tryAcceptClient).
THEOREM ReaderCorrectness == Spec => []ReaderMirrorsCache
<1>1. RInv => ReaderMirrorsCache
  <2>1. SUFFICES ASSUME RInv, NEW c \in DOMAIN handlers,
                        handlers[c].type = "CASH", handlers[c].pos > 0
                 PROVE  /\ CanAcquire(pages, handlers[c].url, handlers[c].pos)
                        /\ handlers[c].handed =
                             SubSeq(pages[handlers[c].url].data,
                                    handlers[c].since + 1, handlers[c].pos)
    BY DEF ReaderMirrorsCache
  <2> DEFINE h == handlers[c]
  <2>2. h \in Handler
    BY <2>1 DEF RInv, IInv, HandlersFit
  <2>3. /\ h.since + Len(h.handed) = h.pos /\ IsCached(pages, h.url)
        /\ Behind(h.since, h.handed, pages[h.url].data)
    BY <2>1 DEF RInv, Reads, Mirrors
  <2>4. /\ h.handed \in Seq(Unit) /\ pages[h.url].data \in Seq(Unit)
        /\ h.since \in Nat
    BY <2>1, <2>2, <2>3 DEF RInv, IInv, PagesFit, IsCached, Page, Handler
  <2> HIDE DEF h
  <2>5. h.handed = SubSeq(pages[h.url].data, h.since + 1, h.pos)
    <3>1. h.handed = SubSeq(pages[h.url].data, h.since + 1, h.since + Len(h.handed))
      BY <2>3, <2>4, BehindIsSubSeq
    <3>2. QED
      BY <2>3, <3>1
  <2>6. CanAcquire(pages, h.url, h.pos)
    BY <2>3 DEF CanAcquire, Behind
  <2>7. QED
    BY <2>5, <2>6 DEF h
<1>2. QED
  BY <1>1, ReadersInvariance, PTL

\* Neither a loader nor a reader counts its response as complete before the
\* page is: the flags of a handler and that of the page are set in one step,
\* also when memory runs out, and no complete page is dropped afterwards
\* (receiveAndParseResponse, sendChunkFromCache, ~SocketHandler).
THEOREM CompletionCorrectness == Spec => []CompletionSealsPage
<1>1. RInv => CompletionSealsPage
  BY DEF RInv, Reads, Seals, CompletionSealsPage
<1>2. QED
  BY <1>1, ReadersInvariance, PTL

-----------------------------------------------------------------------------
(* Sequences of units.                                                     *)

\* A place in a concatenation is a place in one of its parts.
LEMMA ConcatPlaces ==
  ASSUME NEW a \in Seq(Unit), NEW b \in Seq(Unit)
  PROVE  /\ a \o b \in Seq(Unit)
         /\ \A i \in DOMAIN (a \o b) :
              \/ i \in DOMAIN a /\ (a \o b)[i] = a[i] /\ i <= Len(a)
              \/ /\ i > Len(a) /\ i - Len(a) \in DOMAIN b
                 /\ (a \o b)[i] = b[i - Len(a)]
<1>1. /\ Len(a) \in Nat /\ Len(b) \in Nat
      /\ DOMAIN a = 1..Len(a) /\ DOMAIN b = 1..Len(b)
  BY LenProperties
<1>2. /\ a \o b \in Seq(Unit) /\ Len(a \o b) = Len(a) + Len(b)
      /\ \A i \in 1..(Len(a) + Len(b)) :
           (a \o b)[i] = IF i <= Len(a) THEN a[i] ELSE b[i - Len(a)]
  BY ConcatProperties
<1>3. DOMAIN (a \o b) = 1..(Len(a) + Len(b))
  BY <1>2, LenProperties
<1>4. ASSUME NEW i \in 1..(Len(a) + Len(b))
      PROVE  \/ i \in 1..Len(a) /\ (a \o b)[i] = a[i] /\ i <= Len(a)
             \/ /\ i > Len(a) /\ i - Len(a) \in 1..Len(b)
                /\ (a \o b)[i] = b[i - Len(a)]
  <2>1. CASE i <= Len(a)
    BY <1>1, <1>2, <2>1
  <2>2. CASE ~(i <= Len(a))
    <3>1. i > Len(a) /\ i - Len(a) \in 1..Len(b)
      BY <1>1, <2>2
    <3>2. QED
      BY <1>2, <2>2, <3>1
  <2>3. QED
    BY <2>1, <2>2
<1>5. QED
  BY <1>1, <1>2, <1>3, <1>4

LEMMA Places ==
  ASSUME NEW a \in Seq(Unit)
  PROVE  \A i \in DOMAIN a : /\ i \in Nat \ {0} /\ a[i] \in Unit
                             /\ a[i].conn \in Nat \ {0} /\ a[i].idx \in Nat \ {0}
<1>1. DOMAIN a = 1..Len(a) /\ Len(a) \in Nat /\ \A i \in 1..Len(a) : a[i] \in Unit
  BY LenProperties, ElementOfSeq
<1>2. QED
  BY <1>1 DEF Unit

\* What comes after all of a, appended to it, keeps the order.
LEMMA OrderedConcat ==
  ASSUME NEW a \in Seq(Unit), NEW b \in Seq(Unit), InOrder(a), InOrder(b),
         Ahead(a, 0, b)
  PROVE  InOrder(a \o b)
<1> DEFINE s == a \o b
<1>1. /\ s \in Seq(Unit)
      /\ \A i \in DOMAIN s :
           \/ i \in DOMAIN a /\ s[i] = a[i] /\ i <= Len(a)
           \/ i > Len(a) /\ i - Len(a) \in DOMAIN b /\ s[i] = b[i - Len(a)]
  BY ConcatPlaces
<1>2. Len(a) \in Nat
  BY LenProperties
<1>3. \A i \in DOMAIN b : i \in Nat \ {0}
  BY Places
<1> HIDE DEF s
<1>4. \A i \in DOMAIN s : i \in Nat
  BY <1>1, Places
<1>5. ASSUME NEW i \in DOMAIN s, NEW j \in DOMAIN s, i < j, s[i].conn = s[j].conn
      PROVE  s[i].idx < s[j].idx
  <2>1. CASE i \in DOMAIN a /\ s[i] = a[i] /\ j \in DOMAIN a /\ s[j] = a[j]
    BY <1>5, <2>1 DEF InOrder
  <2>2. CASE i \in DOMAIN a /\ s[i] = a[i] /\ j - Len(a) \in DOMAIN b /\ s[j] = b[j - Len(a)]
    <3>1. j - Len(a) > 0
      BY <1>3, <2>2
    <3>2. QED
      BY <1>5, <2>2, <3>1 DEF Ahead
  <2>3. CASE /\ i > Len(a) /\ i - Len(a) \in DOMAIN b /\ s[i] = b[i - Len(a)]
             /\ j - Len(a) \in DOMAIN b /\ s[j] = b[j - Len(a)]
    <3>1. i - Len(a) < j - Len(a)
      BY <1>2, <1>4, <1>5
    <3>2. QED
      BY <1>5, <2>3, <3>1 DEF InOrder
  <2>4. CASE i > Len(a) /\ j <= Len(a)
    BY <1>2, <1>4, <1>5, <2>4
  <2>5. QED
    BY <1>1, <2>1, <2>2, <2>3, <2>4
<1>6. QED
  BY <1>5 DEF InOrder, s

LEMMA KnownConcat ==
  ASSUME NEW a \in Seq(Unit), NEW b \in Seq(Unit), NEW prs, NEW n,
         Known(a, prs, n), Known(b, prs, n)
  PROVE  Known(a \o b, prs, n)
BY ConcatPlaces DEF Known

LEMMA AheadUnits ==
  ASSUME NEW a \in Seq(Unit), NEW b \in Seq(Unit), NEW pos, NEW data,
         Ahead(a, pos, data), Ahead(b, pos, data)
  PROVE  Ahead(a \o b, pos, data)
<1> DEFINE s == a \o b
<1>1. /\ s \in Seq(Unit)
      /\ \A i \in DOMAIN s :
           \/ i \in DOMAIN a /\ s[i] = a[i] /\ i <= Len(a)
           \/ i > Len(a) /\ i - Len(a) \in DOMAIN b /\ s[i] = b[i - Len(a)]
  BY ConcatPlaces
<1> HIDE DEF s
<1>2. Ahead(s, pos, data)
  BY <1>1 DEF Ahead
<1>3. QED
  BY <1>2 DEF s

LEMMA AheadData ==
  ASSUME NEW a, NEW pos, NEW data \in Seq(Unit), NEW f \in Seq(Unit),
         Ahead(a, pos, data), Ahead(a, 0, f)
  PROVE  Ahead(a, pos, data \o f)
<1> DEFINE s == data \o f
<1>1. \A j \in DOMAIN s :
        \/ j \in DOMAIN data /\ s[j] = data[j]
        \/ j - Len(data) \in DOMAIN f /\ s[j] = f[j - Len(data)]
  BY ConcatPlaces
<1>2. \A j \in DOMAIN f : j > 0
  BY Places
<1> HIDE DEF s
<1>3. Ahead(a, pos, s)
  BY <1>1, <1>2 DEF Ahead
<1>4. QED
  BY <1>3 DEF s

\* A chunk of a page in order continues what the handler has sent, and the
\* rest of the page continues both.
LEMMA ChunkContinues ==
  ASSUME NEW a \in Seq(Unit), NEW data \in Seq(Unit), NEW chunk \in Seq(Unit),
         NEW pos \in Nat, pos + Len(chunk) <= Len(data),
         \A i \in 1..Len(chunk) : chunk[i] = data[pos + i],
         NEW prs, NEW n, Sequence(a, prs, n), Sequence(data, prs, n),
         Ahead(a, pos, data)
  PROVE  /\ Sequence(a \o chunk, prs, n)
         /\ Ahead(a \o chunk, pos + Len(chunk), data)
<1>1. /\ Len(chunk) \in Nat /\ Len(data) \in Nat
      /\ DOMAIN chunk = 1..Len(chunk) /\ DOMAIN data = 1..Len(data)
  BY LenProperties
<1>2. \A i \in DOMAIN chunk :
        /\ i \in Nat \ {0} /\ pos + i \in DOMAIN data /\ pos + i > pos
        /\ pos + i <= pos + Len(chunk)
        /\ chunk[i] = data[pos + i]
  BY <1>1
<1>3. InOrder(chunk)
  <2>1. SUFFICES ASSUME NEW i \in DOMAIN chunk, NEW j \in DOMAIN chunk, i < j,
                        chunk[i].conn = chunk[j].conn
                 PROVE  chunk[i].idx < chunk[j].idx
    BY DEF InOrder
  <2>2. pos + i < pos + j
    BY <1>2, <2>1
  <2>3. QED
    BY <1>2, <2>1, <2>2 DEF InOrder, Sequence
<1>4. Known(chunk, prs, n)
  BY <1>2 DEF Known, Sequence
<1>5. Ahead(a, 0, chunk)
  BY <1>2 DEF Ahead
<1>6. Sequence(a \o chunk, prs, n)
  BY <1>3, <1>4, <1>5, OrderedConcat, KnownConcat DEF Sequence
<1>7. Ahead(a, pos + Len(chunk), data)
  <2>1. \A j \in DOMAIN data : j > pos + Len(chunk) => j > pos
    BY <1>1
  <2>2. QED
    BY <2>1 DEF Ahead
<1>8. Ahead(chunk, pos + Len(chunk), data)
  <2>1. SUFFICES ASSUME NEW i \in DOMAIN chunk, NEW j \in DOMAIN data,
                        j > pos + Len(chunk), chunk[i].conn = data[j].conn
                 PROVE  chunk[i].idx < data[j].idx
    BY DEF Ahead
  <2>2. pos + i < j
    BY <1>1, <1>2, <2>1
  <2>3. QED
    BY <1>2, <2>1, <2>2 DEF InOrder, Sequence
<1>9. QED
  BY <1>6, <1>7, <1>8, AheadUnits

-----------------------------------------------------------------------------
(* Connections.                                                            *)

\* Connections go on sending, are closed, and are made with a new number.
Later(prs, n, qrs, m) ==
  /\ n <= m
  /\ \A s \in DOMAIN qrs :
       \/ /\ s \in DOMAIN prs
          /\ qrs[s].conn = prs[s].conn /\ prs[s].sent <= qrs[s].sent
       \/ qrs[s].conn = 0
       \/ qrs[s].conn > n

\* What was received stays received.
LEMMA KnownLater ==
  ASSUME NEW prs, NEW qrs, prs \in [DOMAIN prs -> Peer], qrs \in [DOMAIN qrs -> Peer],
         NEW n \in Nat, NEW m \in Nat, Later(prs, n, qrs, m),
         NEW a \in Seq(Unit), Known(a, prs, n)
  PROVE  Known(a, qrs, m)
<1>1. SUFFICES ASSUME NEW i \in DOMAIN a
               PROVE  /\ a[i].conn <= m
                      /\ \A s \in DOMAIN qrs :
                           qrs[s].conn = a[i].conn => a[i].idx <= qrs[s].sent
  BY DEF Known
<1>2. /\ a[i].conn \in Nat \ {0} /\ a[i].idx \in Nat
      /\ a[i].conn <= n
      /\ \A s \in DOMAIN prs : prs[s].conn = a[i].conn => a[i].idx <= prs[s].sent
  BY Places DEF Known
<1>3. n <= m
  BY DEF Later
<1>4. ASSUME NEW s \in DOMAIN qrs, qrs[s].conn = a[i].conn
      PROVE  a[i].idx <= qrs[s].sent
  <2>1. /\ s \in DOMAIN prs
        /\ qrs[s].conn = prs[s].conn /\ prs[s].sent <= qrs[s].sent
    BY <1>2, <1>4 DEF Later
  <2>2. qrs[s].sent \in Nat /\ prs[s].sent \in Nat
    BY <2>1 DEF Peer
  <2>3. a[i].idx <= prs[s].sent
    BY <1>2, <1>4, <2>1
  <2>4. QED
    BY <1>2, <2>1, <2>2, <2>3
<1>5. QED
  BY <1>2, <1>3, <1>4

LEMMA SequenceLater ==
  ASSUME NEW prs, NEW qrs, prs \in [DOMAIN prs -> Peer], qrs \in [DOMAIN qrs -> Peer],
         NEW n \in Nat, NEW m \in Nat, Later(prs, n, qrs, m),
         NEW a \in Seq(Unit), Sequence(a, prs, n)
  PROVE  Sequence(a, qrs, m)
BY KnownLater DEF Sequence

\* Units that come next on the connection at s.
Fresh(f, s, prs) ==
  \A i \in DOMAIN f : f[i].conn = prs[s].conn /\ f[i].idx > prs[s].sent

LEMMA FreshIsAhead ==
  ASSUME NEW prs, prs \in [DOMAIN prs -> Peer], NEW n, NEW s \in DOMAIN prs,
         NEW a \in Seq(Unit), NEW f \in Seq(Unit), Known(a, prs, n), Fresh(f, s, prs)
  PROVE  Ahead(a, 0, f)
<1>1. SUFFICES ASSUME NEW i \in DOMAIN a, NEW j \in DOMAIN f, a[i].conn = f[j].conn
               PROVE  a[i].idx < f[j].idx
  BY DEF Ahead
<1>2. a[i].idx \in Nat /\ f[j].idx \in Nat /\ prs[s].sent \in Nat
  BY Places DEF Peer
<1>3. a[i].idx <= prs[s].sent /\ f[j].idx > prs[s].sent
  BY <1>1 DEF Known, Fresh
<1>4. QED
  BY <1>2, <1>3

\* What recv() returns, and the part of it that is stored.
LEMMA ReceivedFacts ==
  ASSUME NEW n \in Nat, NEW k \in 0..n, Slot \in DOMAIN peer, peer[Slot] \in ServerPeer,
         NEW f, f = Received(n) \/ f = SubSeq(Received(n), 1, k)
  PROVE  /\ f \in Seq(Unit) /\ InOrder(f) /\ Fresh(f, Slot, peer)
         /\ \A i \in DOMAIN f : f[i].idx <= peer[Slot].sent + n
<1> DEFINE r == Received(n)
           sent == peer[Slot].sent
<1>1. sent \in Nat /\ peer[Slot].conn \in Nat \ {0} /\ peer[Slot].url \in Urls
  BY DEF ServerPeer
<1>2. /\ r \in [1..n -> Unit]
      /\ \A i \in 1..n : r[i].conn = peer[Slot].conn /\ r[i].idx = sent + i
  BY <1>1 DEF Received, Unit
<1>3. r \in Seq(Unit) /\ Len(r) = n
  BY <1>2, SeqDef, LenProperties
<1> HIDE DEF r, sent
<1>4. PICK m \in 0..n : f \in Seq(Unit) /\ DOMAIN f = 1..m /\ \A i \in 1..m : f[i] = r[i]
  <2>1. CASE f = r
    <3>1. DOMAIN f = 1..n /\ n \in 0..n
      BY <1>2, <2>1
    <3>2. QED
      BY <1>3, <2>1, <3>1
  <2>2. CASE f = SubSeq(r, 1, k)
    <3>1. \A i \in 1..k : r[i] \in Unit
      BY <1>2
    <3>2. /\ f \in Seq(Unit)
          /\ Len(f) = IF 1 <= k THEN k - 1 + 1 ELSE 0
          /\ \A i \in 1..(k - 1 + 1) : f[i] = r[1 + i - 1]
      BY <2>2, <3>1, SubSeqProperties
    <3>3. Len(f) = k /\ DOMAIN f = 1..Len(f)
      BY <3>2, LenProperties
    <3>4. \A i \in 1..k : i \in 1..(k - 1 + 1) /\ 1 + i - 1 = i
      OBVIOUS
    <3>5. QED
      BY <3>2, <3>3, <3>4
  <2>3. QED
    BY <2>1, <2>2 DEF r
<1>5. \A i \in DOMAIN f : i \in 1..n /\ i <= n /\ f[i] = r[i]
  BY <1>4
<1>6. \A i \in DOMAIN f : f[i].conn = peer[Slot].conn /\ f[i].idx = sent + i
  BY <1>2, <1>5
<1>7. InOrder(f)
  <2>1. \A i, j \in DOMAIN f : i < j => f[i].idx < f[j].idx
    BY <1>1, <1>5, <1>6
  <2>2. QED
    BY <2>1 DEF InOrder
<1>8. \A i \in DOMAIN f : f[i].idx > sent /\ f[i].idx <= sent + n
  BY <1>1, <1>5, <1>6
<1>9. QED
  BY <1>4, <1>6, <1>7, <1>8 DEF Fresh, sent

\* What was received on the connection at s is known when its count is raised,
\* and when it is closed.
LEMMA KnownFresh ==
  ASSUME NEW prs, NEW n \in Nat, Numbered(prs, n), NEW s \in DOMAIN prs,
         prs[s].conn # 0, NEW k,
         NEW f, Fresh(f, s, prs), \A i \in DOMAIN f : f[i].idx <= prs[s].sent + k,
         NEW qrs,
         \A t \in DOMAIN qrs : /\ t \in DOMAIN prs /\ qrs[t].conn = prs[t].conn
                               /\ t = s => qrs[t].sent = prs[s].sent + k
  PROVE  Known(f, qrs, n)
<1>1. SUFFICES ASSUME NEW i \in DOMAIN f
               PROVE  /\ f[i].conn <= n
                      /\ \A t \in DOMAIN qrs :
                           qrs[t].conn = f[i].conn => f[i].idx <= qrs[t].sent
  BY DEF Known
<1>2. f[i].conn = prs[s].conn
  BY DEF Fresh
<1>3. f[i].conn <= n
  BY <1>2 DEF Numbered
<1>4. ASSUME NEW t \in DOMAIN qrs, qrs[t].conn = f[i].conn
      PROVE  f[i].idx <= qrs[t].sent
  <2>1. t \in DOMAIN prs /\ prs[t].conn = prs[s].conn
    BY <1>2, <1>4
  <2>2. t = s
    BY <2>1 DEF Numbered
  <2>3. QED
    BY <2>2
<1>5. QED
  BY <1>3, <1>4

LEMMA NumberedFewer ==
  ASSUME NEW prs, NEW n, Numbered(prs, n), NEW qrs,
         \A t \in DOMAIN qrs : t \in DOMAIN prs /\ qrs[t].conn = prs[t].conn
  PROVE  Numbered(qrs, n)
BY DEF Numbered

LEMMA NumberedPut ==
  ASSUME NEW prs, prs \in [DOMAIN prs -> Peer], NEW n \in Nat, Numbered(prs, n),
         NEW m \in Nat, n <= m, NEW fd, NEW p \in Peer,
         p.conn = 0 \/ (p.conn = m /\ n < m)
  PROVE  Numbered(Put(prs, fd, p), m)
<1> DEFINE qrs == Put(prs, fd, p)
<1>1. DOMAIN qrs = DOMAIN prs \cup {fd}
      /\ \A x \in DOMAIN qrs : qrs[x] = IF x = fd THEN p ELSE prs[x]
  BY DEF Put
<1> HIDE DEF qrs
<1>2. \A x \in DOMAIN prs : prs[x].conn \in Nat /\ prs[x].conn <= n
  BY DEF Numbered, Peer
<1>3. ASSUME NEW x \in DOMAIN qrs PROVE qrs[x].conn <= m
  BY <1>1, <1>2
<1>4. ASSUME NEW x \in DOMAIN qrs, NEW y \in DOMAIN qrs,
             qrs[x].conn # 0, qrs[x].conn = qrs[y].conn
      PROVE  x = y
  <2>1. CASE x # fd /\ y # fd
    BY <1>1, <1>4, <2>1 DEF Numbered
  <2>2. CASE x = fd /\ y # fd
    <3>1. p.conn = m /\ n < m /\ prs[y].conn = m /\ y \in DOMAIN prs
      BY <1>1, <1>4, <2>2
    <3>2. QED
      BY <1>2, <3>1
  <2>3. CASE x # fd /\ y = fd
    <3>1. p.conn = m /\ n < m /\ prs[x].conn = m /\ x \in DOMAIN prs
      BY <1>1, <1>4, <2>3
    <3>2. QED
      BY <1>2, <3>1
  <2>4. QED
    BY <2>1, <2>2, <2>3
<1>5. QED
  BY <1>3, <1>4 DEF Numbered, qrs

-----------------------------------------------------------------------------
(* The steps.                                                              *)

LEMMA ConservedTypes ==
  ASSUME IInv
  PROVE  /\ peer \in [DOMAIN peer -> Peer] /\ connects \in Nat
         /\ \A c \in DOMAIN handlers : handlers[c] \in Handler /\ handlers[c].handed \in Seq(Unit)
         /\ \A u \in DOMAIN pages : pages[u].data \in Seq(Unit)
BY DEF IInv, Tables, HandlersFit, PagesFit, Handler, Page

\* A handler that is where h was, or has read further in the same page.
Follows(g, h) ==
  /\ g.handed = h.handed
  /\ g.type \in {"CASH", "HEIR"} =>
       h.type \in {"CASH", "HEIR"} /\ g.url = h.url /\ h.pos <= g.pos

\* A step that hands over no unit, and stores none.
LEMMA QuietDelivers ==
  ASSUME DInv, IInv', Later(peer, connects, peer', connects'),
         \A u \in DOMAIN pages' : u \in DOMAIN pages /\ pages'[u].data = pages[u].data,
         \A e \in DOMAIN handlers' :
           \/ handlers'[e].handed = <<>>
           \/ e \in DOMAIN handlers /\ Follows(handlers'[e], handlers[e])
  PROVE  Delivers(handlers', pages', peer', connects')
<1>1. /\ IInv /\ Delivers(handlers, pages, peer, connects)
      /\ peer \in [DOMAIN peer -> Peer] /\ connects \in Nat
      /\ \A c \in DOMAIN handlers : handlers[c] \in Handler /\ handlers[c].handed \in Seq(Unit)
      /\ \A u \in DOMAIN pages : pages[u].data \in Seq(Unit)
  BY ConservedTypes DEF DInv, RInv
<1>2. /\ peer' \in [DOMAIN peer' -> Peer] /\ connects' \in Nat
      /\ \A c \in DOMAIN handlers' : handlers'[c] \in Handler
  BY DEF IInv, Tables, HandlersFit
<1>3. ASSUME NEW u \in DOMAIN pages'
      PROVE  Sequence(pages'[u].data, peer', connects')
  <2>1. Sequence(pages[u].data, peer, connects) /\ pages[u].data \in Seq(Unit)
    BY <1>1 DEF Delivers
  <2>2. Sequence(pages[u].data, peer', connects')
    BY <1>1, <1>2, <2>1, SequenceLater
  <2>3. QED
    BY <2>2
<1>4. ASSUME NEW e \in DOMAIN handlers', handlers'[e].handed = <<>>
      PROVE  /\ Sequence(handlers'[e].handed, peer', connects')
             /\ Continues(handlers'[e], pages')
  BY <1>4 DEF Sequence, InOrder, Known, Continues, Ahead
<1>5. ASSUME NEW e \in DOMAIN handlers', e \in DOMAIN handlers,
             Follows(handlers'[e], handlers[e])
      PROVE  /\ Sequence(handlers'[e].handed, peer', connects')
             /\ Continues(handlers'[e], pages')
  <2> DEFINE g == handlers'[e]
             h == handlers[e]
  <2>1. /\ Sequence(h.handed, peer, connects) /\ Continues(h, pages)
        /\ h.handed \in Seq(Unit) /\ h \in Handler /\ g \in Handler
    BY <1>1, <1>2, <1>5 DEF Delivers
  <2>2. Sequence(h.handed, peer', connects')
    BY <1>1, <1>2, <2>1, SequenceLater
  <2> HIDE DEF g, h
  <2>3. Follows(g, h)
    BY <1>5 DEF g, h
  <2>4. Sequence(g.handed, peer', connects')
    BY <2>2, <2>3 DEF Follows
  <2>5. ASSUME g.type \in {"CASH", "HEIR"}, IsCached(pages', g.url)
        PROVE  Ahead(g.handed, g.pos, pages'[g.url].data)
    <3>1. /\ h.type \in {"CASH", "HEIR"} /\ g.url = h.url /\ h.pos <= g.pos
          /\ g.handed = h.handed
      BY <2>3, <2>5 DEF Follows
    <3>2. IsCached(pages, h.url) /\ pages'[g.url].data = pages[h.url].data
      BY <2>5, <3>1 DEF IsCached
    <3> DEFINE data == pages[h.url].data
    <3>3. Ahead(h.handed, h.pos, data)
      BY <2>1, <3>1, <3>2 DEF Continues
    <3>4. data \in Seq(Unit)
      BY <1>1, <3>2 DEF IsCached
    <3> HIDE DEF data
    <3>5. h.pos \in Nat /\ g.pos \in Nat /\ \A j \in DOMAIN data : j \in Nat
      BY <2>1, <3>4, Places DEF Handler
    <3>6. \A j \in DOMAIN data : j > g.pos => j > h.pos
      BY <3>1, <3>5
    <3>7. Ahead(h.handed, g.pos, data)
      BY <3>3, <3>6 DEF Ahead
    <3>8. QED
      BY <3>1, <3>2, <3>7 DEF data
  <2>6. QED
    BY <2>4, <2>5 DEF Continues, g
<1>6. QED
  BY <1>3, <1>4, <1>5 DEF Delivers

\* A chunk of a page is sent.
LEMMA SendsDelivers ==
  ASSUME DInv, NEW c \in DOMAIN handlers, NEW h \in Handler, Sends(c, h)
  PROVE  Delivers(handlers', pages', peer', connects')
<1>1. /\ IInv /\ Delivers(handlers, pages, peer, connects)
      /\ PagesFit(pages)
      /\ \A d \in DOMAIN handlers : handlers[d] \in Handler /\ handlers[d].handed \in Seq(Unit)
      /\ \A u \in DOMAIN pages : pages[u].data \in Seq(Unit)
  BY ConservedTypes DEF DInv, RInv, IInv
<1> DEFINE g == SendChunkFromCache(pages, h)
           data == pages[h.url].data
<1>2. PICK chunk \in Seq(Unit) :
        /\ g \in Handler /\ g.url = h.url /\ ~g.respReady
        /\ g.type = h.type \/ (h.type = "HEIR" /\ g.type = "LOAD_CASHING")
        /\ g.handed = h.handed \o chunk
        /\ g.pos = h.pos + Len(chunk) /\ g.pos <= Len(data)
        /\ g.since = h.since
        /\ \A i \in 1..Len(chunk) : chunk[i] = data[h.pos + i]
        /\ g.respSent => h.respSent \/ IsFullyLoaded(pages, h.url)
  BY <1>1, ServedChunk DEF Sends
<1>3. /\ IsCached(pages, h.url) /\ data \in Seq(Unit)
      /\ Sequence(data, peer, connects)
  BY <1>1 DEF Sends, CanAcquire, IsCached, Delivers
<1>4. /\ h.handed \in Seq(Unit) /\ h.pos \in Nat
      /\ h.type \in {"CASH", "HEIR"}
  BY DEF Handler, Sends
<1>5. Sequence(h.handed, peer, connects) /\ Ahead(h.handed, h.pos, data)
  <2>1. CASE h = handlers[c]
    BY <1>1, <1>3, <1>4, <2>1 DEF Delivers, Continues
  <2>2. CASE h.handed = <<>>
    BY <2>2 DEF Sequence, InOrder, Known, Ahead
  <2>3. QED
    BY <2>1, <2>2 DEF Sends
<1> HIDE DEF g, data
<1>6. /\ Sequence(g.handed, peer, connects)
      /\ Ahead(g.handed, g.pos, data)
  BY <1>2, <1>3, <1>4, <1>5, ChunkContinues
<1>7. Continues(g, pages)
  BY <1>2, <1>6 DEF Continues, data
<1>8. /\ DOMAIN handlers' = DOMAIN handlers
      /\ \A e \in DOMAIN handlers : handlers'[e] = IF e = c THEN g ELSE handlers[e]
  BY DEF Sends, g
<1>9. UNCHANGED <<pages, peer, connects>>
  BY DEF Sends
<1>10. QED
  BY <1>1, <1>6, <1>7, <1>8, <1>9 DEF Delivers

\* A loader receives: its page gets part of it, its client all or nothing.
LEMMA ReceiveDelivers ==
  ASSUME DInv, IInv', NEW c \in DOMAIN handlers, NEW n \in Nat, NEW stored \in 0..n,
         NEW complete \in BOOLEAN,
         \/ ServerData(c, n, stored, complete)
         \/ ServerDataRefused(c, n, stored, complete)
  PROVE  /\ Delivers(handlers', pages', peer', connects')
         /\ Numbered(peer', connects')
<1> DEFINE r == Received(n)
           units == SubSeq(Received(n), 1, stored)
<1>1. /\ IInv /\ RInv /\ Delivers(handlers, pages, peer, connects)
      /\ Numbered(peer, connects)
      /\ peer \in [DOMAIN peer -> Peer] /\ connects \in Nat
      /\ \A d \in DOMAIN handlers : handlers[d] \in Handler /\ handlers[d].handed \in Seq(Unit)
      /\ \A u \in DOMAIN pages : pages[u].data \in Seq(Unit)
  BY ConservedTypes DEF DInv, RInv
<1>2. Receive(c, n, stored, complete) /\ UNCHANGED connects
  BY DEF ServerData, ServerDataRefused, Receive
<1>3. /\ SlotIs("SERVER") /\ Slot \in DOMAIN peer /\ peer[Slot] \in ServerPeer
  BY <1>1, <1>2, SlotFacts DEF Receive, Receiving, ServerSlot
<1>4. /\ peer[Slot].conn # 0 /\ peer[Slot].sent \in Nat
  BY <1>3 DEF ServerPeer
<1>5. \A t \in DOMAIN peer' : /\ t \in DOMAIN peer /\ peer'[t].conn = peer[t].conn
                              /\ t = Slot => peer'[t].sent = peer[Slot].sent + n
                              /\ t # Slot => peer'[t] = peer[t]
  <2>1. CASE ServerData(c, n, stored, complete)
    <3>1. peer' = [peer EXCEPT ![Slot] = [peer[Slot] EXCEPT !.sent = @ + n]]
      BY <2>1 DEF ServerData
    <3>2. /\ [peer[Slot] EXCEPT !.sent = @ + n].conn = peer[Slot].conn
          /\ [peer[Slot] EXCEPT !.sent = @ + n].sent = peer[Slot].sent + n
      BY <1>3 DEF ServerPeer
    <3>3. QED
      BY <1>3, <3>1, <3>2
  <2>2. CASE ServerDataRefused(c, n, stored, complete)
    <3>1. peer' = Erase(peer, {Slot})
      BY <2>2 DEF ServerDataRefused, RemoveServer
    <3>2. QED
      BY <3>1 DEF Erase, Restrict
  <2>3. QED
    BY <2>1, <2>2
<1>6. Numbered(peer', connects')
  BY <1>1, <1>2, <1>5, NumberedFewer
<1>7. Later(peer, connects, peer', connects')
  <2>1. \A t \in DOMAIN peer' : peer[t].sent \in Nat
    BY <1>1, <1>5 DEF Peer
  <2>2. \A t \in DOMAIN peer' : peer[t].sent <= peer'[t].sent
    BY <1>4, <1>5, <2>1
  <2>3. QED
    BY <1>1, <1>2, <1>5, <2>2 DEF Later
<1>8. /\ peer' \in [DOMAIN peer' -> Peer] /\ connects' \in Nat
  BY DEF IInv, Tables
<1>9. ASSUME NEW f, f = r \/ f = units
      PROVE  /\ f \in Seq(Unit) /\ InOrder(f) /\ Fresh(f, Slot, peer)
             /\ Known(f, peer', connects')
  <2>1. /\ f \in Seq(Unit) /\ InOrder(f) /\ Fresh(f, Slot, peer)
        /\ \A i \in DOMAIN f : f[i].idx <= peer[Slot].sent + n
    BY <1>3, <1>9, ReceivedFacts
  <2>2. Known(f, peer', connects)
    <3>1. \A t \in DOMAIN peer' : /\ t \in DOMAIN peer /\ peer'[t].conn = peer[t].conn
                                  /\ t = Slot => peer'[t].sent = peer[Slot].sent + n
      BY <1>5
    <3>2. QED
      BY <1>1, <1>3, <1>4, <2>1, <3>1, KnownFresh
  <2>3. QED
    BY <1>2, <2>1, <2>2
<1> HIDE DEF r, units
<1>10. ASSUME NEW a \in Seq(Unit), Sequence(a, peer, connects)
       PROVE  Sequence(a, peer', connects')
  BY <1>1, <1>7, <1>8, <1>10, SequenceLater
<1>11. ASSUME NEW a \in Seq(Unit), Sequence(a, peer, connects), NEW f, f = r \/ f = units
       PROVE  /\ Ahead(a, 0, f) /\ f \in Seq(Unit)
              /\ Sequence(f, peer', connects')
              /\ Sequence(a \o f, peer', connects')
  <2>1. /\ f \in Seq(Unit) /\ InOrder(f) /\ Fresh(f, Slot, peer)
        /\ Known(f, peer', connects')
    BY <1>9, <1>11
  <2>2. Ahead(a, 0, f)
    BY <1>1, <1>3, <1>11, <2>1, FreshIsAhead DEF Sequence
  <2>3. Sequence(a, peer', connects')
    BY <1>10, <1>11
  <2>4. InOrder(a \o f) /\ Known(a \o f, peer', connects')
    BY <2>1, <2>2, <2>3, OrderedConcat, KnownConcat DEF Sequence
  <2>5. QED
    BY <2>1, <2>2, <2>4 DEF Sequence
<1>12. /\ units \in Seq(Unit)
       /\ \A u \in DOMAIN pages' :
            \/ u \in DOMAIN pages /\ pages'[u].data = pages[u].data
            \/ u \in DOMAIN pages /\ pages'[u].data = pages[u].data \o units
            \/ pages'[u].data = units
  BY <1>1, <1>2, ReceivePages DEF units
<1>13. ASSUME NEW u \in DOMAIN pages'
       PROVE  Sequence(pages'[u].data, peer', connects')
  <2>1. CASE u \in DOMAIN pages
    <3>1. pages[u].data \in Seq(Unit) /\ Sequence(pages[u].data, peer, connects)
      BY <1>1, <2>1 DEF Delivers
    <3>2. /\ Sequence(pages[u].data, peer', connects')
          /\ Sequence(pages[u].data \o units, peer', connects')
          /\ Sequence(units, peer', connects')
      BY <1>10, <1>11, <3>1
    <3>3. QED
      BY <1>12, <3>2
  <2>2. CASE u \notin DOMAIN pages
    <3>1. pages'[u].data = units
      BY <1>12, <2>2
    <3>2. InOrder(units) /\ Known(units, peer', connects')
      BY <1>9
    <3>3. QED
      BY <3>1, <3>2 DEF Sequence
  <2>3. QED
    BY <2>1, <2>2
<1>14. ASSUME NEW d \in DOMAIN handlers
       PROVE  /\ Sequence(handlers[d].handed, peer', connects')
              /\ Continues(handlers[d], pages')
  <2> DEFINE h == handlers[d]
  <2>1. /\ h.handed \in Seq(Unit) /\ Sequence(h.handed, peer, connects)
        /\ Continues(h, pages)
    BY <1>1 DEF Delivers
  <2> HIDE DEF h
  <2>2. Sequence(h.handed, peer', connects') /\ Ahead(h.handed, 0, units)
    BY <1>10, <1>11, <2>1
  <2>3. ASSUME h.type \in {"CASH", "HEIR"}, IsCached(pages', h.url)
        PROVE  Ahead(h.handed, h.pos, pages'[h.url].data)
    <3> DEFINE data == pages[h.url].data
    <3>1. h.pos \in Nat
      BY <1>1 DEF Handler, h
    <3>2. Ahead(h.handed, h.pos, units)
      <4>1. \A j \in DOMAIN units : j \in Nat
        BY <1>12, Places
      <4>2. \A j \in DOMAIN units : j > h.pos => j > 0
        BY <3>1, <4>1
      <4>3. QED
        BY <2>2, <4>2 DEF Ahead
    <3>3. CASE h.url \in DOMAIN pages
      <4>1. data \in Seq(Unit) /\ Ahead(h.handed, h.pos, data)
        BY <1>1, <2>1, <2>3, <3>3 DEF Continues, IsCached
      <4> HIDE DEF data
      <4>2. Ahead(h.handed, h.pos, data \o units)
        BY <1>12, <2>2, <4>1, AheadData
      <4>3. \/ pages'[h.url].data = data
            \/ pages'[h.url].data = data \o units
            \/ pages'[h.url].data = units
        BY <1>12, <2>3 DEF IsCached, data
      <4>4. QED
        BY <3>2, <4>1, <4>2, <4>3
    <3>4. CASE h.url \notin DOMAIN pages
      <4>1. pages'[h.url].data = units
        BY <1>12, <2>3, <3>4 DEF IsCached
      <4>2. QED
        BY <3>2, <4>1
    <3>5. QED
      BY <3>3, <3>4
  <2>4. QED
    BY <2>2, <2>3 DEF Continues, h
<1>15. PICK h \in Handler :
         /\ handlers' = [handlers EXCEPT ![c] = h]
         /\ h.type \in Loading /\ h.url = handlers[c].url
         /\ h.type = "LOAD_CASHING" => handlers[c].type = "LOAD_CASHING"
         /\ h.respReady = complete
         /\ Passes(handlers[c], h, n, stored)
  BY <1>1, ReceiveHandler
<1>16. Sequence(h.handed, peer', connects') /\ Continues(h, pages')
  <2>1. handlers[c].handed \in Seq(Unit) /\ Sequence(handlers[c].handed, peer, connects)
    BY <1>1 DEF Delivers
  <2>2. /\ Sequence(handlers[c].handed, peer', connects')
        /\ Sequence(handlers[c].handed \o r, peer', connects')
    BY <1>10, <1>11, <2>1
  <2>a. h.handed = handlers[c].handed \/ h.handed = handlers[c].handed \o r
    BY <1>15 DEF r, Passes
  <2>3. Continues(h, pages')
    BY <1>15 DEF Continues, Loading
  <2>4. QED
    BY <2>a, <2>2, <2>3
<1>17. /\ DOMAIN handlers' = DOMAIN handlers
       /\ \A e \in DOMAIN handlers : handlers'[e] = IF e = c THEN h ELSE handlers[e]
  BY <1>15
<1>18. Delivers(handlers', pages', peer', connects')
  BY <1>13, <1>14, <1>16, <1>17 DEF Delivers
<1>19. QED
  BY <1>6, <1>18

\* Connections are only closed.
LEMMA FewerConnections ==
  ASSUME DInv, UNCHANGED connects,
         \A s \in DOMAIN peer' : /\ s \in DOMAIN peer
                                /\ peer'[s].conn = peer[s].conn
                                /\ peer'[s].sent = peer[s].sent
  PROVE  Later(peer, connects, peer', connects') /\ Numbered(peer', connects')
<1>1. /\ peer \in [DOMAIN peer -> Peer] /\ connects \in Nat
      /\ Numbered(peer, connects)
  BY ConservedTypes DEF DInv, RInv
<1>2. \A s \in DOMAIN peer : peer[s].sent \in Nat
  BY <1>1 DEF Peer
<1>3. \A s \in DOMAIN peer : peer[s].sent <= peer[s].sent
  BY <1>2
<1>4. Later(peer, connects, peer', connects')
  BY <1>1, <1>3 DEF Later
<1>5. Numbered(peer', connects')
  BY <1>1, NumberedFewer
<1>6. QED
  BY <1>4, <1>5

\* A connection is made, from a client or to a server.
LEMMA OneMoreConnection ==
  ASSUME DInv, NEW fd, NEW p \in Peer, peer' = Put(peer, fd, p),
         \/ p.conn = 0 /\ UNCHANGED connects
         \/ p.conn = connects + 1 /\ connects' = connects + 1
  PROVE  Later(peer, connects, peer', connects') /\ Numbered(peer', connects')
<1>1. /\ peer \in [DOMAIN peer -> Peer] /\ connects \in Nat
      /\ Numbered(peer, connects)
  BY ConservedTypes DEF DInv, RInv
<1>2. /\ connects' \in Nat /\ connects <= connects'
      /\ p.conn = 0 \/ (p.conn = connects' /\ connects < connects')
  BY <1>1
<1>3. Numbered(peer', connects')
  BY <1>1, <1>2, NumberedPut
<1>4. /\ DOMAIN peer' = DOMAIN peer \cup {fd}
      /\ \A s \in DOMAIN peer' : peer'[s] = IF s = fd THEN p ELSE peer[s]
  BY DEF Put
<1>5. \A s \in DOMAIN peer : peer[s].sent \in Nat
  BY <1>1 DEF Peer
<1>6. \A s \in DOMAIN peer : peer[s].sent <= peer[s].sent
  BY <1>5
<1>7. p.conn = 0 \/ p.conn > connects
  BY <1>1, <1>2
<1>8. Later(peer, connects, peer', connects')
  BY <1>2, <1>4, <1>6, <1>7 DEF Later
<1>9. QED
  BY <1>3, <1>8

LEMMA StaysWithItself ==
  ASSUME HandlersFit(handlers), NEW c \in DOMAIN handlers
  PROVE  Follows(handlers[c], handlers[c])
<1>1. handlers[c].pos \in Nat
  BY DEF HandlersFit, Handler
<1>2. handlers[c].pos <= handlers[c].pos
  BY <1>1
<1>3. QED
  BY <1>2 DEF Follows

\* One handler changes, and sends nothing.
LEMMA OneFollows ==
  ASSUME HandlersFit(handlers), NEW c \in DOMAIN handlers, NEW h,
         Follows(h, handlers[c]), handlers' = [handlers EXCEPT ![c] = h]
  PROVE  \A e \in DOMAIN handlers' :
           e \in DOMAIN handlers /\ Follows(handlers'[e], handlers[e])
<1>1. /\ DOMAIN handlers' = DOMAIN handlers
      /\ \A e \in DOMAIN handlers : handlers'[e] = IF e = c THEN h ELSE handlers[e]
  BY DEF HandlersFit
<1>2. QED
  BY <1>1, StaysWithItself

LEMMA StaysDelivers ==
  ASSUME DInv, IInv', UNCHANGED <<handlers, pages, connects>>,
         \A s \in DOMAIN peer' : s \in DOMAIN peer /\ peer'[s] = peer[s]
  PROVE  Delivers(handlers', pages', peer', connects') /\ Numbered(peer', connects')
<1>1. HandlersFit(handlers)
  BY DEF DInv, RInv, IInv
<1>2. \A e \in DOMAIN handlers' :
        e \in DOMAIN handlers /\ Follows(handlers'[e], handlers[e])
  BY <1>1, StaysWithItself
<1>3. Later(peer, connects, peer', connects') /\ Numbered(peer', connects')
  BY FewerConnections
<1>4. QED
  BY <1>2, <1>3, QuietDelivers

\* A client goes; an heir goes on where it has been as a reader.
LEMMA RemovesDelivers ==
  ASSUME DInv, IInv', NEW h \in Handler, Removes(h)
  PROVE  Delivers(handlers', pages', peer', connects') /\ Numbered(peer', connects')
<1>1. HandlersFit(handlers)
  BY DEF DInv, RInv, IInv
<1>2. \A u \in DOMAIN pages' : u \in DOMAIN pages /\ pages'[u].data = pages[u].data
  <2>1. CASE pages' = DeletePage(pages, h.url)
    BY <2>1 DEF DeletePage, Erase, Restrict
  <2>2. QED
    BY <2>1 DEF Removes
<1>3. ASSUME NEW e \in DOMAIN handlers'
      PROVE  e \in DOMAIN handlers /\ Follows(handlers'[e], handlers[e])
  <2>1. /\ e \in DOMAIN handlers
        /\ \/ handlers'[e] = handlers[e]
           \/ /\ e \in Deputies(h)
              /\ handlers'[e].type = "HEIR" /\ handlers'[e].url = handlers[e].url
              /\ handlers'[e].pos = handlers[e].pos
              /\ handlers'[e].handed = handlers[e].handed
    BY <1>1, LeftBehind DEF Removes
  <2>2. CASE handlers'[e] = handlers[e]
    BY <1>1, <2>1, <2>2, StaysWithItself
  <2>3. CASE /\ e \in Deputies(h)
             /\ handlers'[e].type = "HEIR" /\ handlers'[e].url = handlers[e].url
             /\ handlers'[e].pos = handlers[e].pos
             /\ handlers'[e].handed = handlers[e].handed
    <3>1. handlers[e].type = "CASH" /\ Follows(handlers[e], handlers[e])
      BY <1>1, <2>1, <2>3, StaysWithItself DEF Deputies
    <3>2. QED
      BY <2>1, <2>3, <3>1 DEF Follows
  <2>4. QED
    BY <2>1, <2>2, <2>3
<1>4. Later(peer, connects, peer', connects') /\ Numbered(peer', connects')
  BY FewerConnections DEF Removes
<1>5. QED
  BY <1>2, <1>3, <1>4, QuietDelivers

\* A new client, a new request, the end of a connection, a chunk that an heir
\* does not get.
LEMMA AcceptDelivers ==
  ASSUME DInv, IInv', AcceptClient
  PROVE  Delivers(handlers', pages', peer', connects') /\ Numbered(peer', connects')
<1>1. HandlersFit(handlers)
  BY DEF DInv, RInv, IInv
<1>2. PICK h \in Handler : Welcomes(h)
  BY <1>1, AcceptedHandler
<1>3. \A e \in DOMAIN handlers' :
        \/ e \in DOMAIN handlers /\ handlers'[e] = handlers[e]
        \/ handlers'[e].handed = <<>>
  BY <1>2 DEF Welcomes
<1>4. \A e \in DOMAIN handlers' :
        \/ handlers'[e].handed = <<>>
        \/ e \in DOMAIN handlers /\ Follows(handlers'[e], handlers[e])
  BY <1>1, <1>3, StaysWithItself
<1>5. Client \in Peer /\ Client.conn = 0
  BY DEF Client, Peer
<1>6. peer' = Put(peer, NewFd, Client) /\ UNCHANGED <<pages, connects>>
  BY DEF AcceptClient
<1>7. Later(peer, connects, peer', connects') /\ Numbered(peer', connects')
  BY <1>5, <1>6, OneMoreConnection
<1>8. QED
  BY <1>4, <1>6, <1>7, QuietDelivers

LEMMA ConnectDelivers ==
  ASSUME DInv, IInv', NEW u \in Urls, RequestFromServer(u)
  PROVE  Delivers(handlers', pages', peer', connects') /\ Numbered(peer', connects')
<1>1. HandlersFit(handlers) /\ RInv /\ connects \in Nat
  BY ConservedTypes DEF DInv, RInv, IInv
<1>2. /\ Slot \in DOMAIN handlers
      /\ \E h : /\ handlers' = [handlers EXCEPT ![Slot] = h]
                /\ h.type = "LOAD_CASHING" /\ ~h.respReady
                /\ h.handed = handlers[Slot].handed
  BY <1>1, ConnectsHandler
<1>3. \A e \in DOMAIN handlers' :
        e \in DOMAIN handlers /\ Follows(handlers'[e], handlers[e])
  <2>1. PICK h : /\ handlers' = [handlers EXCEPT ![Slot] = h]
                 /\ h.type = "LOAD_CASHING"
                 /\ h.handed = handlers[Slot].handed
    BY <1>2
  <2>2. Follows(h, handlers[Slot])
    BY <2>1 DEF Follows
  <2>3. QED
    BY <1>1, <1>2, <2>1, <2>2, OneFollows
<1>4. /\ peer' = Put(peer, NewFd, Server(u, connects + 1))
      /\ connects' = connects + 1 /\ UNCHANGED pages
  BY DEF RequestFromServer
<1>5. Server(u, connects + 1) \in Peer /\ Server(u, connects + 1).conn = connects + 1
  <2>1. connects + 1 \in Nat
    BY <1>1
  <2>2. QED
    BY <2>1 DEF Server, Peer
<1>6. Later(peer, connects, peer', connects') /\ Numbered(peer', connects')
  BY <1>4, <1>5, OneMoreConnection
<1>7. QED
  BY <1>3, <1>4, <1>6, QuietDelivers

LEMMA EofDelivers ==
  ASSUME DInv, IInv', NEW c \in DOMAIN handlers, ServerEof(c)
  PROVE  Delivers(handlers', pages', peer', connects') /\ Numbered(peer', connects')
<1>1. HandlersFit(handlers) /\ PagesFit(pages) /\ RInv
  BY DEF DInv, RInv, IInv
<1>2. PICK h \in Handler :
        /\ handlers' = [handlers EXCEPT ![c] = h]
        /\ h.type \in Loading /\ ~h.respReady
        /\ h.handed = handlers[c].handed
  BY <1>1, EofHandler
<1>3. Follows(h, handlers[c])
  BY <1>2 DEF Follows, Loading
<1>4. \A e \in DOMAIN handlers' :
        e \in DOMAIN handlers /\ Follows(handlers'[e], handlers[e])
  BY <1>1, <1>2, <1>3, OneFollows
<1>5. \A u \in DOMAIN pages' : u \in DOMAIN pages /\ pages'[u].data = pages[u].data
  BY <1>1, SetFullyLoadedFacts DEF ServerEof
<1>6. Later(peer, connects, peer', connects') /\ Numbered(peer', connects')
  <2>1. peer' = Erase(peer, {Slot}) /\ UNCHANGED connects
    BY DEF ServerEof, RemoveServer
  <2>2. \A s \in DOMAIN peer' : s \in DOMAIN peer /\ peer'[s] = peer[s]
    BY <2>1 DEF Erase, Restrict
  <2>3. QED
    BY <2>1, <2>2, FewerConnections
<1>7. QED
  BY <1>4, <1>5, <1>6, QuietDelivers

LEMMA LostDelivers ==
  ASSUME DInv, IInv', NEW c \in DOMAIN handlers, HeirChunkLost(c)
  PROVE  Delivers(handlers', pages', peer', connects') /\ Numbered(peer', connects')
<1>1. HandlersFit(handlers) /\ RInv
  BY DEF DInv, RInv, IInv
<1>2. PICK h : /\ handlers' = [handlers EXCEPT ![c] = h]
               /\ handlers[c].type = "HEIR" /\ h.type = "HEIR"
               /\ h.url = handlers[c].url
               /\ h.handed = handlers[c].handed
               /\ h.pos \in Nat /\ h.pos >= handlers[c].pos
  BY <1>1, LostHandler
<1>3. handlers[c].pos <= h.pos
  <2>1. handlers[c].pos \in Nat
    BY <1>1 DEF HandlersFit, Handler
  <2>2. QED
    BY <1>2, <2>1
<1>4. Follows(h, handlers[c])
  BY <1>2, <1>3 DEF Follows
<1>5. \A e \in DOMAIN handlers' :
        e \in DOMAIN handlers /\ Follows(handlers'[e], handlers[e])
  BY <1>1, <1>2, <1>4, OneFollows
<1>6. Later(peer, connects, peer', connects') /\ Numbered(peer', connects')
  <2>1. peer' = Erase(peer, {Slot}) /\ UNCHANGED connects
    BY DEF HeirChunkLost, RemoveServer
  <2>2. \A s \in DOMAIN peer' : s \in DOMAIN peer /\ peer'[s] = peer[s]
    BY <2>1 DEF Erase, Restrict
  <2>3. QED
    BY <2>1, <2>2, FewerConnections
<1>7. UNCHANGED pages
  BY DEF HeirChunkLost
<1>8. QED
  BY <1>5, <1>6, <1>7, QuietDelivers

LEMMA NextDelivers ==
  ASSUME DInv, IInv', [Next]_vars
  PROVE  Delivers(handlers', pages', peer', connects') /\ Numbered(peer', connects')
<1> DEFINE Done == /\ Delivers(handlers', pages', peer', connects')
                   /\ Numbered(peer', connects')
<1>1. RInv
  BY DEF DInv
<1>2. CASE NoAccept \/ PollFails \/ Halted \/ UNCHANGED vars \/ ServerGone \/ Stays
  <2>1. UNCHANGED <<handlers, pages, connects>>
    BY <1>2 DEF NoAccept, PollFails, Die, Halted, vars, ServerGone, Stays
  <2>2. peer' = peer \/ peer' = Erase(peer, {Slot})
    BY <1>2 DEF NoAccept, PollFails, Die, Halted, vars, ServerGone, RemoveServer, Stays
  <2>3. \A s \in DOMAIN peer' : s \in DOMAIN peer /\ peer'[s] = peer[s]
    BY <2>2 DEF Erase, Restrict
  <2>4. QED
    BY <2>1, <2>3, StaysDelivers
<1>3. CASE AcceptClient
  BY <1>3, AcceptDelivers
<1>4. ASSUME NEW h \in Handler, Removes(h)
      PROVE  Done
  BY <1>4, RemovesDelivers
<1>5. ASSUME NEW c \in DOMAIN handlers, NEW h \in Handler, Sends(c, h)
      PROVE  Done
  <2>1. Delivers(handlers', pages', peer', connects')
    BY <1>5, SendsDelivers
  <2>2. Numbered(peer', connects')
    BY <1>5 DEF Sends, DInv
  <2>3. QED
    BY <2>1, <2>2
<1>6. ASSUME NEW u \in Urls, RequestFromServer(u)
      PROVE  Done
  BY <1>6, ConnectDelivers
<1>7. ASSUME NEW c \in DOMAIN handlers, ServerEof(c) \/ HeirChunkLost(c)
      PROVE  Done
  BY <1>7, EofDelivers, LostDelivers
<1>8. ASSUME NEW c \in DOMAIN handlers, NEW n \in Nat \ {0}, NEW stored \in 0..n,
             NEW complete \in BOOLEAN,
             \/ ServerData(c, n, stored, complete)
             \/ ServerDataRefused(c, n, stored, complete)
      PROVE  Done
  BY <1>8, ReceiveDelivers
<1>9. CASE ClientNext
  <2>1. CASE Stays
    BY <1>2, <2>1
  <2>2. QED
    <3>1. \/ Stays
          \/ \E h \in Handler : Removes(h)
          \/ \E c \in DOMAIN handlers, h \in Handler : Sends(c, h)
          \/ \E u \in Urls : RequestFromServer(u)
      BY <1>1, <1>9, ClientSteps
    <3>2. CASE \E h \in Handler : Removes(h)
      BY <1>4, <3>2
    <3>3. CASE \E c \in DOMAIN handlers, h \in Handler : Sends(c, h)
      BY <1>5, <3>3
    <3>4. CASE \E u \in Urls : RequestFromServer(u)
      BY <1>6, <3>4
    <3>5. QED
      BY <2>1, <3>1, <3>2, <3>3, <3>4
<1>10. CASE ServerNext
  <2>1. CASE Stays \/ ServerGone
    BY <1>2, <2>1
  <2>2. QED
    <3>1. \/ Stays
          \/ ServerGone
          \/ \E c \in DOMAIN handlers, h \in Handler : Sends(c, h)
          \/ \E c \in DOMAIN handlers : ServerEof(c) \/ HeirChunkLost(c)
          \/ \E c \in DOMAIN handlers, n \in Nat \ {0} : \E stored \in 0..n, complete \in BOOLEAN :
               \/ ServerData(c, n, stored, complete)
               \/ ServerDataRefused(c, n, stored, complete)
      BY <1>1, <1>10, ServerSteps
    <3>2. CASE \E c \in DOMAIN handlers, h \in Handler : Sends(c, h)
      BY <1>5, <3>2
    <3>3. CASE \E c \in DOMAIN handlers : ServerEof(c) \/ HeirChunkLost(c)
      BY <1>7, <3>3
    <3>4. CASE \E c \in DOMAIN handlers, n \in Nat \ {0} : \E stored \in 0..n, complete \in BOOLEAN :
                 \/ ServerData(c, n, stored, complete)
                 \/ ServerDataRefused(c, n, stored, complete)
      BY <1>8, <3>4
    <3>5. QED
      BY <2>1, <3>1, <3>2, <3>3, <3>4
<1>11. QED
  BY <1>2, <1>3, <1>9, <1>10 DEF Next, ListenerNext

LEMMA DeliveryInvariance == Spec => []DInv
<1>1. Init => DInv
  <2>1. SUFFICES ASSUME Init PROVE DInv
    OBVIOUS
  <2>2. IInv
    BY <2>1, InitIInv
  <2>3. DOMAIN handlers = {} /\ DOMAIN pages = {} /\ DOMAIN peer = {}
    BY <2>1 DEF Init
  <2>4. QED
    BY <2>2, <2>3 DEF DInv, RInv, Reads, Numbered, Delivers
<1>2. DInv /\ [Next]_vars => DInv'
  <2>1. SUFFICES ASSUME DInv, [Next]_vars PROVE DInv'
    OBVIOUS
  <2>2. IInv'
    BY <2>1, NextPreserves DEF DInv, RInv
  <2>3. Reads(handlers', pages')
    BY <2>1, NextReads DEF DInv
  <2>4. Delivers(handlers', pages', peer', connects') /\ Numbered(peer', connects')
    BY <2>1, <2>2, NextDelivers
  <2>5. QED
    BY <2>2, <2>3, <2>4 DEF DInv, RInv
<1>3. QED
  BY <1>1, <1>2, PTL DEF Spec

\* What one connection sends reaches a client and a page at most once and in
\* its order: whether it comes from the server, from a page that was filled
\* by one loader or by several, or from a page that was dropped and made anew
\* while an heir was in it (receiveAndParseResponse, sendChunkFromCache,
\* becomeHeir).
THEOREM DeliveryCorrectness == Spec => []DeliveryInOrder
<1>1. DInv => DeliveryInOrder
  BY DEF DInv, Delivers, Sequence, DeliveryInOrder
<1>2. QED
  BY <1>1, DeliveryInvariance, PTL

-----------------------------------------------------------------------------
(* Who names a server.                                                     *)

\* Who names the socket of an open connection goes only when another handler
\* of the page names it; a new connection has a handler that names it.
HandedOn ==
  \A s \in DOMAIN peer' :
    \/ /\ s \in DOMAIN peer /\ peer'[s].conn = peer[s].conn
       /\ \A c \in DOMAIN handlers :
            handlers[c].server = s =>
              \E d \in DOMAIN handlers' :
                handlers'[d].server = s /\ handlers'[d].url = handlers[c].url
    \/ peer'[s].conn = 0
    \/ /\ peer'[s].conn > connects
       /\ \E d \in DOMAIN handlers' : handlers'[d].server = s

LEMMA OpenSockets ==
  ASSUME RInv, NEW s \in DOMAIN peer
  PROVE  s # NoSocket
BY DEF RInv, IInv, Tables, Fd, NoSocket

\* One handler changes: it goes on naming what it named, or had no server.
LEMMA OneHandsOn ==
  ASSUME RInv, NEW c \in DOMAIN handlers, NEW h, handlers' = [handlers EXCEPT ![c] = h],
         \/ handlers[c].server = NoSocket
         \/ h.server = handlers[c].server /\ h.url = handlers[c].url,
         \A s \in DOMAIN peer' :
           \/ s \in DOMAIN peer /\ peer'[s].conn = peer[s].conn
           \/ peer'[s].conn > connects /\ h.server = s
  PROVE  HandedOn
<1>1. /\ DOMAIN handlers' = DOMAIN handlers
      /\ \A e \in DOMAIN handlers : handlers'[e] = IF e = c THEN h ELSE handlers[e]
  BY DEF RInv, IInv, HandlersFit
<1>2. ASSUME NEW s \in DOMAIN peer, NEW e \in DOMAIN handlers, handlers[e].server = s
      PROVE  handlers'[e].server = s /\ handlers'[e].url = handlers[e].url
  <2>1. s # NoSocket
    BY OpenSockets
  <2>2. QED
    BY <1>1, <1>2, <2>1
<1>3. handlers'[c].server = h.server
  BY <1>1
<1>4. QED
  BY <1>1, <1>2, <1>3 DEF HandedOn

\* Nobody goes.
LEMMA StaysHandsOn ==
  ASSUME RInv, \A e \in DOMAIN handlers : /\ e \in DOMAIN handlers'
                                         /\ handlers'[e].server = handlers[e].server
                                         /\ handlers'[e].url = handlers[e].url,
         \A s \in DOMAIN peer' :
           \/ s \in DOMAIN peer /\ peer'[s].conn = peer[s].conn
           \/ peer'[s].conn = 0
  PROVE  HandedOn
BY DEF HandedOn

LEMMA RemovesHandsOn ==
  ASSUME RInv, NEW h \in Handler, Removes(h)
  PROVE  HandedOn
<1> DEFINE hs == WithHeir(h)
<1>1. HandlersFit(handlers) /\ (h.server # NoSocket => h.url \in Urls)
  BY DEF RInv, IInv, Removes
<1>2. /\ DOMAIN hs = DOMAIN handlers
      /\ HandsOver(h) =>
           \E d \in Deputies(h) :
             /\ hs[d].server = h.server
             /\ \A e \in DOMAIN handlers \ {d} : hs[e] = handlers[e]
      /\ ~HandsOver(h) => hs = handlers
  BY <1>1, WithHeirFits
<1> HIDE DEF hs
<1>3. /\ DOMAIN handlers' = DOMAIN hs \ {Slot}
      /\ \A e \in DOMAIN handlers' : handlers'[e] = hs[e]
  BY DEF Removes, Erase, Restrict, hs
<1>4. \A e \in DOMAIN handlers' : handlers'[e].url = handlers[e].url
  BY <1>1, LeftBehind DEF Removes
<1>5. ASSUME NEW s \in DOMAIN peer', NEW c \in DOMAIN handlers, handlers[c].server = s
      PROVE  \E d \in DOMAIN handlers' :
               handlers'[d].server = s /\ handlers'[d].url = handlers[c].url
  <2>1. s \in DOMAIN peer /\ s # NoSocket
    BY OpenSockets DEF Removes
  <2>2. handlers[c].type # "CASH"
    BY <1>1, <1>5, <2>1 DEF HandlersFit, RoleFits
  <2>3. CASE c # Slot
    <3>1. c \notin Deputies(h)
      BY <2>2 DEF Deputies
    <3>2. hs[c] = handlers[c]
      BY <1>2, <3>1
    <3>3. QED
      BY <1>2, <1>3, <1>5, <2>3, <3>2
  <2>4. CASE c = Slot
    <3>1. h = handlers[c] /\ HandsOver(h)
      BY <1>5, <2>1, <2>4 DEF Removes
    <3>2. PICK d \in Deputies(h) : hs[d].server = h.server
      BY <1>2, <3>1
    <3>3. d \in DOMAIN handlers /\ d # Slot /\ handlers[d].url = h.url
      BY <2>2, <2>4 DEF Deputies
    <3>4. d \in DOMAIN handlers' /\ handlers'[d].server = s
      BY <1>2, <1>3, <1>5, <3>1, <3>2, <3>3
    <3>5. QED
      BY <1>4, <3>1, <3>3, <3>4
  <2>5. QED
    BY <2>3, <2>4
<1>6. \A s \in DOMAIN peer' : s \in DOMAIN peer /\ peer'[s].conn = peer[s].conn
  BY DEF Removes
<1>7. QED
  BY <1>5, <1>6 DEF HandedOn

LEMMA ChunkKeepsServer ==
  ASSUME NEW pg, PagesFit(pg), NEW h \in Handler
  PROVE  /\ SendChunkFromCache(pg, h).server = h.server
         /\ SendChunkFromCache(pg, h).url = h.url
<1> DEFINE chunk == AcquireChunk(pg, h.url, h.pos)
           moved == [h EXCEPT !.pos = @ + Len(chunk)]
           g == SendChunkFromCache(pg, h)
<1>1. moved.server = h.server /\ moved.url = h.url
  BY DEF Handler
<1>2. \/ g = SendResponseChunk(moved, chunk)
      \/ g = AtPageEnd(pg, h)
  BY DEF SendChunkFromCache
<1>3. DOMAIN moved = DOMAIN h
  OBVIOUS
<1> HIDE DEF moved, chunk
<1>4. SendResponseChunk(moved, chunk).server = h.server
      /\ SendResponseChunk(moved, chunk).url = h.url
  BY <1>1, <1>3 DEF SendResponseChunk, Handler
<1>5. AtPageEnd(pg, h).server = h.server /\ AtPageEnd(pg, h).url = h.url
  <2>1. IsFullyLoaded(pg, h.url) \in BOOLEAN
    BY DEF IsFullyLoaded, IsCached, PagesFit, Page
  <2>2. \/ AtPageEnd(pg, h) = [h EXCEPT !.respSent = TRUE]
        \/ AtPageEnd(pg, h) = BecomeMaster(h)
        \/ AtPageEnd(pg, h) = h
    BY <2>1 DEF AtPageEnd
  <2>3. QED
    BY <2>2 DEF Handler, BecomeMaster
<1> HIDE DEF g
<1>6. QED
  BY <1>2, <1>4, <1>5 DEF g

LEMMA SendsHandsOn ==
  ASSUME RInv, NEW c \in DOMAIN handlers, NEW h \in Handler, Sends(c, h)
  PROVE  HandedOn
<1> DEFINE g == SendChunkFromCache(pages, h)
<1>1. handlers[c] \in Handler /\ RoleFits(handlers[c]) /\ PagesFit(pages)
  BY DEF RInv, IInv, HandlersFit
<1>2. g.server = h.server /\ g.url = h.url
  BY <1>1, ChunkKeepsServer
<1>3. handlers' = [handlers EXCEPT ![c] = g] /\ UNCHANGED peer
  BY DEF Sends
<1>4. handlers[c].server = NoSocket \/ h = handlers[c]
  BY <1>1 DEF Sends, RoleFits
<1> HIDE DEF g
<1>5. QED
  BY <1>2, <1>3, <1>4, OneHandsOn

LEMMA AcceptHandsOn ==
  ASSUME RInv, AcceptClient
  PROVE  HandedOn
<1>1. \A e \in DOMAIN handlers : /\ e \in DOMAIN handlers'
                                /\ handlers'[e].server = handlers[e].server
                                /\ handlers'[e].url = handlers[e].url
  BY AcceptedHandler DEF Welcomes, RInv, IInv
<1>2. \A s \in DOMAIN peer' :
        \/ s \in DOMAIN peer /\ peer'[s].conn = peer[s].conn
        \/ peer'[s].conn = 0
  BY DEF AcceptClient, Put, Client
<1>3. QED
  BY <1>1, <1>2, StaysHandsOn

LEMMA ConnectHandsOn ==
  ASSUME RInv, NEW u \in Urls, RequestFromServer(u)
  PROVE  HandedOn
<1>1. /\ Slot \in DOMAIN handlers
      /\ \E h : /\ handlers' = [handlers EXCEPT ![Slot] = h]
                /\ h.type = "LOAD_CASHING" /\ ~h.respReady
                /\ h.handed = handlers[Slot].handed
                /\ h.server = NewFd
      /\ handlers[Slot].server = NoSocket
  BY ConnectsHandler
<1>2. PICK h : handlers' = [handlers EXCEPT ![Slot] = h] /\ h.server = NewFd
  BY <1>1
<1>3. peer' = Put(peer, NewFd, Server(u, connects + 1)) /\ connects \in Nat
  BY DEF RequestFromServer, RInv, IInv
<1>4. Server(u, connects + 1).conn > connects
  BY <1>3 DEF Server
<1>5. \A s \in DOMAIN peer' :
        \/ s \in DOMAIN peer /\ peer'[s].conn = peer[s].conn
        \/ peer'[s].conn > connects /\ h.server = s
  BY <1>2, <1>3, <1>4 DEF Put
<1>6. QED
  BY <1>1, <1>2, <1>5, OneHandsOn

LEMMA ServerStepsHandOn ==
  ASSUME RInv, NEW c \in DOMAIN handlers, ServerEof(c) \/ HeirChunkLost(c)
  PROVE  HandedOn
<1>1. \A s \in DOMAIN peer' : s \in DOMAIN peer /\ peer'[s].conn = peer[s].conn
  <2>1. peer' = Erase(peer, {Slot})
    BY DEF ServerEof, HeirChunkLost, RemoveServer
  <2>2. QED
    BY <2>1 DEF Erase, Restrict
<1>2. PICK h : /\ handlers' = [handlers EXCEPT ![c] = h]
               /\ h.server = handlers[c].server /\ h.url = handlers[c].url
  BY EofHandler, LostHandler
<1>3. QED
  BY <1>1, <1>2, OneHandsOn

\* recv() raises the count of its connection and of no other.
LEMMA ReceivePeers ==
  ASSUME RInv, NEW c, NEW n, NEW stored, NEW complete,
         \/ ServerData(c, n, stored, complete)
         \/ ServerDataRefused(c, n, stored, complete)
  PROVE  /\ Slot \in DOMAIN peer /\ peer[Slot] \in ServerPeer
         /\ \A t \in DOMAIN peer' : /\ t \in DOMAIN peer /\ peer'[t].conn = peer[t].conn
                                    /\ t = Slot =>
                                         /\ peer'[t].sent = peer[Slot].sent + n
                                         /\ peer'[t].lost = peer[Slot].lost
                                    /\ t # Slot => peer'[t] = peer[t]
<1>1. Receive(c, n, stored, complete)
  BY DEF ServerData, ServerDataRefused
<1>2. /\ Slot \in DOMAIN peer /\ peer[Slot] \in ServerPeer
      /\ peer \in [DOMAIN peer -> Peer]
  BY <1>1, SlotFacts DEF RInv, IInv, Tables, Receive, Receiving, ServerSlot
<1>3. CASE ServerData(c, n, stored, complete)
  <2>1. peer' = [peer EXCEPT ![Slot] = [peer[Slot] EXCEPT !.sent = @ + n]]
    BY <1>3 DEF ServerData
  <2>2. /\ [peer[Slot] EXCEPT !.sent = @ + n].conn = peer[Slot].conn
        /\ [peer[Slot] EXCEPT !.sent = @ + n].sent = peer[Slot].sent + n
        /\ [peer[Slot] EXCEPT !.sent = @ + n].lost = peer[Slot].lost
    BY <1>2 DEF ServerPeer
  <2>3. QED
    BY <1>2, <2>1, <2>2
<1>4. CASE ServerDataRefused(c, n, stored, complete)
  <2>1. peer' = Erase(peer, {Slot})
    BY <1>4 DEF ServerDataRefused, RemoveServer
  <2>2. QED
    BY <1>2, <2>1 DEF Erase, Restrict
<1>5. QED
  BY <1>3, <1>4

LEMMA ReceiveHandsOn ==
  ASSUME RInv, NEW c \in DOMAIN handlers, NEW n \in Nat, NEW stored \in 0..n,
         NEW complete \in BOOLEAN,
         \/ ServerData(c, n, stored, complete)
         \/ ServerDataRefused(c, n, stored, complete)
  PROVE  HandedOn
<1>1. PICK h \in Handler :
         /\ handlers' = [handlers EXCEPT ![c] = h]
         /\ h.type \in Loading /\ h.url = handlers[c].url
         /\ h.type = "LOAD_CASHING" => handlers[c].type = "LOAD_CASHING"
         /\ h.respReady = complete
         /\ Passes(handlers[c], h, n, stored)
  BY ReceiveHandler
<1>2. h.server = handlers[c].server
  BY <1>1 DEF Passes
<1>3. \A s \in DOMAIN peer' : s \in DOMAIN peer /\ peer'[s].conn = peer[s].conn
  BY ReceivePeers
<1>4. QED
  BY <1>1, <1>2, <1>3, OneHandsOn

LEMMA NextHandsOn ==
  ASSUME RInv, [Next]_vars
  PROVE  HandedOn
<1>1. CASE NoAccept \/ PollFails \/ Halted \/ UNCHANGED vars \/ ServerGone \/ Stays
  <2>1. UNCHANGED handlers
    BY <1>1 DEF NoAccept, PollFails, Die, Halted, vars, ServerGone, Stays
  <2>2. peer' = peer \/ peer' = Erase(peer, {Slot})
    BY <1>1 DEF NoAccept, PollFails, Die, Halted, vars, ServerGone, RemoveServer, Stays
  <2>3. \A s \in DOMAIN peer' : s \in DOMAIN peer /\ peer'[s].conn = peer[s].conn
    BY <2>2 DEF Erase, Restrict
  <2>4. QED
    BY <2>1, <2>3, StaysHandsOn
<1>2. CASE AcceptClient
  BY <1>2, AcceptHandsOn
<1>3. ASSUME NEW h \in Handler, Removes(h)
      PROVE  HandedOn
  BY <1>3, RemovesHandsOn
<1>4. ASSUME NEW c \in DOMAIN handlers, NEW h \in Handler, Sends(c, h)
      PROVE  HandedOn
  BY <1>4, SendsHandsOn
<1>5. ASSUME NEW u \in Urls, RequestFromServer(u)
      PROVE  HandedOn
  BY <1>5, ConnectHandsOn
<1>6. ASSUME NEW c \in DOMAIN handlers, ServerEof(c) \/ HeirChunkLost(c)
      PROVE  HandedOn
  BY <1>6, ServerStepsHandOn
<1>7. ASSUME NEW c \in DOMAIN handlers, NEW n \in Nat \ {0}, NEW stored \in 0..n,
             NEW complete \in BOOLEAN,
             \/ ServerData(c, n, stored, complete)
             \/ ServerDataRefused(c, n, stored, complete)
      PROVE  HandedOn
  BY <1>7, ReceiveHandsOn
<1>8. CASE ClientNext
  BY <1>1, <1>3, <1>4, <1>5, <1>8, ClientSteps
<1>9. CASE ServerNext
  BY <1>1, <1>4, <1>6, <1>7, <1>9, ServerSteps
<1>10. QED
  BY <1>1, <1>2, <1>8, <1>9 DEF Next, ListenerNext

\* Whoever names the socket of an open connection and goes leaves it to a
\* handler of its page or closes it, also when the number it has is stale
\* (removeClient, tryChooseDeputy, becomeHeir).
THEOREM HandoverCorrectness == Spec => ServerIsHandedOn
<1>1. DInv /\ IInv' /\ [Next]_vars =>
        [\A s \in DOMAIN sockets \cap DOMAIN sockets' :
           sockets[s] = "SERVER" /\ peer'[s].conn = peer[s].conn =>
             \A c \in Owners(s) :
               \E d \in Owners(s)' : handlers'[d].url = handlers[c].url]_vars
  <2>1. SUFFICES ASSUME DInv, IInv', [Next]_vars,
                        NEW s \in DOMAIN sockets, s \in DOMAIN sockets',
                        sockets[s] = "SERVER", peer'[s].conn = peer[s].conn,
                        NEW c \in Owners(s)
                 PROVE  \E d \in Owners(s)' : handlers'[d].url = handlers[c].url
    OBVIOUS
  <2>2. s \in DOMAIN peer /\ s \in DOMAIN peer'
    BY <2>1 DEF DInv, RInv, IInv, Tables
  <2>3. peer[s].conn \in Nat \ {0} /\ peer[s].conn <= connects /\ connects \in Nat
    BY <2>1, <2>2 DEF DInv, RInv, IInv, Tables, ServerPeer, Numbered
  <2>4. HandedOn
    BY <2>1, NextHandsOn DEF DInv
  <2>5. ~(peer'[s].conn > connects) /\ peer'[s].conn # 0
    BY <2>1, <2>3
  <2>6. PICK d \in DOMAIN handlers' :
          handlers'[d].server = s /\ handlers'[d].url = handlers[c].url
    BY <2>1, <2>2, <2>4, <2>5 DEF HandedOn, Owners
  <2>7. QED
    BY <2>6 DEF Owners
<1>2. DInv => IInv
  BY DEF DInv, RInv
<1>3. QED
  BY <1>1, <1>2, DeliveryInvariance, PTL DEF Spec, ServerIsHandedOn

-----------------------------------------------------------------------------
(* Where a page ends.                                                      *)

\* Memory has never run out.
NoneTransient(hs) == \A c \in DOMAIN hs : hs[c].type # "LOAD_TRANSIENT"

\* Every connection to a server has a handler that names it.
Named(hs, prs) ==
  \A s \in DOMAIN prs : prs[s].conn # 0 => \E c \in DOMAIN hs : hs[c].server = s

\* The idx of the units of connection p in data.
HeldOf(data, p) == {data[i].idx : i \in {j \in DOMAIN data : data[j].conn = p.conn}}

\* The page of u holds what was received on connection p, but for what went
\* with an earlier page, and no other page holds any of it.
Reached(pg, u, p) ==
  /\ p.lost <= p.sent
  /\ HeldOf(PageOrNew(pg, u).data, p) = (p.lost + 1)..p.sent
  /\ \A v \in DOMAIN pg \ {u} : HeldOf(pg[v].data, p) = {}

\* All who name socket s load the page of u.
AllLoad(hs, s, u) == \A c \in DOMAIN hs : hs[c].server = s => hs[c].url = u

UpToServer(hs, pg, prs) ==
  \A c \in DOMAIN hs, s \in DOMAIN prs :
    hs[c].server = s /\ prs[s].conn # 0 /\ AllLoad(hs, s, hs[c].url) =>
      Reached(pg, hs[c].url, prs[s])

EInv ==
  /\ DInv
  /\ NoneTransient(handlers)
  /\ Named(handlers, peer)
  /\ UpToServer(handlers, pages, peer)

\* A connection that is of one page after a step was so before it.
LEMMA WasOfOnePage ==
  ASSUME HandedOn, Named(handlers, peer), UpToServer(handlers, pages, peer),
         NEW s \in DOMAIN peer', peer'[s].conn # 0, ~(peer'[s].conn > connects),
         NEW u, AllLoad(handlers', s, u)
  PROVE  /\ s \in DOMAIN peer /\ peer'[s].conn = peer[s].conn
         /\ AllLoad(handlers, s, u)
         /\ Reached(pages, u, peer[s])
<1>1. /\ s \in DOMAIN peer /\ peer'[s].conn = peer[s].conn
      /\ \A c \in DOMAIN handlers :
           handlers[c].server = s =>
             \E d \in DOMAIN handlers' :
               handlers'[d].server = s /\ handlers'[d].url = handlers[c].url
  BY DEF HandedOn
<1>2. AllLoad(handlers, s, u)
  BY <1>1 DEF AllLoad
<1>3. PICK c \in DOMAIN handlers : handlers[c].server = s
  BY <1>1 DEF Named
<1>4. handlers[c].url = u
  BY <1>2, <1>3 DEF AllLoad
<1>5. Reached(pages, u, peer[s])
  BY <1>1, <1>2, <1>3, <1>4 DEF UpToServer
<1>6. QED
  BY <1>1, <1>2, <1>5

\* No page holds a unit of a connection that is yet to be made.
LEMMA NothingYet ==
  ASSUME DInv, NEW u, IsCached(pages, u), NEW i \in DOMAIN pages[u].data
  PROVE  ~(pages[u].data[i].conn > connects)
<1>1. /\ pages[u].data \in Seq(Unit) /\ connects \in Nat
      /\ Known(pages[u].data, peer, connects)
  BY ConservedTypes DEF DInv, RInv, Delivers, Sequence, IsCached
<1>2. pages[u].data[i].conn \in Nat /\ pages[u].data[i].conn <= connects
  BY <1>1, Places DEF Known
<1>3. QED
  BY <1>1, <1>2

\* A connection that is yet to be made has no unit in any page.
LEMMA NewIsReached ==
  ASSUME DInv, NEW p, p.conn > connects, p.sent = 0, p.lost = 0, NEW u
  PROVE  Reached(pages, u, p)
<1>1. ASSUME NEW v \in DOMAIN pages
      PROVE  HeldOf(pages[v].data, p) = {}
  <2>1. \A i \in DOMAIN pages[v].data : pages[v].data[i].conn # p.conn
    BY NothingYet DEF IsCached
  <2>2. QED
    BY <2>1 DEF HeldOf
<1>2. HeldOf(PageOrNew(pages, u).data, p) = {}
  <2>1. CASE IsCached(pages, u)
    BY <1>1, <2>1 DEF PageOrNew, IsCached
  <2>2. CASE ~IsCached(pages, u)
    <3>1. PageOrNew(pages, u).data = <<>>
      BY <2>2 DEF PageOrNew, EmptyPage
    <3>2. QED
      BY <3>1 DEF HeldOf
  <2>3. QED
    BY <2>1, <2>2
<1>3. (p.lost + 1)..p.sent = {}
  OBVIOUS
<1>4. QED
  BY <1>1, <1>2, <1>3 DEF Reached

\* Pages with the same data hold the same of a connection.
LEMMA SameDataReached ==
  ASSUME NEW pg, NEW qg, DOMAIN qg = DOMAIN pg,
         \A u \in DOMAIN pg : qg[u].data = pg[u].data,
         NEW u, NEW p, Reached(pg, u, p)
  PROVE  Reached(qg, u, p)
<1>1. PageOrNew(qg, u).data = PageOrNew(pg, u).data
  BY DEF PageOrNew, IsCached
<1>2. QED
  BY <1>1 DEF Reached

\* A step that stores nothing, receives nothing and drops no page.
LEMMA QuietUpTo ==
  ASSUME EInv, HandedOn,
         DOMAIN pages' = DOMAIN pages,
         \A u \in DOMAIN pages : pages'[u].data = pages[u].data,
         \A s \in DOMAIN peer' : s \in DOMAIN peer => peer'[s] = peer[s],
         \A s \in DOMAIN peer' \ DOMAIN peer : peer'[s].sent = 0 /\ peer'[s].lost = 0
  PROVE  UpToServer(handlers', pages', peer')
<1>1. SUFFICES ASSUME NEW d \in DOMAIN handlers', NEW s \in DOMAIN peer',
                      handlers'[d].server = s, peer'[s].conn # 0,
                      AllLoad(handlers', s, handlers'[d].url)
               PROVE  Reached(pages', handlers'[d].url, peer'[s])
  BY DEF UpToServer
<1> DEFINE u == handlers'[d].url
<1>2. SUFFICES Reached(pages, u, peer'[s])
  BY SameDataReached
<1>3. CASE peer'[s].conn > connects
  <2>1. s \notin DOMAIN peer
    <3>1. SUFFICES ASSUME s \in DOMAIN peer PROVE FALSE
      OBVIOUS
    <3>2. /\ peer[s].conn \in Nat /\ connects \in Nat /\ peer[s].conn <= connects
          /\ peer'[s] = peer[s]
      BY <3>1 DEF EInv, DInv, RInv, IInv, Tables, Peer, Numbered
    <3>3. QED
      BY <1>3, <3>2
  <2>2. QED
    BY <1>3, <2>1, NewIsReached DEF EInv
<1>4. CASE ~(peer'[s].conn > connects)
  BY <1>1, <1>4, WasOfOnePage DEF EInv
<1>5. QED
  BY <1>3, <1>4

\* Of a connection whose units are all in one page, those are lost when that
\* page is dropped, and none when another one is.
LEMMA LosesWhatItHeld ==
  ASSUME PagesFit(pages), NEW v, IsCached(pages, v), NEW p \in Peer,
         InOrder(pages[v].data), NEW u, Reached(pages, u, p)
  PROVE  Reached(DeletePage(pages, v), u, Losing(p, v))
<1> DEFINE data == pages[v].data
           at == UnitsOf(p.conn, v)
           m == Max(at)
           qg == DeletePage(pages, v)
<1>1. /\ DOMAIN qg = DOMAIN pages \ {v}
      /\ \A w \in DOMAIN qg : qg[w] = pages[w]
  BY DEF DeletePage, Erase, Restrict
<1>2. data \in Seq(Unit) /\ p.sent \in Nat /\ p.lost \in Nat
  BY DEF PagesFit, IsCached, Page, Peer
<1>3. at = {i \in DOMAIN data : data[i].conn = p.conn}
  BY DEF UnitsOf
<1>4. HeldOf(data, p) = {data[i].idx : i \in at}
  BY <1>3 DEF HeldOf
<1>5. Losing(p, v) = IF at = {} THEN p ELSE [p EXCEPT !.lost = data[m].idx]
  BY DEF Losing
<1> HIDE DEF data, at, m, qg
<1>6. CASE u = v
  <2>1. HeldOf(data, p) = (p.lost + 1)..p.sent /\ p.lost <= p.sent
    BY <1>6 DEF Reached, PageOrNew, data
  <2>2. PageOrNew(qg, u).data = <<>>
    BY <1>1, <1>6 DEF PageOrNew, IsCached, EmptyPage
  <2>3. \A q : HeldOf(PageOrNew(qg, u).data, q) = {}
    BY <2>2 DEF HeldOf
  <2>4. CASE at = {}
    <3>1. (p.lost + 1)..p.sent = {}
      BY <1>4, <2>1, <2>4
    <3>2. Losing(p, v) = p
      BY <1>5, <2>4
    <3>3. QED
      BY <1>1, <1>6, <2>1, <2>3, <3>1, <3>2 DEF Reached, qg
  <2>5. CASE at # {}
    <3>1. Len(data) \in Nat /\ DOMAIN data = 1..Len(data)
      BY <1>2, LenProperties
    <3>2. at \in SUBSET (0..Len(data))
      BY <1>3, <3>1
    <3>3. m \in at /\ \A i \in at : i <= m
      BY <2>5, <3>1, <3>2, MaxOfNats DEF m
    <3>4. data[m].idx \in (p.lost + 1)..p.sent
      BY <1>4, <2>1, <3>3
    <3>5. p.sent \in HeldOf(data, p)
      BY <1>2, <2>1, <3>4
    <3>6. PICK i \in at : data[i].idx = p.sent
      BY <1>4, <3>5
    <3>7. data[m].idx = p.sent
      <4>1. i = m \/ i < m
        BY <3>1, <3>2, <3>3
      <4>2. ASSUME i < m PROVE data[i].idx < data[m].idx
        BY <1>3, <3>3, <4>2 DEF InOrder, data
      <4>3. QED
        BY <1>2, <3>4, <3>6, <4>1, <4>2
    <3>8. /\ Losing(p, v).lost = p.sent /\ Losing(p, v).sent = p.sent
          /\ Losing(p, v).conn = p.conn
      BY <1>5, <2>5, <3>7 DEF Peer
    <3>9. \A w \in DOMAIN pages : HeldOf(pages[w].data, Losing(p, v)) = HeldOf(pages[w].data, p)
      BY <3>8 DEF HeldOf
    <3>10. (p.sent + 1)..p.sent = {} /\ p.sent <= p.sent
      BY <1>2
    <3> DEFINE q == Losing(p, v)
    <3> HIDE DEF q
    <3>11. /\ q.lost = p.sent /\ q.sent = p.sent
           /\ \A w \in DOMAIN pages \ {u} : HeldOf(pages[w].data, q) = {}
      BY <3>8, <3>9 DEF q, Reached
    <3>12. Reached(qg, u, q)
      BY <1>1, <1>6, <2>3, <3>10, <3>11 DEF Reached
    <3>13. QED
      BY <3>12 DEF q, qg
  <2>6. QED
    BY <2>4, <2>5
<1>7. CASE u # v
  <2>1. HeldOf(data, p) = {}
    BY <1>7 DEF Reached, IsCached, data
  <2>2. Losing(p, v) = p
    BY <1>4, <1>5, <2>1
  <2>3. PageOrNew(qg, u) = PageOrNew(pages, u)
    BY <1>1, <1>7 DEF PageOrNew, IsCached
  <2>4. QED
    BY <1>1, <2>2, <2>3 DEF Reached, qg
<1>8. QED
  BY <1>6, <1>7

\* A client is removed whose page is dropped.
LEMMA DropUpTo ==
  ASSUME EInv, HandedOn, NEW v, IsCached(pages, v), pages' = DeletePage(pages, v),
         \A s \in DOMAIN peer' : s \in DOMAIN peer /\ peer'[s] = Losing(peer[s], v),
         \A s \in DOMAIN peer' : peer'[s].conn = peer[s].conn
  PROVE  UpToServer(handlers', pages', peer')
<1>1. SUFFICES ASSUME NEW d \in DOMAIN handlers', NEW s \in DOMAIN peer',
                      handlers'[d].server = s, peer'[s].conn # 0,
                      AllLoad(handlers', s, handlers'[d].url)
               PROVE  Reached(pages', handlers'[d].url, peer'[s])
  BY DEF UpToServer
<1> DEFINE u == handlers'[d].url
<1>2. /\ s \in DOMAIN peer /\ peer[s] \in Peer /\ peer[s].conn # 0
      /\ connects \in Nat /\ peer[s].conn <= connects
  BY <1>1 DEF EInv, DInv, RInv, IInv, Tables, Numbered
<1>3. ~(peer'[s].conn > connects)
  BY <1>2 DEF Peer
<1>4. Reached(pages, u, peer[s])
  BY <1>1, <1>3, WasOfOnePage DEF EInv
<1>5. PagesFit(pages) /\ InOrder(pages[v].data)
  BY DEF EInv, DInv, RInv, IInv, Delivers, Sequence, IsCached
<1>6. peer[s].sent \in Nat /\ peer[s].lost \in Nat
  BY <1>2 DEF Peer
<1>7. QED
  BY <1>2, <1>4, <1>5, LosesWhatItHeld

LEMMA StaysNamed ==
  ASSUME HandedOn, Named(handlers, peer)
  PROVE  Named(handlers', peer')
<1>1. SUFFICES ASSUME NEW s \in DOMAIN peer', peer'[s].conn # 0
               PROVE  \E d \in DOMAIN handlers' : handlers'[d].server = s
  BY DEF Named
<1>2. CASE /\ s \in DOMAIN peer /\ peer'[s].conn = peer[s].conn
           /\ \A c \in DOMAIN handlers :
                handlers[c].server = s =>
                  \E d \in DOMAIN handlers' :
                    handlers'[d].server = s /\ handlers'[d].url = handlers[c].url
  BY <1>1, <1>2 DEF Named
<1>3. QED
  BY <1>1, <1>2 DEF HandedOn

\* The step appends units to the page of u, and to no other.
GrowsBy(u, units) ==
  LET old == PageOrNew(pages, u).data
  IN  /\ old \in Seq(Unit)
      /\ DOMAIN pages' = DOMAIN pages \cup {u}
      /\ pages'[u].data = old \o units
      /\ \A v \in DOMAIN pages' \ {u} :
           v \in DOMAIN pages /\ pages'[v].data = pages[v].data

\* What a loader that caches stores is the end of its page.
LEMMA ReceiveAppends ==
  ASSUME RInv, NEW c \in DOMAIN handlers, NEW n \in Nat, NEW stored \in 0..n,
         NEW complete \in BOOLEAN, Receive(c, n, stored, complete),
         handlers[c].type = "LOAD_CASHING"
  PROVE  GrowsBy(handlers[c].url, SubSeq(Received(n), 1, stored))
<1> DEFINE u == handlers[c].url
           old == PageOrNew(pages, u)
           units == SubSeq(Received(n), 1, stored)
           mid == AppendCache(pages, u, units)
<1>1. PagesFit(pages)
  BY DEF RInv, IInv
<1>2. old \in Page
  BY <1>1, EmptySeq DEF PageOrNew, IsCached, EmptyPage, PagesFit, Page
<1>3. pages' = IF complete THEN SetFullyLoaded(mid, u) ELSE mid
  BY DEF Receive, CacheWith
<1> HIDE DEF old, units
<1>4. /\ DOMAIN mid = DOMAIN pages \cup {u}
      /\ mid[u] = [old EXCEPT !.data = @ \o units]
      /\ \A v \in DOMAIN pages \ {u} : mid[v] = pages[v]
  BY DEF AppendCache, Put, old
<1>5. mid[u].data = old.data \o units
  BY <1>2, <1>4 DEF Page
<1> HIDE DEF mid
<1>6. DOMAIN pages' = DOMAIN mid /\ \A v \in DOMAIN mid : pages'[v].data = mid[v].data
  <2>1. CASE complete
    <3>1. pages' = IF u \in DOMAIN mid THEN [mid EXCEPT ![u].full = TRUE] ELSE mid
      BY <1>3, <2>1 DEF SetFullyLoaded, IsCached
    <3>2. mid[u] \in Page
      <4>1. mid[u] = [old EXCEPT !.data = old.data \o units]
        BY <1>2, <1>4
      <4>2. units \in Seq(Unit)
        BY ReceivePages DEF units
      <4>3. old.data \o units \in Seq(Unit)
        BY <1>2, <4>2, ConcatProperties DEF Page
      <4>4. QED
        BY <1>2, <4>1, <4>3 DEF Page
    <3>3. QED
      BY <3>1, <3>2 DEF Page
  <2>2. CASE ~complete
    BY <1>3, <2>2
  <2>3. QED
    BY <2>1, <2>2
<1>7. QED
  BY <1>2, <1>4, <1>5, <1>6 DEF Page, GrowsBy, old, units

\* What is appended to a page adds its units to what the page holds.
LEMMA HeldConcat ==
  ASSUME NEW a \in Seq(Unit), NEW f \in Seq(Unit), NEW p
  PROVE  HeldOf(a \o f, p) = HeldOf(a, p) \cup HeldOf(f, p)
<1> DEFINE t == a \o f
<1>1. /\ Len(a) \in Nat /\ Len(f) \in Nat
      /\ DOMAIN a = 1..Len(a) /\ DOMAIN f = 1..Len(f)
      /\ DOMAIN t = 1..(Len(a) + Len(f))
      /\ \A i \in 1..(Len(a) + Len(f)) :
           t[i] = IF i <= Len(a) THEN a[i] ELSE f[i - Len(a)]
  <2>1. t \in Seq(Unit)
    BY ConcatProperties
  <2>2. QED
    BY <2>1, LenProperties, ConcatProperties
<1> HIDE DEF t
<1>2. ASSUME NEW x \in HeldOf(t, p)
      PROVE  x \in HeldOf(a, p) \cup HeldOf(f, p)
  <2>1. PICK i \in DOMAIN t : t[i].conn = p.conn /\ x = t[i].idx
    BY <1>2 DEF HeldOf
  <2>2. CASE i <= Len(a)
    <3>1. i \in DOMAIN a /\ a[i] = t[i]
      BY <1>1, <2>2
    <3>2. QED
      BY <2>1, <3>1 DEF HeldOf
  <2>3. CASE ~(i <= Len(a))
    <3>1. i - Len(a) \in DOMAIN f /\ f[i - Len(a)] = t[i]
      BY <1>1, <2>3
    <3>2. QED
      BY <2>1, <3>1 DEF HeldOf
  <2>4. QED
    BY <2>2, <2>3
<1>3. ASSUME NEW x \in HeldOf(a, p)
      PROVE  x \in HeldOf(t, p)
  <2>1. PICK i \in DOMAIN a : a[i].conn = p.conn /\ x = a[i].idx
    BY <1>3 DEF HeldOf
  <2>2. i \in DOMAIN t /\ t[i] = a[i]
    BY <1>1
  <2>3. QED
    BY <2>1, <2>2 DEF HeldOf
<1>4. ASSUME NEW x \in HeldOf(f, p)
      PROVE  x \in HeldOf(t, p)
  <2>1. PICK i \in DOMAIN f : f[i].conn = p.conn /\ x = f[i].idx
    BY <1>4 DEF HeldOf
  <2>2. Len(a) + i \in DOMAIN t /\ t[Len(a) + i] = f[i]
    <3>1. /\ Len(a) + i \in 1..(Len(a) + Len(f)) /\ ~(Len(a) + i <= Len(a))
          /\ (Len(a) + i) - Len(a) = i
      BY <1>1
    <3>2. QED
      BY <1>1, <3>1
  <2>3. QED
    BY <2>1, <2>2 DEF HeldOf
<1>5. QED
  BY <1>2, <1>3, <1>4 DEF t

\* What recv() returns are the next units of the connection in the slot.
LEMMA HeldOfReceived ==
  ASSUME NEW n \in Nat, Slot \in DOMAIN peer, peer[Slot] \in ServerPeer, NEW p
  PROVE  HeldOf(SubSeq(Received(n), 1, n), p) =
           IF p.conn = peer[Slot].conn
           THEN (peer[Slot].sent + 1)..(peer[Slot].sent + n)
           ELSE {}
<1> DEFINE r == Received(n)
           f == SubSeq(r, 1, n)
           sent == peer[Slot].sent
<1>1. sent \in Nat /\ peer[Slot].conn \in Nat \ {0} /\ peer[Slot].url \in Urls
  BY DEF ServerPeer
<1>2. /\ r \in [1..n -> Unit]
      /\ \A i \in 1..n : r[i].conn = peer[Slot].conn /\ r[i].idx = sent + i
  BY <1>1 DEF Received, Unit
<1> HIDE DEF r
<1>3. \A i \in 1..n : r[i] \in Unit
  BY <1>2
<1>4. /\ f \in Seq(Unit)
      /\ Len(f) = IF 1 <= n THEN n - 1 + 1 ELSE 0
      /\ \A i \in 1..(n - 1 + 1) : f[i] = r[1 + i - 1]
  BY <1>3, SubSeqProperties
<1> HIDE DEF f, sent
<1>5. Len(f) = n /\ DOMAIN f = 1..Len(f)
  BY <1>4, LenProperties
<1>6. \A i \in 1..n : i \in 1..(n - 1 + 1) /\ 1 + i - 1 = i
  OBVIOUS
<1>7. \A i \in 1..n : f[i].conn = peer[Slot].conn /\ f[i].idx = sent + i
  BY <1>2, <1>4, <1>6
<1>8. CASE p.conn # peer[Slot].conn
  BY <1>5, <1>7, <1>8 DEF HeldOf, f, r
<1>9. CASE p.conn = peer[Slot].conn
  <2>1. HeldOf(f, p) = {sent + i : i \in 1..n}
    BY <1>5, <1>7, <1>9 DEF HeldOf
  <2>2. {sent + i : i \in 1..n} = (sent + 1)..(sent + n)
    <3>1. ASSUME NEW x \in (sent + 1)..(sent + n)
          PROVE  x \in {sent + i : i \in 1..n}
      <4>1. x - sent \in 1..n /\ sent + (x - sent) = x
        BY <1>1
      <4>2. QED
        BY <4>1
    <3>2. QED
      BY <1>1, <3>1
  <2>3. QED
    BY <1>9, <2>1, <2>2 DEF f, r, sent
<1>10. QED
  BY <1>8, <1>9

\* What a loader stores is the end of its page, and what it goes on with.
LEMMA ReceiveUpTo ==
  ASSUME EInv, HandedOn, ~MemoryFails,
         NEW c \in DOMAIN handlers, NEW n \in Nat \ {0}, NEW stored \in 0..n,
         NEW complete \in BOOLEAN,
         \/ ServerData(c, n, stored, complete)
         \/ ServerDataRefused(c, n, stored, complete)
  PROVE  stored = n /\ UpToServer(handlers', pages', peer')
<1> DEFINE url == handlers[c].url
           old == PageOrNew(pages, url).data
           units == SubSeq(Received(n), 1, stored)
<1>1. RInv /\ IInv /\ Numbered(peer, connects)
  BY DEF EInv, DInv, RInv
<1>2. Receive(c, n, stored, complete)
  BY DEF ServerData, ServerDataRefused
<1>3. handlers[c].type = "LOAD_CASHING" /\ handlers[c].server = Slot
  <2>1. handlers[c].type \in Loading
    BY <1>2 DEF Receive, Receiving
  <2>2. handlers[c].type = "LOAD_CASHING"
    BY <2>1 DEF Loading, EInv, NoneTransient
  <2>3. Owners(Slot) # {} /\ c = Min(Owners(Slot))
    BY <1>2 DEF Receive, Receiving, ServerSlot, FindByServerSocket
  <2>4. Owners(Slot) \in SUBSET Nat
    BY <1>1 DEF Owners, IInv, HandlersFit, Fd
  <2>5. c \in Owners(Slot)
    BY <2>3, <2>4, MinOfNats
  <2>6. QED
    BY <2>2, <2>5 DEF Owners
<1>4. stored = n
  BY <1>2 DEF Receive, Stored
<1>5. /\ old \in Seq(Unit)
      /\ DOMAIN pages' = DOMAIN pages \cup {url}
      /\ pages'[url].data = old \o units
      /\ \A v \in DOMAIN pages' \ {url} :
           v \in DOMAIN pages /\ pages'[v].data = pages[v].data
  <2>1. n \in Nat
    OBVIOUS
  <2>2. GrowsBy(handlers[c].url, SubSeq(Received(n), 1, stored))
    BY <1>1, <1>2, <1>3, <2>1, ReceiveAppends
  <2>3. QED
    BY <2>2 DEF GrowsBy
<1>6. /\ Slot \in DOMAIN peer /\ peer[Slot] \in ServerPeer
      /\ \A t \in DOMAIN peer' : /\ t \in DOMAIN peer /\ peer'[t].conn = peer[t].conn
                                 /\ t = Slot =>
                                      /\ peer'[t].sent = peer[Slot].sent + n
                                      /\ peer'[t].lost = peer[Slot].lost
                                 /\ t # Slot => peer'[t] = peer[t]
  BY <1>1, ReceivePeers
<1>7. /\ units \in Seq(Unit)
      /\ \A p : HeldOf(units, p) = IF p.conn = peer[Slot].conn
                                   THEN (peer[Slot].sent + 1)..(peer[Slot].sent + n)
                                   ELSE {}
  <2>1. units = SubSeq(Received(n), 1, n) /\ n \in Nat /\ n \in 0..n
    BY <1>4
  <2>2. units \in Seq(Unit)
    BY <1>6, <2>1, ReceivedFacts
  <2>3. QED
    BY <1>6, <2>1, <2>2, HeldOfReceived
<1> HIDE DEF url, old, units
<1>8. SUFFICES ASSUME NEW d \in DOMAIN handlers', NEW s \in DOMAIN peer',
                      handlers'[d].server = s, peer'[s].conn # 0,
                      AllLoad(handlers', s, handlers'[d].url)
               PROVE  Reached(pages', handlers'[d].url, peer'[s])
  BY <1>4 DEF UpToServer
<1> DEFINE u == handlers'[d].url
<1>9. ~(peer'[s].conn > connects)
  <2>1. s \in DOMAIN peer /\ peer'[s].conn = peer[s].conn
    BY <1>6
  <2>2. peer[s].conn \in Nat /\ connects \in Nat /\ peer[s].conn <= connects
    BY <1>1, <2>1 DEF IInv, Tables, Peer, Numbered
  <2>3. QED
    BY <2>1, <2>2
<1>10. s \in DOMAIN peer /\ AllLoad(handlers, s, u) /\ Reached(pages, u, peer[s])
  BY <1>8, <1>9, WasOfOnePage DEF EInv
<1>11. \A p : /\ HeldOf(PageOrNew(pages', url).data, p) =
                   HeldOf(PageOrNew(pages, url).data, p) \cup HeldOf(units, p)
             /\ \A v \in DOMAIN pages' \ {url} :
                  v \in DOMAIN pages /\ HeldOf(pages'[v].data, p) = HeldOf(pages[v].data, p)
  <2>1. PageOrNew(pages', url).data = old \o units
    BY <1>5 DEF PageOrNew, IsCached
  <2>2. QED
    BY <1>5, <1>7, <2>1, HeldConcat DEF old
<1>12. CASE s = Slot
  <2>1. u = url
    BY <1>3, <1>10, <1>12 DEF AllLoad, url
  <2> DEFINE p == peer[Slot]
             q == peer'[Slot]
  <2>2. /\ q.conn = p.conn /\ q.sent = p.sent + n /\ q.lost = p.lost
        /\ p.sent \in Nat /\ p.lost \in Nat
    BY <1>6, <1>8, <1>12 DEF ServerPeer
  <2> HIDE DEF p, q
  <2>3. \A data : HeldOf(data, q) = HeldOf(data, p)
    BY <2>2 DEF HeldOf
  <2>4. Reached(pages, url, p)
    BY <1>10, <1>12, <2>1 DEF p
  <2>5. HeldOf(PageOrNew(pages', url).data, q) = (q.lost + 1)..q.sent
    <3>1. HeldOf(PageOrNew(pages', url).data, q) =
            ((p.lost + 1)..p.sent) \cup ((p.sent + 1)..(p.sent + n))
      BY <1>7, <1>11, <2>3, <2>4 DEF Reached, p
    <3>2. p.lost <= p.sent
      BY <2>4 DEF Reached
    <3>3. ((p.lost + 1)..p.sent) \cup ((p.sent + 1)..(p.sent + n)) =
            (p.lost + 1)..(p.sent + n)
      BY <2>2, <3>2
    <3>4. QED
      BY <2>2, <3>1, <3>3
  <2>6. q.lost <= q.sent
    BY <2>2, <2>4 DEF Reached
  <2>7. \A v \in DOMAIN pages' \ {url} : HeldOf(pages'[v].data, q) = {}
    BY <1>11, <2>3, <2>4 DEF Reached
  <2>8. Reached(pages', url, q)
    BY <2>5, <2>6, <2>7 DEF Reached
  <2>9. QED
    BY <1>12, <2>1, <2>8 DEF q
<1>13. CASE s # Slot
  <2> DEFINE p == peer[s]
  <2>1. peer'[s] = p
    BY <1>6, <1>13
  <2>2. peer[s].conn # peer[Slot].conn
    BY <1>1, <1>6, <1>8, <1>10, <1>13, <2>1 DEF Numbered
  <2>3. HeldOf(units, p) = {}
    BY <1>7, <2>2
  <2> HIDE DEF p
  <2>4. HeldOf(PageOrNew(pages', url).data, p) = HeldOf(PageOrNew(pages, url).data, p)
    BY <1>11, <2>3
  <2>5. Reached(pages, u, p)
    BY <1>10 DEF p
  <2>6. CASE u = url
    <3>1. \A v \in DOMAIN pages' \ {url} : HeldOf(pages'[v].data, p) = {}
      BY <1>11, <2>5, <2>6 DEF Reached
    <3>2. QED
      BY <2>1, <2>4, <2>5, <2>6, <3>1 DEF Reached
  <2>7. CASE u # url
    <3>1. HeldOf(PageOrNew(pages, url).data, p) = {}
      <4>1. CASE IsCached(pages, url)
        BY <2>5, <2>7, <4>1 DEF Reached, PageOrNew, IsCached
      <4>2. CASE ~IsCached(pages, url)
        <5>1. PageOrNew(pages, url).data = <<>>
          BY <4>2 DEF PageOrNew, EmptyPage
        <5>2. QED
          BY <5>1 DEF HeldOf
      <4>3. QED
        BY <4>1, <4>2
    <3>2. HeldOf(pages'[url].data, p) = {}
      BY <1>5, <2>4, <3>1 DEF PageOrNew, IsCached
    <3>3. \A v \in DOMAIN pages' \ {u} : HeldOf(pages'[v].data, p) = {}
      BY <1>11, <2>5, <3>2 DEF Reached
    <3>4. PageOrNew(pages', u).data = PageOrNew(pages, u).data
      BY <1>5, <2>7 DEF PageOrNew, IsCached
    <3>5. QED
      BY <2>1, <2>5, <3>3, <3>4 DEF Reached
  <2>8. QED
    BY <2>6, <2>7
<1>14. QED
  BY <1>12, <1>13

LEMMA AcceptedType ==
  ASSUME HandlersFit(handlers), AcceptClient
  PROVE  \A e \in DOMAIN handlers' :
           \/ e \in DOMAIN handlers /\ handlers'[e].type = handlers[e].type
           \/ handlers'[e].type = "STANDBY"
BY AcceptedHandler DEF Welcomes

LEMMA NextEnds ==
  ASSUME EInv, ~MemoryFails, [Next]_vars
  PROVE  /\ NoneTransient(handlers')
         /\ Named(handlers', peer')
         /\ UpToServer(handlers', pages', peer')
<1>1. RInv /\ HandlersFit(handlers) /\ PagesFit(pages) /\ NoneTransient(handlers)
  BY DEF EInv, DInv, RInv, IInv
<1>2. HandedOn
  BY <1>1, NextHandsOn
<1>3. Named(handlers', peer')
  BY <1>2, StaysNamed DEF EInv
\* Steps that store nothing and drop no page.
<1>4. ASSUME DOMAIN pages' = DOMAIN pages,
             \A u \in DOMAIN pages : pages'[u].data = pages[u].data,
             \A s \in DOMAIN peer' : s \in DOMAIN peer => peer'[s] = peer[s],
             \A s \in DOMAIN peer' \ DOMAIN peer : peer'[s].sent = 0 /\ peer'[s].lost = 0
      PROVE  UpToServer(handlers', pages', peer')
  BY <1>2, <1>4, QuietUpTo
<1>5. ASSUME NEW c \in DOMAIN handlers, NEW h, h.type # "LOAD_TRANSIENT",
             handlers' = [handlers EXCEPT ![c] = h]
      PROVE  NoneTransient(handlers')
  BY <1>1, <1>5 DEF NoneTransient, HandlersFit
<1>6. CASE NoAccept \/ PollFails \/ Halted \/ UNCHANGED vars \/ ServerGone \/ Stays
  <2>1. UNCHANGED <<handlers, pages>>
    BY <1>6 DEF NoAccept, PollFails, Die, Halted, vars, ServerGone, Stays
  <2>2. peer' = peer \/ peer' = Erase(peer, {Slot})
    BY <1>6 DEF NoAccept, PollFails, Die, Halted, vars, ServerGone, RemoveServer, Stays
  <2>3. \A s \in DOMAIN peer' : s \in DOMAIN peer /\ peer'[s] = peer[s]
    BY <2>2 DEF Erase, Restrict
  <2>4. QED
    BY <1>1, <1>3, <1>4, <2>1, <2>3
<1>7. CASE AcceptClient
  <2>1. \A e \in DOMAIN handlers' :
          \/ e \in DOMAIN handlers /\ handlers'[e].type = handlers[e].type
          \/ handlers'[e].type = "STANDBY"
    BY <1>1, <1>7, AcceptedType
  <2>2. NoneTransient(handlers')
    BY <1>1, <2>1 DEF NoneTransient
  <2>3. UNCHANGED pages /\ peer' = Put(peer, NewFd, Client) /\ NewFd \notin DOMAIN peer
    BY <1>7, NewFdIsFree DEF AcceptClient
  <2>4. /\ \A s \in DOMAIN peer' : s \in DOMAIN peer => peer'[s] = peer[s]
        /\ \A s \in DOMAIN peer' \ DOMAIN peer : peer'[s].sent = 0 /\ peer'[s].lost = 0
    BY <2>3 DEF Put, Client
  <2>5. QED
    BY <1>3, <1>4, <2>2, <2>3, <2>4
<1>8. ASSUME NEW h \in Handler, Removes(h)
      PROVE  /\ NoneTransient(handlers')
             /\ Named(handlers', peer')
             /\ UpToServer(handlers', pages', peer')
  <2>1. \A e \in DOMAIN handlers' :
          /\ e \in DOMAIN handlers
          /\ handlers'[e] = handlers[e] \/ handlers'[e].type = "HEIR"
    BY <1>1, <1>8, LeftBehind DEF Removes
  <2>2. NoneTransient(handlers')
    BY <1>1, <2>1 DEF NoneTransient
  <2>3. CASE /\ UNCHANGED pages
             /\ \A s \in DOMAIN peer' : s \in DOMAIN peer /\ peer'[s] = peer[s]
    BY <1>3, <1>4, <2>2, <2>3
  <2>4. CASE /\ pages' = DeletePage(pages, h.url)
             /\ IsCached(pages, h.url)
             /\ \A s \in DOMAIN peer' : /\ s \in DOMAIN peer
                                        /\ peer'[s] = Losing(peer[s], h.url)
                                        /\ peer'[s].conn = peer[s].conn
    <3>1. UpToServer(handlers', pages', peer')
      BY <1>2, <2>4, DropUpTo
    <3>2. QED
      BY <1>3, <2>2, <3>1
  <2>5. QED
    BY <1>8, <2>3, <2>4 DEF Removes
<1>9. ASSUME NEW c \in DOMAIN handlers, NEW h \in Handler, Sends(c, h)
      PROVE  /\ NoneTransient(handlers')
             /\ Named(handlers', peer')
             /\ UpToServer(handlers', pages', peer')
  <2> DEFINE g == SendChunkFromCache(pages, h)
  <2>1. PICK chunk \in Seq(Unit) :
          /\ g \in Handler /\ g.url = h.url /\ ~g.respReady
          /\ g.type = h.type \/ (h.type = "HEIR" /\ g.type = "LOAD_CASHING")
          /\ g.handed = h.handed \o chunk
          /\ g.pos = h.pos + Len(chunk) /\ g.pos <= Len(pages[h.url].data)
          /\ g.since = h.since
          /\ \A i \in 1..Len(chunk) : chunk[i] = pages[h.url].data[h.pos + i]
          /\ g.respSent => h.respSent \/ IsFullyLoaded(pages, h.url)
    BY <1>1, <1>9, ServedChunk DEF Sends
  <2>2. /\ handlers' = [handlers EXCEPT ![c] = g]
        /\ UNCHANGED <<pages, peer>> /\ h.type \in {"CASH", "HEIR"}
    BY <1>9 DEF Sends
  <2> HIDE DEF g
  <2>3. g.type # "LOAD_TRANSIENT"
    BY <2>1, <2>2
  <2>4. QED
    BY <1>3, <1>4, <1>5, <2>2, <2>3
<1>10. ASSUME NEW u \in Urls, RequestFromServer(u)
       PROVE  /\ NoneTransient(handlers')
              /\ Named(handlers', peer')
              /\ UpToServer(handlers', pages', peer')
  <2>1. /\ Slot \in DOMAIN handlers
        /\ \E h : /\ handlers' = [handlers EXCEPT ![Slot] = h]
                  /\ h.type = "LOAD_CASHING" /\ ~h.respReady
                  /\ h.handed = handlers[Slot].handed
                  /\ h.server = NewFd
        /\ handlers[Slot].server = NoSocket
    BY <1>1, <1>10, ConnectsHandler
  <2>2. PICK h : handlers' = [handlers EXCEPT ![Slot] = h] /\ h.type = "LOAD_CASHING"
    BY <2>1
  <2>3. h.type # "LOAD_TRANSIENT"
    BY <2>2
  <2>4. /\ UNCHANGED pages /\ peer' = Put(peer, NewFd, Server(u, connects + 1))
        /\ NewFd \notin DOMAIN peer
    BY <1>10, NewFdIsFree DEF RequestFromServer
  <2>5. /\ \A s \in DOMAIN peer' : s \in DOMAIN peer => peer'[s] = peer[s]
        /\ \A s \in DOMAIN peer' \ DOMAIN peer : peer'[s].sent = 0 /\ peer'[s].lost = 0
    BY <2>4 DEF Put, Server
  <2>6. QED
    BY <1>3, <1>4, <1>5, <2>1, <2>2, <2>3, <2>4, <2>5
<1>11. ASSUME NEW c \in DOMAIN handlers, ServerEof(c) \/ HeirChunkLost(c)
       PROVE  /\ NoneTransient(handlers')
              /\ Named(handlers', peer')
              /\ UpToServer(handlers', pages', peer')
  <2>1. PICK h : /\ handlers' = [handlers EXCEPT ![c] = h]
                 /\ h.type = handlers[c].type \/ h.type = "HEIR"
    BY <1>1, <1>11, EofHandler, LostHandler
  <2>2. h.type # "LOAD_TRANSIENT"
    BY <1>1, <2>1 DEF NoneTransient
  <2>3. /\ DOMAIN pages' = DOMAIN pages
        /\ \A u \in DOMAIN pages : pages'[u].data = pages[u].data
    BY <1>1, <1>11, SetFullyLoadedFacts DEF ServerEof, HeirChunkLost
  <2>4. peer' = Erase(peer, {Slot})
    BY <1>11 DEF ServerEof, HeirChunkLost, RemoveServer
  <2>5. \A s \in DOMAIN peer' : s \in DOMAIN peer /\ peer'[s] = peer[s]
    BY <2>4 DEF Erase, Restrict
  <2>6. QED
    BY <1>3, <1>4, <1>5, <2>1, <2>2, <2>3, <2>5
<1>12. ASSUME NEW c \in DOMAIN handlers, NEW n \in Nat \ {0}, NEW stored \in 0..n,
              NEW complete \in BOOLEAN,
              \/ ServerData(c, n, stored, complete)
              \/ ServerDataRefused(c, n, stored, complete)
       PROVE  /\ NoneTransient(handlers')
              /\ Named(handlers', peer')
              /\ UpToServer(handlers', pages', peer')
  <2>1. stored = n /\ UpToServer(handlers', pages', peer')
    BY <1>2, <1>12, ReceiveUpTo
  <2>2. PICK h \in Handler :
          /\ handlers' = [handlers EXCEPT ![c] = h]
          /\ h.type \in Loading /\ h.url = handlers[c].url
          /\ h.type = "LOAD_CASHING" => handlers[c].type = "LOAD_CASHING"
          /\ h.respReady = complete
          /\ Passes(handlers[c], h, n, stored)
    BY <1>1, <1>12, ReceiveHandler
  <2>3. h.type # "LOAD_TRANSIENT"
    BY <1>1, <2>1, <2>2 DEF Passes, NoneTransient
  <2>4. QED
    BY <1>3, <1>5, <2>1, <2>2, <2>3
<1>13. CASE ClientNext
  <2>1. \/ Stays
        \/ \E h \in Handler : Removes(h)
        \/ \E c \in DOMAIN handlers, h \in Handler : Sends(c, h)
        \/ \E u \in Urls : RequestFromServer(u)
    BY <1>1, <1>13, ClientSteps
  <2>2. QED
    BY <1>6, <1>8, <1>9, <1>10, <2>1
<1>14. CASE ServerNext
  <2>1. \/ Stays
        \/ ServerGone
        \/ \E c \in DOMAIN handlers, h \in Handler : Sends(c, h)
        \/ \E c \in DOMAIN handlers : ServerEof(c) \/ HeirChunkLost(c)
        \/ \E c \in DOMAIN handlers, n \in Nat \ {0} : \E stored \in 0..n, complete \in BOOLEAN :
             \/ ServerData(c, n, stored, complete)
             \/ ServerDataRefused(c, n, stored, complete)
    BY <1>1, <1>14, ServerSteps
  <2>2. QED
    BY <1>6, <1>9, <1>11, <1>12, <2>1
<1>15. QED
  BY <1>6, <1>7, <1>13, <1>14 DEF Next, ListenerNext

LEMMA EndsInvariance ==
  ASSUME ~MemoryFails
  PROVE  Spec => []EInv
<1>1. Init => EInv
  <2>1. SUFFICES ASSUME Init PROVE EInv
    OBVIOUS
  <2>2. IInv
    BY <2>1, InitIInv
  <2>3. DOMAIN handlers = {} /\ DOMAIN pages = {} /\ DOMAIN peer = {}
    BY <2>1 DEF Init
  <2>4. DInv
    BY <2>2, <2>3 DEF DInv, RInv, Reads, Numbered, Delivers
  <2>5. QED
    BY <2>3, <2>4 DEF EInv, NoneTransient, Named, UpToServer
<1>2. EInv /\ DInv' /\ [Next]_vars => EInv'
  BY NextEnds DEF EInv
<1>3. QED
  BY <1>1, <1>2, DeliveryInvariance, PTL DEF Spec

\* While memory suffices, a page holds all that was received on every
\* connection that only handlers of its url name, but for what went with an
\* earlier page of that url: an heir that has read the page to its end goes
\* on with the next byte of the response, and has left out nothing but what
\* was dropped with a page (sendChunkFromCache, becomeMaster, appendCache,
\* ~SocketHandler).
THEOREM HandoverIsSeamless ==
  ASSUME ~MemoryFails
  PROVE  Spec => []PageEndsWhereServerIs
<1>1. EInv => PageEndsWhereServerIs
  <2>1. SUFFICES ASSUME EInv, NEW s \in DOMAIN sockets, sockets[s] = "SERVER", OneUrl(s)
                 PROVE  LET h == handlers[FindByServerSocket(s)]
                        IN  Kept(peer[s].conn, h.url) = (peer[s].lost + 1)..peer[s].sent
    BY DEF PageEndsWhereServerIs
  <2> DEFINE c == FindByServerSocket(s)
             url == handlers[c].url
             p == peer[s]
  <2>2. IInv
    BY <2>1 DEF EInv, DInv, RInv
  <2>3. c \in DOMAIN handlers /\ handlers[c].server = s
    <3>1. Owners(s) \in SUBSET Nat /\ Owners(s) # {}
      BY <2>1, <2>2 DEF IInv, Owners, HandlersFit, Fd, Served
    <3>2. c \in Owners(s)
      BY <3>1, MinOfNats DEF FindByServerSocket
    <3>3. QED
      BY <3>2 DEF Owners
  <2>4. s \in DOMAIN peer /\ p \in ServerPeer
    BY <2>1, <2>2 DEF IInv, Tables
  <2>5. AllLoad(handlers, s, url)
    BY <2>1, <2>3 DEF AllLoad, OneUrl, Owners
  <2>6. Reached(pages, url, p)
    BY <2>1, <2>3, <2>4, <2>5 DEF EInv, UpToServer, ServerPeer
  <2> HIDE DEF c, p, url
  <2>7. Kept(p.conn, url) = HeldOf(PageOrNew(pages, url).data, p)
    <3>1. CASE IsCached(pages, url)
      BY <3>1 DEF Kept, UnitsOf, HeldOf, PageOrNew
    <3>2. CASE ~IsCached(pages, url)
      <4>1. PageOrNew(pages, url).data = <<>>
        BY <3>2 DEF PageOrNew, EmptyPage
      <4>2. QED
        BY <3>2, <4>1 DEF Kept, HeldOf
    <3>3. QED
      BY <3>1, <3>2
  <2>8. QED
    BY <2>6, <2>7 DEF Reached, c, p, url
<1>2. QED
  BY <1>1, EndsInvariance, PTL
=============================================================================
