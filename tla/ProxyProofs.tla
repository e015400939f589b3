----------------------------- MODULE ProxyProofs -----------------------------
(***************************************************************************)
(* Invariants of Proxy, proved for every number of descriptors, clients,   *)
(* urls and units and every chunk size.                                    *)
(***************************************************************************)
EXTENDS Proxy, SequenceTheorems, WellFoundedInduction, TLAPS

-----------------------------------------------------------------------------
(* Descriptors: the kernel's choice and the order of std::map keys.        *)

\* The lowest element of a non-empty set of naturals is one of its elements.
LEMMA MinOfNats ==
  ASSUME NEW S \in SUBSET Nat, S # {}
  PROVE  Min(S) \in S /\ \A y \in S : Min(S) <= y
<1>1. PICK x \in S : \A y \in S : ~(<<y, x>> \in OpToRel(<, Nat))
  BY NatLessThanWellFounded, WFMin
<1>2. \A y \in S : x <= y
  <2>1. SUFFICES ASSUME NEW y \in S, ~(x <= y) PROVE FALSE
    OBVIOUS
  <2>2. y \in Nat /\ x \in Nat /\ y < x
    BY <2>1
  <2>3. <<y, x>> \in OpToRel(<, Nat)
    BY <2>2 DEF OpToRel
  <2>4. QED
    BY <1>1, <2>3
<1>3. QED
  BY <1>2 DEF Min

\* The highest element of a non-empty bounded set of naturals is one of them.
LEMMA MaxOfNats ==
  ASSUME NEW n \in Nat, NEW S \in SUBSET (0..n), S # {}
  PROVE  Max(S) \in S /\ \A y \in S : Max(S) >= y
<1> DEFINE D == {n - x : x \in S}
<1>1. D \in SUBSET Nat /\ D # {}
  <2>1. \A x \in S : n - x \in Nat
    OBVIOUS
  <2>2. PICK x \in S : TRUE
    OBVIOUS
  <2>3. n - x \in D
    BY <2>2
  <2>4. QED
    BY <2>1, <2>3
<1>2. Min(D) \in D /\ \A y \in D : Min(D) <= y
  BY <1>1, MinOfNats
<1>3. PICK x \in S : n - x = Min(D)
  BY <1>2
<1>4. ASSUME NEW y \in S PROVE x >= y
  <2>1. n - y \in D
    OBVIOUS
  <2>2. n - x <= n - y
    BY <1>2, <1>3, <2>1
  <2>3. QED
    BY <2>2
<1>5. QED
  BY <1>4 DEF Max

LEMMA RemoveAtProperties ==
  ASSUME NEW T, NEW s \in Seq(T), NEW i \in 1..Len(s)
  PROVE  /\ RemoveAt(s, i) \in Seq(T)
         /\ Len(RemoveAt(s, i)) = Len(s) - 1
         /\ \A j \in 1..(Len(s) - 1) :
              RemoveAt(s, i)[j] = IF j < i THEN s[j] ELSE s[j + 1]
<1> DEFINE a == SubSeq(s, 1, i - 1)
           b == SubSeq(s, i + 1, Len(s))
<1>1. /\ a \in Seq(T)
      /\ Len(a) = i - 1
      /\ \A j \in 1..(i - 1) : a[j] = s[j]
  <2>1. Len(s) \in Nat /\ \A j \in 1..(i - 1) : s[j] \in T
    BY LenProperties, ElementOfSeq
  <2>2. 1 \in Int /\ i - 1 \in Int
    BY <2>1
  <2>3. QED
    BY <2>1, <2>2, SubSeqProperties
<1>2. /\ b \in Seq(T)
      /\ Len(b) = Len(s) - i
      /\ \A j \in 1..(Len(s) - i) : b[j] = s[i + j]
  <2>1. Len(s) \in Nat /\ \A j \in (i + 1)..Len(s) : s[j] \in T
    BY LenProperties, ElementOfSeq
  <2>2. i + 1 \in Int /\ Len(s) \in Int
    BY <2>1
  <2>3. QED
    BY <2>1, <2>2, SubSeqProperties
<1>3. /\ a \o b \in Seq(T)
      /\ Len(a \o b) = Len(a) + Len(b)
      /\ \A j \in 1..(Len(a) + Len(b)) :
           (a \o b)[j] = IF j <= Len(a) THEN a[j] ELSE b[j - Len(a)]
  BY <1>1, <1>2, ConcatProperties
<1>4. Len(s) \in Nat
  BY LenProperties
<1>5. RemoveAt(s, i) = a \o b
  BY DEF RemoveAt
<1> HIDE DEF a, b
<1>6. Len(a) + Len(b) = Len(s) - 1
  BY <1>1, <1>2, <1>4
<1>7. ASSUME NEW j \in 1..(Len(s) - 1)
      PROVE  (a \o b)[j] = IF j < i THEN s[j] ELSE s[j + 1]
  <2>1. CASE j < i
    <3>1. (a \o b)[j] = a[j]
      BY <1>1, <1>3, <1>4, <1>6, <2>1
    <3>2. QED
      BY <1>1, <2>1, <3>1
  <2>2. CASE ~(j < i)
    <3>1. /\ (a \o b)[j] = b[j - (i - 1)]
          /\ j - (i - 1) \in 1..(Len(s) - i)
      BY <1>1, <1>3, <1>4, <1>6, <2>2
    <3>2. b[j - (i - 1)] = s[i + (j - (i - 1))]
      BY <1>2, <3>1
    <3>3. i + (j - (i - 1)) = j + 1
      BY <1>4
    <3>4. QED
      BY <2>2, <3>1, <3>2, <3>3
  <2>3. QED
    BY <2>1, <2>2
<1>8. QED
  BY <1>3, <1>5, <1>6, <1>7

\* The search loop of removeServer and removeClient stops at the first match.
LEMMA RemoveFirstIsRemoveAt ==
  ASSUME NEW T, NEW s \in Seq(T), NEW e, e \in Range(s)
  PROVE  \E i \in 1..Len(s) : s[i] = e /\ RemoveFirst(s, e) = RemoveAt(s, i)
<1> DEFINE I == {i \in 1..Len(s) : s[i] = e}
<1>1. Len(s) \in Nat /\ DOMAIN s = 1..Len(s)
  BY LenProperties
<1>2. I \in SUBSET Nat /\ I # {}
  BY <1>1 DEF Range
<1>3. Min(I) \in I
  BY <1>2, MinOfNats
<1>4. SelectInSeq(s, LAMBDA v : v = e) = Min(I)
  BY <1>2 DEF SelectInSeq
<1>5. RemoveFirst(s, e) = RemoveAt(s, Min(I))
  BY <1>2, <1>4 DEF RemoveFirst
<1>6. QED
  BY <1>3, <1>5

LEMMA RemoveFirstAbsent ==
  ASSUME NEW T, NEW s \in Seq(T), NEW e, e \notin Range(s)
  PROVE  RemoveFirst(s, e) = s
<1>1. DOMAIN s = 1..Len(s)
  BY LenProperties
<1>2. QED
  BY <1>1 DEF RemoveFirst, Range

LEMMA RemoveFirstType ==
  ASSUME NEW T, NEW s \in Seq(T), NEW e
  PROVE  RemoveFirst(s, e) \in Seq(T)
BY RemoveFirstIsRemoveAt, RemoveFirstAbsent, RemoveAtProperties

\* Without duplicates, exactly the element searched for is gone, and a first
\* element that is another one stays first.
LEMMA RemoveAtElements ==
  ASSUME NEW T, NEW s \in Seq(T), IsInjective(s), NEW i \in 1..Len(s)
  PROVE  /\ Range(RemoveAt(s, i)) = Range(s) \ {s[i]}
         /\ IsInjective(RemoveAt(s, i))
         /\ i # 1 => Len(RemoveAt(s, i)) >= 1 /\ RemoveAt(s, i)[1] = s[1]
<1> DEFINE r == RemoveAt(s, i)
<1>1. Len(s) \in Nat /\ DOMAIN s = 1..Len(s)
  BY LenProperties
<1>2. /\ r \in Seq(T)
      /\ Len(r) = Len(s) - 1
      /\ \A j \in 1..(Len(s) - 1) : r[j] = IF j < i THEN s[j] ELSE s[j + 1]
  BY RemoveAtProperties
<1>3. DOMAIN r = 1..(Len(s) - 1)
  BY <1>2, LenProperties
<1> HIDE DEF r
<1>4. Range(r) \subseteq Range(s) \ {s[i]}
  <2>1. SUFFICES ASSUME NEW j \in 1..(Len(s) - 1)
                 PROVE  r[j] \in Range(s) \ {s[i]}
    BY <1>3 DEF Range
  <2>2. PICK k \in 1..Len(s) : k # i /\ r[j] = s[k]
    BY <1>1, <1>2
  <2>3. QED
    BY <1>1, <2>2 DEF Range, IsInjective
<1>5. Range(s) \ {s[i]} \subseteq Range(r)
  <2>1. SUFFICES ASSUME NEW k \in 1..Len(s), k # i
                 PROVE  s[k] \in Range(r)
    BY <1>1 DEF Range
  <2>2. PICK j \in 1..(Len(s) - 1) : r[j] = s[k]
    <3>1. CASE k < i
      <4>1. k \in 1..(Len(s) - 1) /\ r[k] = s[k]
        BY <1>1, <1>2, <3>1
      <4>2. QED
        BY <4>1
    <3>2. CASE k > i
      <4>1. k - 1 \in 1..(Len(s) - 1) /\ ~(k - 1 < i) /\ (k - 1) + 1 = k
        BY <1>1, <3>2
      <4>2. r[k - 1] = s[k]
        BY <1>2, <4>1
      <4>3. QED
        BY <4>1, <4>2
    <3>3. QED
      BY <1>1, <2>1, <3>1, <3>2
  <2>3. QED
    BY <1>3, <2>2 DEF Range
<1>6. IsInjective(r)
  <2>1. SUFFICES ASSUME NEW j \in 1..(Len(s) - 1), NEW k \in 1..(Len(s) - 1),
                        r[j] = r[k]
                 PROVE  j = k
    BY <1>3 DEF IsInjective
  <2> DEFINE up(x) == IF x < i THEN x ELSE x + 1
  <2>2. up(j) \in 1..Len(s) /\ up(k) \in 1..Len(s)
    BY <1>1
  <2>3. r[j] = s[up(j)] /\ r[k] = s[up(k)]
    BY <1>2
  <2>4. up(j) = up(k)
    BY <1>1, <2>1, <2>2, <2>3 DEF IsInjective
  <2>5. QED
    BY <2>4, <1>1
<1>7. ASSUME i # 1 PROVE Len(r) >= 1 /\ r[1] = s[1]
  BY <1>1, <1>2, <1>7
<1>8. QED
  BY <1>4, <1>5, <1>6, <1>7 DEF r

LEMMA RemoveFirstElements ==
  ASSUME NEW T, NEW s \in Seq(T), IsInjective(s), NEW e
  PROVE  /\ Range(RemoveFirst(s, e)) = Range(s) \ {e}
         /\ IsInjective(RemoveFirst(s, e))
         /\ Len(s) >= 1 /\ s[1] # e =>
              Len(RemoveFirst(s, e)) >= 1 /\ RemoveFirst(s, e)[1] = s[1]
<1>1. CASE e \in Range(s)
  <2>1. PICK i \in 1..Len(s) : s[i] = e /\ RemoveFirst(s, e) = RemoveAt(s, i)
    BY <1>1, RemoveFirstIsRemoveAt
  <2>2. QED
    BY <2>1, RemoveAtElements
<1>2. CASE e \notin Range(s)
  <2>1. RemoveFirst(s, e) = s
    BY <1>2, RemoveFirstAbsent
  <2>2. QED
    BY <1>2, <2>1
<1>3. QED
  BY <1>1, <1>2

\* push_back of a new descriptor.
LEMMA AppendElements ==
  ASSUME NEW T, NEW s \in Seq(T), IsInjective(s), NEW e \in T, e \notin Range(s)
  PROVE  /\ Range(Append(s, e)) = Range(s) \cup {e}
         /\ IsInjective(Append(s, e))
<1>1. /\ Append(s, e) \in Seq(T)
      /\ Len(Append(s, e)) = Len(s) + 1
      /\ \A i \in 1..Len(s) : Append(s, e)[i] = s[i]
      /\ Append(s, e)[Len(s) + 1] = e
  BY AppendProperties
<1>2. /\ Len(s) \in Nat
      /\ DOMAIN s = 1..Len(s)
      /\ DOMAIN Append(s, e) = 1..(Len(s) + 1)
  BY <1>1, LenProperties
<1>3. Range(Append(s, e)) = Range(s) \cup {e}
  BY <1>1, <1>2 DEF Range
<1>4. \A i \in 1..Len(s) : s[i] # e
  BY <1>2 DEF Range
<1>5. IsInjective(Append(s, e))
  BY <1>1, <1>2, <1>4 DEF IsInjective
<1>6. QED
  BY <1>3, <1>5

-----------------------------------------------------------------------------
(* The inductive invariant, by the piece of state each part speaks of.     *)

Tables(fds, socks, prs) ==
  /\ fds \in Seq({Listener} \cup Fd)
  /\ IsInjective(fds)
  /\ Len(fds) >= 1 /\ fds[1] = Listener
  /\ Range(fds) = DOMAIN socks
  /\ DOMAIN socks = DOMAIN prs \cup {Listener}
  /\ DOMAIN prs \subseteq Fd
  /\ socks \in [DOMAIN socks -> {"ACCEPTING", "CLIENT", "SERVER"}]
  /\ prs \in [DOMAIN prs -> Peer]
  /\ \A fd \in DOMAIN socks :
       /\ socks[fd] = "ACCEPTING" <=> fd = Listener
       /\ socks[fd] = "SERVER" => prs[fd] \in ServerPeer

HandlersFit(hs) ==
  /\ DOMAIN hs \subseteq Fd
  /\ hs \in [DOMAIN hs -> Handler]
  /\ \A c \in DOMAIN hs : RoleFits(hs[c])

\* Every client socket has a handler, every server socket an owner.
Served(socks, hs) ==
  \A fd \in DOMAIN socks :
    /\ socks[fd] = "CLIENT" => fd \in DOMAIN hs
    /\ socks[fd] = "SERVER" => \E c \in DOMAIN hs : hs[c].server = fd

PagesFit(pg) == DOMAIN pg \subseteq Urls /\ pg \in [DOMAIN pg -> Page]

IInv ==
  /\ Tables(pollFds, sockets, peer)
  /\ HandlersFit(handlers)
  /\ Served(sockets, handlers)
  /\ PagesFit(pages)
  /\ cursor \in 1..Len(pollFds)
  /\ status \in {"running", "stopped", "segfault", "terminated"}
  /\ accepted \in 0..MaxClients
  /\ connects \in Nat

-----------------------------------------------------------------------------
(* The tables.                                                             *)

LEMMA TablesRemove ==
  ASSUME NEW fds, NEW socks, NEW prs, Tables(fds, socks, prs), NEW fd, fd # Listener
  PROVE  Tables(RemoveFirst(fds, fd), Erase(socks, {fd}), Erase(prs, {fd}))
<1>1. /\ RemoveFirst(fds, fd) \in Seq({Listener} \cup Fd)
      /\ Range(RemoveFirst(fds, fd)) = Range(fds) \ {fd}
      /\ IsInjective(RemoveFirst(fds, fd))
      /\ Len(RemoveFirst(fds, fd)) >= 1 /\ RemoveFirst(fds, fd)[1] = Listener
  BY RemoveFirstType, RemoveFirstElements DEF Tables
<1>2. /\ DOMAIN Erase(socks, {fd}) = DOMAIN socks \ {fd}
      /\ Erase(socks, {fd}) \in [DOMAIN socks \ {fd} -> {"ACCEPTING", "CLIENT", "SERVER"}]
      /\ \A x \in DOMAIN socks \ {fd} : Erase(socks, {fd})[x] = socks[x]
  BY DEF Tables, Erase, Restrict
<1>3. /\ DOMAIN Erase(prs, {fd}) = DOMAIN prs \ {fd}
      /\ Erase(prs, {fd}) \in [DOMAIN prs \ {fd} -> Peer]
      /\ \A x \in DOMAIN prs \ {fd} : Erase(prs, {fd})[x] = prs[x]
  BY DEF Tables, Erase, Restrict
<1>4. \A x \in DOMAIN socks \ {fd} :
        /\ Erase(socks, {fd})[x] = "ACCEPTING" <=> x = Listener
        /\ Erase(socks, {fd})[x] = "SERVER" => Erase(prs, {fd})[x] \in ServerPeer
  <2>1. SUFFICES ASSUME NEW x \in DOMAIN socks \ {fd}
                 PROVE  /\ Erase(socks, {fd})[x] = "ACCEPTING" <=> x = Listener
                        /\ Erase(socks, {fd})[x] = "SERVER" =>
                             Erase(prs, {fd})[x] \in ServerPeer
    OBVIOUS
  <2>2. Erase(socks, {fd})[x] = "ACCEPTING" <=> x = Listener
    BY <1>2 DEF Tables
  <2>3. ASSUME Erase(socks, {fd})[x] = "SERVER"
        PROVE  Erase(prs, {fd})[x] \in ServerPeer
    <3>1. socks[x] = "SERVER" /\ x # Listener
      BY <1>2, <2>3 DEF Tables
    <3>2. x \in DOMAIN prs \ {fd}
      BY <3>1 DEF Tables
    <3>3. QED
      BY <1>3, <3>1, <3>2 DEF Tables
  <2>4. QED
    BY <2>2, <2>3
<1>5. QED
  BY <1>1, <1>2, <1>3, <1>4 DEF Tables

LEMMA TablesAdd ==
  ASSUME NEW fds, NEW socks, NEW prs, Tables(fds, socks, prs),
         NEW fd \in Fd, fd \notin DOMAIN prs,
         NEW type \in {"CLIENT", "SERVER"},
         NEW p \in Peer, type = "SERVER" => p \in ServerPeer
  PROVE  Tables(Append(fds, fd), Insert(socks, fd, type), Put(prs, fd, p))
<1>1. fd # Listener /\ fd \notin Range(fds) /\ fd \notin DOMAIN socks
  BY BoundsAssumption DEF Tables, Fd, Listener
<1>2. /\ Append(fds, fd) \in Seq({Listener} \cup Fd)
      /\ Len(Append(fds, fd)) = Len(fds) + 1
      /\ Append(fds, fd)[1] = fds[1]
  <2>1. /\ Append(fds, fd) \in Seq({Listener} \cup Fd)
        /\ Len(Append(fds, fd)) = Len(fds) + 1
        /\ \A i \in 1..Len(fds) : Append(fds, fd)[i] = fds[i]
    BY AppendProperties DEF Tables
  <2>2. Len(fds) \in Nat /\ Len(fds) >= 1
    BY LenProperties DEF Tables
  <2>3. QED
    BY <2>1, <2>2
<1>3. /\ Range(Append(fds, fd)) = Range(fds) \cup {fd}
      /\ IsInjective(Append(fds, fd))
  <2>1. fds \in Seq({Listener} \cup Fd) /\ IsInjective(fds) /\ fd \in {Listener} \cup Fd
    BY DEF Tables
  <2>2. QED
    BY <1>1, <2>1, AppendElements
<1>4. /\ DOMAIN Insert(socks, fd, type) = DOMAIN socks \cup {fd}
      /\ Insert(socks, fd, type) \in
           [DOMAIN socks \cup {fd} -> {"ACCEPTING", "CLIENT", "SERVER"}]
      /\ \A x \in DOMAIN socks : Insert(socks, fd, type)[x] = socks[x]
      /\ Insert(socks, fd, type)[fd] = type
  <2>1. /\ socks \in [DOMAIN socks -> {"ACCEPTING", "CLIENT", "SERVER"}]
        /\ type \in {"ACCEPTING", "CLIENT", "SERVER"}
    BY DEF Tables
  <2>2. QED
    BY <1>1, <2>1 DEF Insert, Put
<1>5. /\ DOMAIN Put(prs, fd, p) = DOMAIN prs \cup {fd}
      /\ Put(prs, fd, p) \in [DOMAIN prs \cup {fd} -> Peer]
      /\ Put(prs, fd, p)[fd] = p
      /\ \A x \in DOMAIN prs : x # fd => Put(prs, fd, p)[x] = prs[x]
  BY DEF Tables, Put
<1>6. ASSUME NEW x \in DOMAIN socks \cup {fd}
      PROVE  /\ Insert(socks, fd, type)[x] = "ACCEPTING" <=> x = Listener
             /\ Insert(socks, fd, type)[x] = "SERVER" =>
                  Put(prs, fd, p)[x] \in ServerPeer
  <2>1. CASE x = fd
    BY <1>1, <1>4, <1>5, <2>1
  <2>2. CASE x # fd
    <3>1. x \in DOMAIN socks /\ Insert(socks, fd, type)[x] = socks[x]
      BY <1>4, <2>2
    <3>2. ASSUME x # Listener PROVE Put(prs, fd, p)[x] = prs[x]
      BY <1>5, <2>2, <3>1, <3>2 DEF Tables
    <3>3. QED
      BY <3>1, <3>2 DEF Tables
  <2>3. QED
    BY <2>1, <2>2
<1>7. Len(Append(fds, fd)) >= 1
  <2>1. Len(fds) \in Nat
    BY LenProperties DEF Tables
  <2>2. QED
    BY <1>2, <2>1
<1>8. QED
  BY <1>2, <1>3, <1>4, <1>5, <1>6, <1>7 DEF Tables

-----------------------------------------------------------------------------
(* Handlers and pages.                                                     *)

\* A chunk of a page is a sequence of units, empty or not.
LEMMA ChunkType ==
  ASSUME NEW pg, PagesFit(pg), NEW url, NEW pos \in Nat, CanAcquire(pg, url, pos)
  PROVE  AcquireChunk(pg, url, pos) \in Seq(Unit)
<1> DEFINE data == pg[url].data
           end == Min({Len(data), pos + ChunkSize})
<1>1. data \in Seq(Unit)
  BY DEF PagesFit, CanAcquire, IsCached, Page
<1>2. Len(data) \in Nat /\ \A i \in 1..Len(data) : data[i] \in Unit
  BY <1>1, LenProperties, ElementOfSeq
<1>3. end \in Nat /\ end <= Len(data)
  <2>1. {Len(data), pos + ChunkSize} \in SUBSET Nat
    BY <1>2, ChunkSizeAssumption
  <2> HIDE DEF data
  <2>2. QED
    BY <2>1, MinOfNats
<1> HIDE DEF data, end
<1>4. /\ pos + 1 \in Int /\ end \in Int
      /\ \A i \in (pos + 1)..end : data[i] \in Unit
  BY <1>2, <1>3
<1>5. SubSeq(data, pos + 1, end) \in Seq(Unit)
  BY <1>4, SubSeqProperties
<1>6. QED
  BY <1>5 DEF AcquireChunk, data, end

LEMMA NewHandlerFits == NewHandler \in Handler /\ RoleFits(NewHandler)
<1>1. <<>> \in Seq(Unit)
  BY EmptySeq
<1>2. QED
  BY <1>1 DEF NewHandler, Handler, HandlerType, RoleFits, NoSocket

\* A handler that is left behind fits its next client as it did the last.
LEMMA ForNewClientFits ==
  ASSUME NEW h \in Handler, RoleFits(h)
  PROVE  /\ ForNewClient(h) \in Handler /\ RoleFits(ForNewClient(h))
         /\ ForNewClient(h).server = h.server
<1>1. <<>> \in Seq(Unit)
  BY EmptySeq
<1>2. QED
  BY <1>1 DEF ForNewClient, Handler, RoleFits

\* sendResponseChunk changes no flag that a role depends on.
LEMMA SendResponseChunkFits ==
  ASSUME NEW h \in Handler, NEW units \in Seq(Unit)
  PROVE  /\ SendResponseChunk(h, units) \in Handler
         /\ SendResponseChunk(h, units).server = h.server
         /\ SendResponseChunk(h, units).type = h.type
         /\ h.type # "STANDBY" /\ RoleFits(h) => RoleFits(SendResponseChunk(h, units))
<1>1. h.handed \o units \in Seq(Unit)
  BY ConcatProperties DEF Handler
<1>2. QED
  BY <1>1 DEF SendResponseChunk, Handler, RoleFits, HandlerType

\* sendChunkFromCache turns a reader into a reader, and an heir into an heir
\* or the master of its server.
LEMMA SendChunkFromCacheFits ==
  ASSUME NEW pg, PagesFit(pg), NEW h \in Handler, RoleFits(h),
         h.type \in {"CASH", "HEIR"}, CanAcquire(pg, h.url, h.pos)
  PROVE  /\ SendChunkFromCache(pg, h) \in Handler
         /\ SendChunkFromCache(pg, h).server = h.server
         /\ RoleFits(SendChunkFromCache(pg, h))
<1> DEFINE chunk == AcquireChunk(pg, h.url, h.pos)
           g == [h EXCEPT !.pos = @ + Len(chunk)]
<1>1. chunk \in Seq(Unit)
  BY ChunkType DEF Handler
<1>2. CASE chunk = <<>>
  <2>1. SendChunkFromCache(pg, h) = AtPageEnd(pg, h)
    BY <1>2 DEF SendChunkFromCache
  <2>2. IsFullyLoaded(pg, h.url) \in BOOLEAN
    BY DEF IsFullyLoaded, IsCached, PagesFit, Page
  <2>3. \/ AtPageEnd(pg, h) = [h EXCEPT !.respSent = TRUE]
        \/ h.type = "HEIR" /\ AtPageEnd(pg, h) = BecomeMaster(h)
        \/ AtPageEnd(pg, h) = h
    BY <2>2 DEF AtPageEnd
  <2>4. CASE AtPageEnd(pg, h) = [h EXCEPT !.respSent = TRUE]
    BY <2>1, <2>4 DEF Handler, RoleFits
  <2>5. CASE h.type = "HEIR" /\ AtPageEnd(pg, h) = BecomeMaster(h)
    <3>1. h.reqReady = TRUE /\ h.reqSent = TRUE
      BY <2>5 DEF Handler, RoleFits
    <3>2. [h EXCEPT !.reqReady = TRUE] = h
      BY <3>1 DEF Handler
    <3>3. BecomeMaster(h) = [h EXCEPT !.type = "LOAD_CASHING"]
      BY <3>1, <3>2 DEF BecomeMaster, Handler
    <3>4. h.server # NoSocket /\ h.url # NoUrl
      BY <2>5 DEF RoleFits
    <3>5. QED
      BY <2>1, <2>5, <3>1, <3>3, <3>4 DEF Handler, HandlerType, RoleFits
  <2>6. CASE AtPageEnd(pg, h) = h
    BY <2>1, <2>6
  <2>7. QED
    BY <2>3, <2>4, <2>5, <2>6
<1>3. CASE chunk # <<>>
  <2>1. SendChunkFromCache(pg, h) = SendResponseChunk(g, chunk)
    BY <1>3 DEF SendChunkFromCache
  <2>2. Len(chunk) \in Nat
    BY <1>1, LenProperties
  <2>3. g \in Handler /\ g.server = h.server /\ g.type = h.type /\ RoleFits(g)
    BY <2>2 DEF Handler, RoleFits
  <2> HIDE DEF g, chunk
  <2>4. QED
    BY <1>1, <2>1, <2>3, SendResponseChunkFits
<1>4. QED
  BY <1>2, <1>3

\* appendCache and setFullyLoaded keep pages well formed.
LEMMA AppendCacheFits ==
  ASSUME NEW pg, PagesFit(pg), NEW url \in Urls, NEW units \in Seq(Unit)
  PROVE  PagesFit(AppendCache(pg, url, units))
<1>1. PageOrNew(pg, url) \in Page
  BY EmptySeq DEF PageOrNew, IsCached, PagesFit, EmptyPage, Page
<1>2. [PageOrNew(pg, url) EXCEPT !.data = @ \o units] \in Page
  <2>1. PageOrNew(pg, url).data \o units \in Seq(Unit)
    BY <1>1, ConcatProperties DEF Page
  <2>2. QED
    BY <1>1, <2>1 DEF Page
<1>3. QED
  BY <1>2 DEF AppendCache, Put, PagesFit

LEMMA SetFullyLoadedFits ==
  ASSUME NEW pg, PagesFit(pg), NEW url
  PROVE  PagesFit(SetFullyLoaded(pg, url))
BY DEF SetFullyLoaded, IsCached, PagesFit, Page

LEMMA DeletePageFits ==
  ASSUME NEW pg, PagesFit(pg), NEW url
  PROVE  PagesFit(DeletePage(pg, url))
BY DEF DeletePage, Erase, Restrict, PagesFit

\* One handler changes and keeps its server: every slot is served as before.
LEMMA HandlerChanges ==
  ASSUME NEW hs, HandlersFit(hs), NEW socks, Served(socks, hs),
         NEW c \in DOMAIN hs, NEW h \in Handler, RoleFits(h), h.server = hs[c].server
  PROVE  /\ HandlersFit([hs EXCEPT ![c] = h])
         /\ Served(socks, [hs EXCEPT ![c] = h])
<1> DEFINE gs == [hs EXCEPT ![c] = h]
<1>1. DOMAIN gs = DOMAIN hs /\ \A d \in DOMAIN hs : gs[d] = IF d = c THEN h ELSE hs[d]
  BY DEF HandlersFit
<1>2. HandlersFit(gs)
  BY DEF HandlersFit
<1>3. \A d \in DOMAIN hs : gs[d].server = hs[d].server
  BY <1>1
<1> HIDE DEF gs
<1>4. Served(socks, gs)
  BY <1>1, <1>3 DEF Served
<1>5. QED
  BY <1>2, <1>4 DEF gs

-----------------------------------------------------------------------------
(* removeClient.                                                           *)

\* What holds of the handler h that is removed and of the tables it is
\* removed from, which may have grown by its server in the same step.
Removable(c, h, fds, socks, prs) ==
  /\ Tables(fds, socks, prs)
  /\ c \in DOMAIN handlers
  /\ h \in Handler
  /\ h.type = "CASH" => h.server = NoSocket
  /\ h.server # NoSocket => h.url \in Urls
  /\ handlers[c].type = "CASH" => h.type = "CASH"
  /\ \A fd \in DOMAIN socks :
       /\ socks[fd] = "CLIENT" => fd \in DOMAIN handlers
       /\ socks[fd] = "SERVER" =>
            fd = h.server \/ \E d \in DOMAIN handlers \ {c} : handlers[d].server = fd

\* The deputy tryChooseDeputy takes is a reader, and another handler.
LEMMA DeputyIsReader ==
  ASSUME HandlersFit(handlers), NEW h, Deputies(h) # {}
  PROVE  Max(Deputies(h)) \in Deputies(h)
<1>1. Deputies(h) \in SUBSET (0..MaxFd)
  BY BoundsAssumption DEF Deputies, HandlersFit, Fd
<1>2. QED
  BY <1>1, MaxOfNats, BoundsAssumption

\* becomeHeir leaves every handler well formed.
LEMMA WithHeirFits ==
  ASSUME HandlersFit(handlers), NEW h \in Handler, h.server # NoSocket => h.url \in Urls
  PROVE  /\ DOMAIN WithHeir(h) = DOMAIN handlers
         /\ HandlersFit(WithHeir(h))
         /\ HandsOver(h) =>
              \E d \in Deputies(h) :
                /\ WithHeir(h)[d].server = h.server
                /\ \A e \in DOMAIN handlers \ {d} : WithHeir(h)[e] = handlers[e]
         /\ ~HandsOver(h) => WithHeir(h) = handlers
<1>1. CASE HandsOver(h)
  <2> DEFINE d == Max(Deputies(h))
             g == BecomeHeir(handlers[d], h)
  <2>1. /\ d \in Deputies(h)
        /\ d \in DOMAIN handlers
        /\ handlers[d].type = "CASH"
        /\ h.server # NoSocket
    BY <1>1, DeputyIsReader DEF HandsOver, Deputies
  <2> HIDE DEF d
  <2>2. handlers[d] \in Handler /\ RoleFits(handlers[d])
    BY <2>1 DEF HandlersFit
  <2>3. /\ g = [handlers[d] EXCEPT !.type = "HEIR", !.server = h.server, !.url = h.url]
        /\ h.url \in Urls /\ h.url # NoUrl /\ h.server \in Fd
    BY <2>1, NoUrlAssumption DEF BecomeHeir, Handler
  <2>4. g \in Handler /\ g.server = h.server
    BY <2>2, <2>3 DEF Handler, HandlerType
  <2>5. RoleFits(g)
    BY <2>1, <2>2, <2>3 DEF RoleFits, Handler
  <2> HIDE DEF g
  <2>6. WithHeir(h) = [handlers EXCEPT ![d] = g]
    BY <1>1 DEF WithHeir, d, g
  <2>7. /\ DOMAIN WithHeir(h) = DOMAIN handlers
        /\ WithHeir(h)[d] = g
        /\ \A e \in DOMAIN handlers \ {d} : WithHeir(h)[e] = handlers[e]
    BY <2>1, <2>6 DEF HandlersFit
  <2>8. HandlersFit(WithHeir(h))
    BY <2>1, <2>4, <2>5, <2>6 DEF HandlersFit
  <2>9. QED
    BY <1>1, <2>1, <2>4, <2>7, <2>8
<1>2. CASE ~HandsOver(h)
  <2>1. WithHeir(h) = handlers
    BY <1>2 DEF WithHeir
  <2>2. QED
    BY <1>2, <2>1
<1>3. QED
  BY <1>1, <1>2

\* The tables after removeClient: the server's entry goes unless it is kept,
\* then the client's.
LEMMA RemoveClientTables ==
  ASSUME NEW c \in Fd, NEW h \in Handler, NEW fds, NEW socks, NEW prs,
         Tables(fds, socks, prs)
  PROVE  Tables(RemoveFirst(LeftPolled(h, fds), c),
                Erase(socks, {c} \cup ClosedWith(h, fds)),
                Erase(prs, {c} \cup ClosedWith(h, fds)))
<1>1. c # Listener
  BY DEF Fd, Listener
<1>2. CASE ClosedWith(h, fds) = {}
  <2>1. LeftPolled(h, fds) = fds
    <3>1. CASE KeepsServer(h)
      BY <3>1 DEF LeftPolled
    <3>2. CASE ~KeepsServer(h)
      <4>1. h.server \notin Range(fds)
        BY <1>2, <3>2 DEF ClosedWith
      <4>2. RemoveFirst(fds, h.server) = fds
        BY <4>1, RemoveFirstAbsent DEF Tables
      <4>3. QED
        BY <3>2, <4>2 DEF LeftPolled
    <3>3. QED
      BY <3>1, <3>2
  <2>2. {c} \cup ClosedWith(h, fds) = {c}
    BY <1>2
  <2>3. QED
    BY <1>1, <2>1, <2>2, TablesRemove
<1>3. CASE ClosedWith(h, fds) # {}
  <2> DEFINE s == h.server
  <2>1. /\ LeftPolled(h, fds) = RemoveFirst(fds, s)
        /\ ClosedWith(h, fds) = {s}
    BY <1>3 DEF ClosedWith, LeftPolled
  <2>2. s # Listener
    BY DEF Handler, Fd, Listener, NoSocket
  <2>3. Tables(RemoveFirst(fds, s), Erase(socks, {s}), Erase(prs, {s}))
    BY <2>2, TablesRemove
  <2>4. Tables(RemoveFirst(RemoveFirst(fds, s), c),
               Erase(Erase(socks, {s}), {c}), Erase(Erase(prs, {s}), {c}))
    BY <1>1, <2>3, TablesRemove
  <2>5. /\ Erase(Erase(socks, {s}), {c}) = Erase(socks, {c} \cup {s})
        /\ Erase(Erase(prs, {s}), {c}) = Erase(prs, {c} \cup {s})
    BY DEF Erase, Restrict
  <2>6. QED
    BY <2>1, <2>4, <2>5
<1>4. QED
  BY <1>2, <1>3

\* The slots after removeClient: what is still open is still served, because
\* a server socket is closed or handed to an heir with its last owner.
LEMMA RemoveClientServed ==
  ASSUME HandlersFit(handlers), NEW c, NEW h, NEW fds, NEW socks, NEW prs,
         Removable(c, h, fds, socks, prs)
  PROVE  /\ HandlersFit(Erase(WithHeir(h), {c}))
         /\ Served(Erase(socks, {c} \cup ClosedWith(h, fds)), Erase(WithHeir(h), {c}))
<1> DEFINE hs == WithHeir(h)
           gone == {c} \cup ClosedWith(h, fds)
<1>1. h \in Handler /\ (h.server # NoSocket => h.url \in Urls)
  BY DEF Removable
<1>2. /\ DOMAIN hs = DOMAIN handlers
      /\ HandlersFit(hs)
      /\ HandsOver(h) =>
           \E d \in Deputies(h) :
             /\ hs[d].server = h.server
             /\ \A e \in DOMAIN handlers \ {d} : hs[e] = handlers[e]
      /\ ~HandsOver(h) => hs = handlers
  BY <1>1, WithHeirFits
<1> HIDE DEF hs
<1>3. HandlersFit(Erase(hs, {c}))
  BY <1>2 DEF HandlersFit, Erase, Restrict
<1>4. ASSUME NEW fd \in DOMAIN socks \ gone, socks[fd] = "SERVER"
      PROVE  \E d \in DOMAIN hs \ {c} : hs[d].server = fd
  <2>1. fd # NoSocket
    BY DEF Removable, Tables, Fd, Listener, NoSocket
  <2>2. CASE fd = h.server
    <3>1. h.type # "CASH" /\ fd \in Range(fds)
      BY <2>1, <2>2 DEF Removable, Tables
    <3>2. HandsOver(h)
      BY <2>2, <3>1 DEF ClosedWith, KeepsServer
    <3>3. PICK d \in Deputies(h) : hs[d].server = h.server
      BY <1>2, <3>2
    <3>4. d \in DOMAIN handlers /\ d # c
      BY <3>1 DEF Deputies, Removable
    <3>5. QED
      BY <1>2, <2>2, <3>3, <3>4
  <2>3. CASE fd # h.server
    <3>1. PICK d \in DOMAIN handlers \ {c} : handlers[d].server = fd
      BY <1>4, <2>3 DEF Removable
    <3>2. handlers[d].type # "CASH"
      BY <2>1, <3>1 DEF HandlersFit, RoleFits
    <3>3. hs[d] = handlers[d]
      BY <1>2, <3>1, <3>2 DEF Deputies
    <3>4. QED
      BY <1>2, <3>1, <3>3
  <2>4. QED
    BY <2>2, <2>3
<1>5. ASSUME NEW fd \in DOMAIN socks \ gone, socks[fd] = "CLIENT"
      PROVE  fd \in DOMAIN hs \ {c}
  BY <1>2, <1>5 DEF Removable
<1>6. Served(Erase(socks, gone), Erase(hs, {c}))
  BY <1>4, <1>5 DEF Served, Erase, Restrict
<1>7. QED
  BY <1>3, <1>6 DEF hs

\* A page that goes changes what is lost of its connections, and no more of
\* them.
LEMMA LosingFits ==
  ASSUME PagesFit(pages), NEW url, IsCached(pages, url),
         NEW fds, NEW socks, NEW prs, Tables(fds, socks, prs)
  PROVE  /\ Tables(fds, socks, PeersLosing(prs, url))
         /\ DOMAIN PeersLosing(prs, url) = DOMAIN prs
         /\ \A s \in DOMAIN prs :
              /\ PeersLosing(prs, url)[s].conn = prs[s].conn
              /\ PeersLosing(prs, url)[s].sent = prs[s].sent
<1> DEFINE data == pages[url].data
           At(s) == UnitsOf(prs[s].conn, url)
           idx(s) == data[Max(At(s))].idx
           qrs == PeersLosing(prs, url)
<1>1. data \in Seq(Unit) /\ Len(data) \in Nat /\ DOMAIN data = 1..Len(data)
  BY LenProperties DEF PagesFit, IsCached, Page
<1>2. ASSUME NEW s, At(s) # {} PROVE idx(s) \in Nat
  <2>1. At(s) \in SUBSET (0..Len(data)) /\ At(s) \subseteq DOMAIN data
    BY <1>1 DEF UnitsOf
  <2> HIDE DEF At
  <2>2. Max(At(s)) \in DOMAIN data
    <3>1. Max(At(s)) \in At(s)
      BY <1>1, <1>2, <2>1, MaxOfNats
    <3>2. QED
      BY <2>1, <3>1
  <2>3. data[Max(At(s))] \in Unit
    BY <1>1, <2>2, ElementOfSeq
  <2>4. QED
    BY <2>3 DEF Unit
<1>3. /\ DOMAIN qrs = DOMAIN prs
      /\ \A s \in DOMAIN prs :
           qrs[s] = IF At(s) = {} THEN prs[s] ELSE [prs[s] EXCEPT !.lost = idx(s)]
  BY DEF PeersLosing, Losing
<1> HIDE DEF qrs, idx, At
<1>4. ASSUME NEW s \in DOMAIN prs
      PROVE  /\ qrs[s] \in Peer
             /\ prs[s] \in ServerPeer => qrs[s] \in ServerPeer
             /\ qrs[s].conn = prs[s].conn
             /\ qrs[s].sent = prs[s].sent
  <2>1. prs[s] \in Peer
    BY DEF Tables
  <2>2. CASE At(s) = {}
    BY <1>3, <2>1, <2>2
  <2>3. CASE At(s) # {}
    <3>1. idx(s) \in Nat /\ qrs[s] = [prs[s] EXCEPT !.lost = idx(s)]
      BY <1>2, <1>3, <2>3
    <3>2. QED
      BY <2>1, <3>1 DEF Peer, ServerPeer
  <2>4. QED
    BY <2>2, <2>3
<1>5. qrs \in [DOMAIN qrs -> Peer]
  <2>1. qrs = [s \in DOMAIN qrs |-> qrs[s]]
    BY DEF qrs, PeersLosing
  <2>2. QED
    BY <1>3, <1>4, <2>1
<1>6. Tables(fds, socks, qrs)
  <2>1. \A fd \in DOMAIN socks :
          socks[fd] = "SERVER" => fd \in DOMAIN prs /\ prs[fd] \in ServerPeer
    BY DEF Tables
  <2>2. QED
    BY <1>3, <1>4, <1>5, <2>1 DEF Tables
<1>7. QED
  BY <1>3, <1>4, <1>6 DEF qrs

LEMMA RemoveClientPreserves ==
  ASSUME IInv, NEW c, NEW h, NEW fds, NEW socks, NEW prs,
         Removable(c, h, fds, socks, prs),
         RemoveClient(c, h, fds, socks, prs), UNCHANGED <<accepted, connects>>
  PROVE  IInv'
<1>1. CASE \E how \in {"segfault", "terminated"} : Die(how)
  BY <1>1 DEF Die, IInv
<1>2. CASE /\ \/ /\ IsCached(pages, h.url)
                 /\ pages' = DeletePage(pages, h.url)
                 /\ peer' = Erase(PeersLosing(prs, h.url), {c} \cup ClosedWith(h, fds))
              \/ /\ peer' = Erase(prs, {c} \cup ClosedWith(h, fds))
                 /\ UNCHANGED pages
           /\ pollFds' = RemoveFirst(LeftPolled(h, fds), c)
           /\ sockets' = Erase(socks, {c} \cup ClosedWith(h, fds))
           /\ handlers' = Erase(WithHeir(h), {c})
           /\ cursor' = 1
           /\ status' = status
  <2>1. /\ h \in Handler /\ Tables(fds, socks, prs)
        /\ c \in Fd /\ HandlersFit(handlers) /\ PagesFit(pages)
    BY DEF IInv, Removable, HandlersFit
  <2>2. Tables(pollFds', sockets', peer')
    <3>1. PICK qrs : /\ Tables(fds, socks, qrs)
                     /\ peer' = Erase(qrs, {c} \cup ClosedWith(h, fds))
      BY <1>2, <2>1, LosingFits
    <3>2. QED
      BY <1>2, <2>1, <3>1, RemoveClientTables
  <2>3. HandlersFit(handlers') /\ Served(sockets', handlers')
    BY <1>2, <2>1, RemoveClientServed
  <2>4. PagesFit(pages')
    BY <1>2, DeletePageFits DEF IInv
  <2>5. cursor' \in 1..Len(pollFds')
    <3>1. Len(pollFds') \in Nat /\ Len(pollFds') >= 1
      BY <2>2, LenProperties DEF Tables
    <3>2. QED
      BY <1>2, <3>1
  <2>6. QED
    BY <1>2, <2>2, <2>3, <2>4, <2>5 DEF IInv
<1>3. ASSUME NEW hasHeir, DropsPage(h, hasHeir), ~DestructorThrows(h, hasHeir)
      PROVE  IsCached(pages, h.url)
  BY <1>3 DEF DestructorThrows, DeletePageThrows
<1>4. QED
  BY <1>1, <1>2, <1>3 DEF RemoveClient, Repoll

-----------------------------------------------------------------------------
(* The actions.                                                            *)

\* What the invariant says of the slot the loop has reached.
LEMMA SlotFacts ==
  ASSUME IInv
  PROVE  /\ Slot \in DOMAIN sockets
         /\ SlotIs("CLIENT") =>
              /\ Slot \in DOMAIN handlers
              /\ handlers[Slot] \in Handler
              /\ RoleFits(handlers[Slot])
         /\ \A c \in DOMAIN handlers : handlers[c] \in Handler /\ RoleFits(handlers[c])
         /\ SlotIs("SERVER") => Slot # Listener /\ peer[Slot] \in ServerPeer
         /\ SlotIs("SERVER") => Slot \in DOMAIN peer
<1>1. Slot \in Range(pollFds)
  <2>1. DOMAIN pollFds = 1..Len(pollFds)
    BY LenProperties DEF IInv, Tables
  <2>2. QED
    BY <2>1 DEF IInv, Slot, Range
<1>2. QED
  BY <1>1 DEF IInv, Tables, SlotIs, Served, HandlersFit

\* The descriptor the kernel gives out was not open.
LEMMA NewFdIsFree ==
  ASSUME FreeFds # {}
  PROVE  NewFd \in Fd /\ NewFd \notin DOMAIN peer
<1>1. FreeFds \in SUBSET Nat
  BY BoundsAssumption DEF FreeFds, Fd
<1>2. NewFd \in FreeFds
  BY <1>1, MinOfNats DEF NewFd
<1>3. QED
  BY <1>2 DEF FreeFds

LEMMA NextSlotPreserves ==
  ASSUME IInv, NextSlot, UNCHANGED pollFds
  PROVE  cursor' \in 1..Len(pollFds')
<1>1. Len(pollFds) \in Nat /\ cursor \in 1..Len(pollFds)
  BY LenProperties DEF IInv, Tables
<1>2. QED
  BY <1>1 DEF NextSlot

LEMMA RepollPreserves ==
  ASSUME Tables(pollFds, sockets, peer)', Repoll
  PROVE  cursor' \in 1..Len(pollFds')
<1>1. Len(pollFds') \in Nat /\ Len(pollFds') >= 1
  BY LenProperties DEF Tables
<1>2. QED
  BY <1>1 DEF Repoll

\* The handler h that the new client talks to: a new one, or the one that an
\* earlier client has left behind, which then is where that client left it.
Welcomes(h) ==
  /\ RoleFits(h)
  /\ DOMAIN handlers' = DOMAIN handlers \cup {NewFd}
  /\ \A c \in DOMAIN handlers' : handlers'[c] = IF c = NewFd THEN h ELSE handlers[c]
  /\ handlers' = [c \in DOMAIN handlers' |-> handlers'[c]]
  /\ h.handed = <<>> /\ h.since = h.pos
  /\ NewFd \notin DOMAIN handlers => h.type = "STANDBY"
  /\ NewFd \in DOMAIN handlers =>
       LET g == handlers[NewFd]
       IN  /\ h.type = g.type /\ h.url = g.url /\ h.server = g.server
           /\ h.pos = g.pos /\ h.respReady = g.respReady /\ h.respSent = g.respSent

LEMMA AcceptedHandler ==
  ASSUME HandlersFit(handlers), AcceptClient
  PROVE  \E h \in Handler : Welcomes(h)
<1> DEFINE hs == Insert(handlers, NewFd, NewHandler)
           g == hs[NewFd]
           h == ForNewClient(g)
<1>1. /\ DOMAIN hs = DOMAIN handlers \cup {NewFd}
      /\ \A c \in DOMAIN handlers : hs[c] = handlers[c]
      /\ NewFd \notin DOMAIN handlers => hs[NewFd] = NewHandler
  BY DEF Insert, Put
<1>2. /\ handlers' = [hs EXCEPT ![NewFd] = h]
      /\ hs = [c \in DOMAIN hs |-> hs[c]]
  BY DEF AcceptClient, Insert, Put, HandlersFit
<1> HIDE DEF hs
<1>3. /\ DOMAIN handlers' = DOMAIN handlers \cup {NewFd}
      /\ \A c \in DOMAIN handlers' : handlers'[c] = IF c = NewFd THEN h ELSE handlers[c]
      /\ handlers' = [c \in DOMAIN handlers' |-> handlers'[c]]
  BY <1>1, <1>2
<1>4. g \in Handler /\ RoleFits(g)
  BY <1>1, NewHandlerFits DEF HandlersFit
<1>5. NewFd \notin DOMAIN handlers => g.type = "STANDBY"
  BY <1>1 DEF NewHandler
<1>6. NewFd \in DOMAIN handlers => g = handlers[NewFd]
  BY <1>1
<1> HIDE DEF g
<1>7. h \in Handler /\ RoleFits(h)
  BY <1>4, ForNewClientFits
<1>8. /\ h.handed = <<>> /\ h.since = h.pos
      /\ h.type = g.type /\ h.url = g.url /\ h.server = g.server
      /\ h.pos = g.pos /\ h.respReady = g.respReady /\ h.respSent = g.respSent
  BY <1>4 DEF ForNewClient, Handler
<1> HIDE DEF h
<1>9. Welcomes(h)
  BY <1>3, <1>5, <1>6, <1>7, <1>8 DEF Welcomes
<1>10. QED
  BY <1>7, <1>9

LEMMA AcceptClientPreserves ==
  ASSUME IInv, AcceptClient
  PROVE  IInv'
<1>1. NewFd \in Fd /\ NewFd \notin DOMAIN peer
  BY NewFdIsFree DEF AcceptClient
<1>2. Client \in Peer
  BY DEF Client, Peer
<1>3. Tables(pollFds, sockets, peer)'
  BY <1>1, <1>2, TablesAdd DEF IInv, AcceptClient
<1>4. PICK h \in Handler : Welcomes(h)
  BY AcceptedHandler DEF IInv
<1>5. /\ RoleFits(h)
      /\ DOMAIN handlers' = DOMAIN handlers \cup {NewFd}
      /\ \A c \in DOMAIN handlers' : handlers'[c] = IF c = NewFd THEN h ELSE handlers[c]
      /\ handlers' = [c \in DOMAIN handlers' |-> handlers'[c]]
      /\ NewFd \in DOMAIN handlers => h.server = handlers[NewFd].server
  BY <1>4 DEF Welcomes
<1>6. HandlersFit(handlers')
  <2>1. \A c \in DOMAIN handlers' : handlers'[c] \in Handler /\ RoleFits(handlers'[c])
    BY <1>5 DEF IInv, HandlersFit
  <2>2. QED
    BY <1>1, <1>5, <2>1 DEF IInv, HandlersFit
<1>7. Served(sockets', handlers')
  <2>1. NewFd \notin DOMAIN sockets
    BY <1>1 DEF IInv, Tables, Fd, Listener
  <2>2. /\ DOMAIN sockets' = DOMAIN sockets \cup {NewFd}
        /\ sockets'[NewFd] = "CLIENT"
        /\ \A fd \in DOMAIN sockets : sockets'[fd] = sockets[fd]
    BY <2>1 DEF AcceptClient, Insert, Put
  <2>3. /\ DOMAIN handlers' = DOMAIN handlers \cup {NewFd}
        /\ \A c \in DOMAIN handlers : handlers'[c].server = handlers[c].server
    BY <1>5
  <2>4. QED
    BY <2>2, <2>3 DEF IInv, Served
<1>8. accepted' \in 0..MaxClients
  BY BoundsAssumption DEF IInv, AcceptClient
<1>9. cursor' \in 1..Len(pollFds')
  BY <1>3, RepollPreserves DEF AcceptClient
<1>10. QED
  BY <1>3, <1>6, <1>7, <1>8, <1>9 DEF IInv, AcceptClient

\* Only handlers and pages change, and the loop goes on to the next slot.
LEMMA HandlerBecomesPreserves ==
  ASSUME IInv, NEW c \in DOMAIN handlers, NEW h \in Handler, RoleFits(h),
         h.server = handlers[c].server, handlers' = [handlers EXCEPT ![c] = h],
         NextSlot, UNCHANGED <<pollFds, sockets, status, accepted, connects>>,
         Tables(pollFds, sockets, peer)', PagesFit(pages')
  PROVE  IInv'
<1>1. HandlersFit(handlers') /\ Served(sockets', handlers')
  BY HandlerChanges DEF IInv
<1>2. QED
  BY <1>1, NextSlotPreserves DEF IInv

\* The server of the slot goes, after its owner may have changed.
LEMMA RemoveServerPreserves ==
  ASSUME IInv, SlotIs("SERVER"), RemoveServer(Slot),
         UNCHANGED <<status, accepted, connects>>, PagesFit(pages'),
         HandlersFit(handlers') /\ Served(sockets, handlers')
  PROVE  IInv'
<1>1. Slot # Listener
  BY SlotFacts
<1>2. Tables(pollFds', sockets', peer')
  BY <1>1, TablesRemove DEF IInv, RemoveServer
<1>3. Served(sockets', handlers')
  BY DEF RemoveServer, Served, Erase, Restrict
<1>4. cursor' \in 1..Len(pollFds')
  BY <1>2, RepollPreserves DEF RemoveServer
<1>5. QED
  BY <1>2, <1>3, <1>4 DEF IInv

\* A client is removed with the handler it had before the step.
LEMMA RemoveAsIsPreserves ==
  ASSUME IInv, SlotIs("CLIENT"), RemoveThisClient(handlers[Slot])
  PROVE  IInv'
<1> DEFINE h == handlers[Slot]
<1>1. Slot \in DOMAIN handlers /\ h \in Handler /\ RoleFits(h)
  BY SlotFacts
<1>2. Removable(Slot, h, pollFds, sockets, peer)
  <2>1. /\ h.type = "CASH" => h.server = NoSocket
        /\ h.server # NoSocket => h.url \in Urls
    BY <1>1 DEF RoleFits, Handler
  <2>2. \A fd \in DOMAIN sockets :
          /\ sockets[fd] = "CLIENT" => fd \in DOMAIN handlers
          /\ sockets[fd] = "SERVER" =>
               fd = h.server \/ \E d \in DOMAIN handlers \ {Slot} : handlers[d].server = fd
    BY DEF IInv, Served
  <2>3. QED
    BY <1>1, <2>1, <2>2 DEF Removable, IInv
<1>3. QED
  BY <1>2, RemoveClientPreserves DEF RemoveThisClient

\* A whole request reaches a handler in STANDBY, and gives it one of two roles.
LEMMA RequestFacts ==
  ASSUME IInv, NEW u \in Urls, NEW role, RequestArrives(u, role)
  PROVE  /\ SlotIs("CLIENT") /\ Slot \in DOMAIN handlers
         /\ handlers[Slot] \in Handler /\ RoleFits(handlers[Slot])
         /\ handlers[Slot].type = "STANDBY" /\ handlers[Slot].server = NoSocket
         /\ role \in {"CASH", "LOAD_CASHING"}
         /\ Requesting(u) = WithRequest(handlers[Slot], u, role)
         /\ Requesting(u) \in Handler
         /\ u # NoUrl
<1>1. /\ SlotIs("CLIENT") /\ Slot \in DOMAIN handlers
      /\ handlers[Slot] \in Handler /\ RoleFits(handlers[Slot])
  BY SlotFacts DEF RequestArrives
<1>2. handlers[Slot].type = "STANDBY" /\ handlers[Slot].server = NoSocket
  BY <1>1 DEF RequestArrives, RoleFits
<1>3. Requesting(u).type = AcquireHandlerType(pages, u)
  BY <1>1 DEF Requesting, WithRequest, Handler
<1>4. /\ role = AcquireHandlerType(pages, u)
      /\ role \in {"CASH", "LOAD_CASHING"}
  BY <1>3 DEF RequestArrives, AcquireHandlerType
<1>5. Requesting(u) = WithRequest(handlers[Slot], u, role)
  BY <1>4 DEF Requesting
<1>6. Requesting(u) \in Handler
  BY <1>1, <1>4, <1>5 DEF WithRequest, Handler, HandlerType
<1>7. QED
  BY <1>1, <1>2, <1>4, <1>5, <1>6, NoUrlAssumption

LEMMA RequestFromCachePreserves ==
  ASSUME IInv, NEW u \in Urls, RequestFromCache(u)
  PROVE  IInv'
<1> DEFINE h == RequestSent(Requesting(u))
<1>1. RequestArrives(u, "CASH") /\ CanAcquire(pages, u, handlers[Slot].pos)
  BY DEF RequestFromCache
<1>2. /\ handlers[Slot] \in Handler /\ RoleFits(handlers[Slot])
      /\ handlers[Slot].type = "STANDBY" /\ handlers[Slot].server = NoSocket
      /\ Slot \in DOMAIN handlers /\ u # NoUrl
      /\ Requesting(u) = WithRequest(handlers[Slot], u, "CASH")
  BY <1>1, RequestFacts
<1>3. /\ h \in Handler /\ RoleFits(h)
      /\ h.type = "CASH" /\ h.server = handlers[Slot].server
      /\ h.url = u /\ h.pos = handlers[Slot].pos
  <2>1. h = [handlers[Slot] EXCEPT !.url = u, !.reqReady = TRUE, !.type = "CASH",
                                   !.reqSent = TRUE]
    BY <1>2 DEF RequestSent, WithRequest, Handler
  <2>2. /\ h.url = u /\ h.reqReady = TRUE /\ h.type = "CASH" /\ h.reqSent = TRUE
        /\ h.server = handlers[Slot].server /\ h.pos = handlers[Slot].pos
        /\ h.respReady = handlers[Slot].respReady
    BY <1>2, <2>1 DEF Handler
  <2>3. h \in Handler
    BY <1>2, <2>1 DEF Handler, HandlerType
  <2>4. handlers[Slot].respReady = FALSE
    BY <1>2 DEF RoleFits, Handler
  <2> HIDE DEF h
  <2>5. RoleFits(h)
    BY <1>2, <2>2, <2>4 DEF RoleFits
  <2>6. QED
    BY <2>2, <2>3, <2>5
<1> HIDE DEF h
<1> DEFINE g == SendChunkFromCache(pages, h)
<1>4. g \in Handler /\ RoleFits(g) /\ g.server = handlers[Slot].server
  BY <1>1, <1>3, SendChunkFromCacheFits DEF IInv
<1>5. handlers' = [handlers EXCEPT ![Slot] = g] /\ NextSlot
      /\ UNCHANGED <<pollFds, sockets, pages, status, peer, accepted, connects>>
  BY DEF RequestFromCache, HandlerBecomes, h
<1>6. Tables(pollFds, sockets, peer)' /\ PagesFit(pages')
  BY <1>5 DEF IInv
<1> HIDE DEF g
<1>7. QED
  BY <1>2, <1>4, <1>5, <1>6, HandlerBecomesPreserves

LEMMA RequestFromServerPreserves ==
  ASSUME IInv, NEW u \in Urls, RequestFromServer(u)
  PROVE  IInv'
<1> DEFINE h == RequestSent(Connected(Requesting(u), NewFd))
<1>1. /\ handlers[Slot] \in Handler /\ RoleFits(handlers[Slot])
      /\ handlers[Slot].type = "STANDBY" /\ handlers[Slot].server = NoSocket
      /\ Slot \in DOMAIN handlers /\ u # NoUrl
      /\ Requesting(u) = WithRequest(handlers[Slot], u, "LOAD_CASHING")
  BY RequestFacts DEF RequestFromServer
<1>2. NewFd \in Fd /\ NewFd \notin DOMAIN peer
  BY NewFdIsFree DEF RequestFromServer
<1>3. NewFd # NoSocket /\ NewFd # Listener
  BY <1>2 DEF Fd, NoSocket, Listener
<1>4. h \in Handler /\ RoleFits(h) /\ h.server = NewFd
  <2>1. h = [handlers[Slot] EXCEPT !.url = u, !.reqReady = TRUE,
                                   !.type = "LOAD_CASHING", !.server = NewFd,
                                   !.reqSent = TRUE]
    BY <1>1 DEF RequestSent, Connected, WithRequest, Handler
  <2>2. /\ h.url = u /\ h.reqReady = TRUE /\ h.type = "LOAD_CASHING"
        /\ h.reqSent = TRUE /\ h.server = NewFd
    BY <1>1, <2>1 DEF Handler
  <2>3. h \in Handler
    BY <1>1, <1>2, <2>1 DEF Handler, HandlerType
  <2> HIDE DEF h
  <2>4. RoleFits(h)
    BY <1>1, <1>3, <2>2 DEF RoleFits
  <2>5. QED
    BY <2>2, <2>3, <2>4
<1> HIDE DEF h
<1>5. handlers' = [handlers EXCEPT ![Slot] = h]
  BY DEF RequestFromServer, h
<1>6. /\ DOMAIN handlers' = DOMAIN handlers
      /\ handlers'[Slot] = h
      /\ \A d \in DOMAIN handlers \ {Slot} : handlers'[d] = handlers[d]
      /\ HandlersFit(handlers')
  BY <1>1, <1>4, <1>5 DEF IInv, HandlersFit
<1>7. Tables(pollFds, sockets, peer)'
  <2>1. Server(u, connects + 1) \in ServerPeer /\ Server(u, connects + 1) \in Peer
    BY DEF IInv, Server, ServerPeer, Peer
  <2>2. Tables(Append(pollFds, NewFd), Insert(sockets, NewFd, "SERVER"),
               Put(peer, NewFd, Server(u, connects + 1)))
    BY <1>2, <2>1, TablesAdd DEF IInv
  <2>3. QED
    BY <2>2 DEF RequestFromServer
<1>8. /\ NewFd \notin DOMAIN sockets
      /\ DOMAIN sockets' = DOMAIN sockets \cup {NewFd}
      /\ sockets'[NewFd] = "SERVER"
      /\ \A fd \in DOMAIN sockets : sockets'[fd] = sockets[fd]
  <2>1. NewFd \notin DOMAIN sockets
    BY <1>2, <1>3 DEF IInv, Tables
  <2>2. QED
    BY <2>1 DEF RequestFromServer, Insert, Put
<1>9. Served(sockets', handlers')
  <2>1. ASSUME NEW fd \in DOMAIN sockets, sockets[fd] = "SERVER"
        PROVE  \E c \in DOMAIN handlers' : handlers'[c].server = fd
    <3>1. PICK c \in DOMAIN handlers : handlers[c].server = fd
      BY <2>1 DEF IInv, Served
    <3>2. fd # NoSocket
      BY <2>1 DEF IInv, Tables, Fd, Listener, NoSocket
    <3>3. c # Slot
      BY <1>1, <3>1, <3>2
    <3>4. QED
      BY <1>6, <3>1, <3>3
  <2>2. Slot \in DOMAIN handlers' /\ handlers'[Slot].server = NewFd
    BY <1>1, <1>4, <1>6
  <2>3. QED
    BY <1>6, <1>8, <2>1, <2>2 DEF IInv, Served
<1>10. cursor' \in 1..Len(pollFds')
  BY <1>7, RepollPreserves DEF RequestFromServer
<1>11. QED
  BY <1>6, <1>7, <1>9, <1>10 DEF IInv, RequestFromServer

LEMMA ConnectFailsPreserves ==
  ASSUME IInv, NEW u \in Urls, ConnectFails(u)
  PROVE  IInv'
<1> DEFINE h == Requesting(u)
<1>1. /\ handlers[Slot] \in Handler
      /\ handlers[Slot].type = "STANDBY" /\ handlers[Slot].server = NoSocket
      /\ Slot \in DOMAIN handlers /\ h \in Handler
      /\ h = WithRequest(handlers[Slot], u, "LOAD_CASHING")
  BY RequestFacts DEF ConnectFails
<1>2. h.type = "LOAD_CASHING" /\ h.server = NoSocket
  BY <1>1 DEF WithRequest, Handler
<1>3. Removable(Slot, h, pollFds, sockets, peer)
  <2>1. \A fd \in DOMAIN sockets :
          /\ sockets[fd] = "CLIENT" => fd \in DOMAIN handlers
          /\ sockets[fd] = "SERVER" =>
               \E d \in DOMAIN handlers \ {Slot} : handlers[d].server = fd
    BY <1>1 DEF IInv, Served, Tables, Fd, Listener, NoSocket
  <2> HIDE DEF h
  <2>2. QED
    BY <1>1, <1>2, <2>1 DEF Removable, IInv
<1>4. QED
  BY <1>3, RemoveClientPreserves DEF ConnectFails, RemoveThisClient

LEMMA SendRequestFailsPreserves ==
  ASSUME IInv, NEW u \in Urls, SendRequestFails(u)
  PROVE  IInv'
<1> DEFINE h == Connected(Requesting(u), NewFd)
           fds == Append(pollFds, NewFd)
           socks == Insert(sockets, NewFd, "SERVER")
           prs == Put(peer, NewFd, Server(u, connects + 1))
<1>1. /\ handlers[Slot] \in Handler
      /\ handlers[Slot].type = "STANDBY" /\ handlers[Slot].server = NoSocket
      /\ Slot \in DOMAIN handlers
      /\ Requesting(u) = WithRequest(handlers[Slot], u, "LOAD_CASHING")
  BY RequestFacts DEF SendRequestFails
<1>2. NewFd \in Fd /\ NewFd \notin DOMAIN peer
  BY NewFdIsFree DEF SendRequestFails
<1>3. h \in Handler /\ h.type = "LOAD_CASHING" /\ h.server = NewFd /\ h.url = u
  BY <1>1, <1>2 DEF Connected, WithRequest, Handler, HandlerType
<1>4. Tables(fds, socks, prs)
  <2>1. Server(u, connects + 1) \in ServerPeer /\ Server(u, connects + 1) \in Peer
    BY DEF IInv, Server, ServerPeer, Peer
  <2>2. QED
    BY <1>2, <2>1, TablesAdd DEF IInv
<1>5. \A fd \in DOMAIN socks :
        /\ socks[fd] = "CLIENT" => fd \in DOMAIN handlers
        /\ socks[fd] = "SERVER" =>
             fd = NewFd \/ \E d \in DOMAIN handlers \ {Slot} : handlers[d].server = fd
  <2>1. \A fd \in DOMAIN sockets :
          /\ sockets[fd] = "CLIENT" => fd \in DOMAIN handlers
          /\ sockets[fd] = "SERVER" =>
               \E d \in DOMAIN handlers \ {Slot} : handlers[d].server = fd
    BY <1>1 DEF IInv, Served, Tables, Fd, Listener, NoSocket
  <2>2. NewFd \notin DOMAIN sockets
    BY <1>2 DEF IInv, Tables, Fd, Listener
  <2>3. QED
    BY <2>1, <2>2 DEF Insert, Put
<1>6. CASE RemoveClient(Slot, h, fds, socks, prs)
  <2> HIDE DEF h, fds, socks, prs
  <2>1. Removable(Slot, h, fds, socks, prs)
    BY <1>1, <1>3, <1>4, <1>5 DEF Removable
  <2>2. UNCHANGED <<accepted, connects>>
    BY DEF SendRequestFails
  <2>3. QED
    BY <1>6, <2>1, <2>2, RemoveClientPreserves
<1>7. CASE Die("terminated")
  BY <1>7 DEF Die, IInv
<1>8. QED
  BY <1>6, <1>7 DEF SendRequestFails

LEMMA ServeFromCachePreserves ==
  ASSUME IInv, NEW c \in DOMAIN handlers, handlers[c].type \in {"CASH", "HEIR"},
         CanAcquire(pages, handlers[c].url, handlers[c].pos),
         HandlerBecomes(c, SendChunkFromCache(pages, handlers[c]))
  PROVE  IInv'
<1> DEFINE h == SendChunkFromCache(pages, handlers[c])
<1>1. handlers[c] \in Handler /\ RoleFits(handlers[c])
  BY SlotFacts
<1>2. h \in Handler /\ RoleFits(h) /\ h.server = handlers[c].server
  BY <1>1, SendChunkFromCacheFits DEF IInv
<1>3. /\ handlers' = [handlers EXCEPT ![c] = h] /\ NextSlot
      /\ UNCHANGED <<pollFds, sockets, pages, status, peer, accepted, connects>>
  BY DEF HandlerBecomes
<1>4. Tables(pollFds, sockets, peer)' /\ PagesFit(pages')
  BY <1>3 DEF IInv
<1> HIDE DEF h
<1>5. QED
  BY <1>2, <1>3, <1>4, HandlerBecomesPreserves

LEMMA IdlePreserves ==
  ASSUME IInv, NEW c \in DOMAIN handlers, HandlerBecomes(c, handlers[c])
  PROVE  IInv'
<1>1. handlers[c] \in Handler /\ RoleFits(handlers[c])
  BY SlotFacts
<1>2. /\ handlers' = [handlers EXCEPT ![c] = handlers[c]] /\ NextSlot
      /\ UNCHANGED <<pollFds, sockets, pages, status, peer, accepted, connects>>
  BY DEF HandlerBecomes
<1>3. Tables(pollFds, sockets, peer)' /\ PagesFit(pages')
  BY <1>2 DEF IInv
<1>4. QED
  BY <1>1, <1>2, <1>3, HandlerBecomesPreserves

\* A loader stays a handler of its server, whatever it is left with.
LEMMA LoadedFits ==
  ASSUME NEW h \in Handler, RoleFits(h), h.type \in Loading,
         NEW n, NEW stored, NEW complete \in BOOLEAN
  PROVE  /\ Loaded(h, n, stored, complete) \in Handler
         /\ Loaded(h, n, stored, complete).server = h.server
         /\ Loaded(h, n, stored, complete).type \in Loading
         /\ RoleFits(Loaded(h, n, stored, complete))
<1> DEFINE type == IF stored < n THEN "LOAD_TRANSIENT" ELSE h.type
           g == [h EXCEPT !.type = type, !.respReady = complete]
<1>1. type \in Loading /\ type \in HandlerType
  BY DEF Loading, HandlerType
<1>2. Loaded(h, n, stored, complete) = g
  BY DEF Loaded, Handler
<1> HIDE DEF type
<1>3. g \in Handler /\ g.server = h.server /\ g.type = type
      /\ g.reqReady = h.reqReady /\ g.reqSent = h.reqSent /\ g.url = h.url
  BY <1>1 DEF Handler
<1> HIDE DEF g
<1>4. RoleFits(g)
  BY <1>1, <1>3 DEF RoleFits, Loading
<1>5. QED
  BY <1>1, <1>2, <1>3, <1>4

LEMMA ServerEofPreserves ==
  ASSUME IInv, NEW c \in DOMAIN handlers, ServerEof(c)
  PROVE  IInv'
<1> DEFINE h == [handlers[c] EXCEPT !.respSent = TRUE]
<1>1. /\ handlers[c] \in Handler /\ RoleFits(handlers[c])
      /\ handlers[c].type \in Loading /\ SlotIs("SERVER")
  BY SlotFacts DEF ServerEof, Receiving, ServerSlot
<1>2. h \in Handler /\ RoleFits(h) /\ h.server = handlers[c].server
  BY <1>1 DEF Handler, RoleFits, Loading
<1>3. handlers' = [handlers EXCEPT ![c] = h]
  BY <1>1 DEF ServerEof, IInv, HandlersFit
<1> HIDE DEF h
<1>4. HandlersFit(handlers') /\ Served(sockets, handlers')
  BY <1>2, <1>3, HandlerChanges DEF IInv
<1>5. PagesFit(pages')
  BY SetFullyLoadedFits DEF IInv, ServerEof
<1>6. QED
  BY <1>1, <1>4, <1>5, RemoveServerPreserves DEF ServerEof

LEMMA ReceivePreserves ==
  ASSUME IInv, NEW c \in DOMAIN handlers, NEW n \in Nat, NEW stored \in 0..n,
         NEW complete \in BOOLEAN, Receive(c, n, stored, complete)
  PROVE  /\ SlotIs("SERVER") /\ peer[Slot] \in ServerPeer
         /\ handlers[c] \in Handler /\ RoleFits(handlers[c])
         /\ handlers[c].type \in Loading
         /\ Received(n) \in Seq(Unit)
         /\ PagesFit(pages')
<1>1. /\ handlers[c] \in Handler /\ RoleFits(handlers[c])
      /\ handlers[c].type \in Loading /\ SlotIs("SERVER")
      /\ peer[Slot] \in ServerPeer
  BY SlotFacts DEF Receive, Receiving, ServerSlot
<1>2. \A i \in 1..n : [url |-> peer[Slot].url, conn |-> peer[Slot].conn,
                       idx |-> peer[Slot].sent + i] \in Unit
  BY <1>1 DEF ServerPeer, Unit
<1>3. Received(n) \in [1..n -> Unit]
  BY <1>2 DEF Received
<1>4. Received(n) \in Seq(Unit) /\ Len(Received(n)) = n
  BY <1>3, SeqDef, LenProperties
<1>5. SubSeq(Received(n), 1, stored) \in Seq(Unit)
  <2>1. \A i \in 1..stored : Received(n)[i] \in Unit
    BY <1>3
  <2>2. QED
    BY <2>1, SubSeqProperties
<1>6. handlers[c].url \in Urls
  BY <1>1 DEF RoleFits, Handler, Loading
<1>7. PagesFit(CacheWith(handlers[c], n, stored))
  BY <1>5, <1>6, AppendCacheFits DEF CacheWith, IInv
<1>8. PagesFit(pages')
  BY <1>7, SetFullyLoadedFits DEF Receive
<1>9. QED
  BY <1>1, <1>4, <1>8

LEMMA ServerDataPreserves ==
  ASSUME IInv, NEW c \in DOMAIN handlers, NEW n \in Nat, NEW stored \in 0..n,
         NEW complete \in BOOLEAN, ServerData(c, n, stored, complete)
  PROVE  IInv'
<1> DEFINE h == Loaded(handlers[c], n, stored, complete)
<1>1. /\ SlotIs("SERVER") /\ peer[Slot] \in ServerPeer
      /\ handlers[c] \in Handler /\ RoleFits(handlers[c])
      /\ handlers[c].type \in Loading
      /\ Received(n) \in Seq(Unit)
      /\ PagesFit(pages')
  BY ReceivePreserves DEF ServerData
<1>2. h \in Handler /\ h.server = handlers[c].server /\ h.type \in Loading /\ RoleFits(h)
  BY <1>1, LoadedFits
<1> HIDE DEF h
<1>3. PICK after \in {SendResponseChunk(h, Received(n)), h} :
         handlers' = [handlers EXCEPT ![c] = after]
  BY DEF ServerData, h
<1>4. after \in Handler /\ RoleFits(after) /\ after.server = handlers[c].server
  BY <1>1, <1>2, <1>3, SendResponseChunkFits DEF Loading
<1>5. Tables(pollFds, sockets, peer)'
  <2>1. Slot \in DOMAIN peer /\ peer \in [DOMAIN peer -> Peer]
    BY <1>1, SlotFacts DEF IInv, Tables
  <2>2. /\ peer' = [peer EXCEPT ![Slot] = [peer[Slot] EXCEPT !.sent = @ + n]]
        /\ UNCHANGED <<pollFds, sockets>>
    BY DEF ServerData
  <2>3. [peer[Slot] EXCEPT !.sent = @ + n] \in ServerPeer
    BY <1>1 DEF ServerPeer
  <2>4. ServerPeer \subseteq Peer
    BY DEF ServerPeer, Peer
  <2>5. QED
    BY <2>1, <2>2, <2>3, <2>4 DEF IInv, Tables
<1>6. QED
  BY <1>1, <1>3, <1>4, <1>5, HandlerBecomesPreserves DEF ServerData, Receive

LEMMA ServerDataRefusedPreserves ==
  ASSUME IInv, NEW c \in DOMAIN handlers, NEW n \in Nat, NEW stored \in 0..n,
         NEW complete \in BOOLEAN, ServerDataRefused(c, n, stored, complete)
  PROVE  IInv'
<1> DEFINE h == Loaded(handlers[c], n, stored, complete)
<1>1. /\ SlotIs("SERVER")
      /\ handlers[c] \in Handler /\ RoleFits(handlers[c])
      /\ handlers[c].type \in Loading
      /\ PagesFit(pages')
  BY ReceivePreserves DEF ServerDataRefused
<1>2. h \in Handler /\ h.server = handlers[c].server /\ RoleFits(h)
  BY <1>1, LoadedFits
<1>3. handlers' = [handlers EXCEPT ![c] = h]
  BY DEF ServerDataRefused
<1> HIDE DEF h
<1>4. HandlersFit(handlers') /\ Served(sockets, handlers')
  BY <1>2, <1>3, HandlerChanges DEF IInv
<1>5. QED
  BY <1>1, <1>4, RemoveServerPreserves DEF ServerDataRefused, Receive

LEMMA HeirChunkLostPreserves ==
  ASSUME IInv, NEW c \in DOMAIN handlers, HeirChunkLost(c)
  PROVE  IInv'
<1> DEFINE chunk == AcquireChunk(pages, handlers[c].url, handlers[c].pos)
           h == [handlers[c] EXCEPT !.pos = @ + Len(chunk)]
<1>1. /\ handlers[c] \in Handler /\ RoleFits(handlers[c])
      /\ SlotIs("SERVER") /\ handlers[c].type = "HEIR"
      /\ CanAcquire(pages, handlers[c].url, handlers[c].pos)
  BY SlotFacts DEF HeirChunkLost, ServerSlot, CatchingUp
<1>2. Len(chunk) \in Nat
  <2>1. chunk \in Seq(Unit)
    BY <1>1, ChunkType DEF IInv, Handler
  <2>2. QED
    BY <2>1, LenProperties
<1>3. handlers' = [handlers EXCEPT ![c] = h]
  BY DEF HeirChunkLost
<1> HIDE DEF chunk
<1>4. h \in Handler /\ RoleFits(h) /\ h.server = handlers[c].server
  BY <1>1, <1>2 DEF Handler, RoleFits
<1> HIDE DEF h
<1>5. HandlersFit(handlers') /\ Served(sockets, handlers')
  BY <1>3, <1>4, HandlerChanges DEF IInv
<1>6. PagesFit(pages')
  BY DEF HeirChunkLost, IInv
<1>7. QED
  BY <1>1, <1>5, <1>6, RemoveServerPreserves DEF HeirChunkLost

LEMMA RemoveClientActionsPreserve ==
  ASSUME IInv, ReleaseFinished \/ DropClient \/ DropReader
  PROVE  IInv'
BY RemoveAsIsPreserves DEF ReleaseFinished, DropClient, DropReader

LEMMA ServerGonePreserves ==
  ASSUME IInv, ServerGone
  PROVE  IInv'
<1>1. HandlersFit(handlers') /\ Served(sockets, handlers') /\ PagesFit(pages')
  BY DEF ServerGone, IInv
<1>2. QED
  BY <1>1, RemoveServerPreserves DEF ServerGone

\* Nothing changes but where the loop is, or how the process is doing.
LEMMA LoopStepPreserves ==
  ASSUME IInv, NoAccept \/ PollFails \/ Halted \/ UNCHANGED vars
  PROVE  IInv'
<1>1. CASE NoAccept
  BY <1>1, NextSlotPreserves DEF NoAccept, IInv
<1>2. CASE PollFails
  BY <1>2 DEF PollFails, Die, IInv
<1>3. CASE Halted \/ UNCHANGED vars
  BY <1>3 DEF Halted, vars, IInv
<1>4. QED
  BY <1>1, <1>2, <1>3

-----------------------------------------------------------------------------
(* The theorems.                                                           *)

LEMMA InitIInv ==
  ASSUME Init
  PROVE  IInv
<1>1. /\ <<Listener>> \in Seq({Listener} \cup Fd)
      /\ Len(<<Listener>>) = 1 /\ <<Listener>>[1] = Listener
      /\ DOMAIN <<Listener>> = {1}
  OBVIOUS
<1>2. IsInjective(pollFds) /\ Range(pollFds) = {Listener}
  BY <1>1 DEF Init, IsInjective, Range
<1>3. Tables(pollFds, sockets, peer)
  BY <1>1, <1>2 DEF Init, Tables
<1>4. HandlersFit(handlers) /\ Served(sockets, handlers) /\ PagesFit(pages)
  BY DEF Init, HandlersFit, Served, PagesFit
<1>5. QED
  BY <1>1, <1>3, <1>4, BoundsAssumption DEF Init, IInv

LEMMA ClientNextPreserves ==
  ASSUME IInv, ClientNext
  PROVE  IInv'
<1>1. CASE ReleaseFinished \/ DropClient \/ DropReader
  BY <1>1, RemoveClientActionsPreserve
<1>2. CASE ClientIdle
  BY <1>2, IdlePreserves, SlotFacts DEF ClientIdle
<1>3. CASE ServeReader
  BY <1>3, ServeFromCachePreserves, SlotFacts DEF ServeReader
<1>4. CASE ServeHeir
  BY <1>4, ServeFromCachePreserves, SlotFacts DEF ServeHeir, CatchingUp
<1>5. ASSUME NEW u \in Urls,
             \/ RequestFromCache(u) \/ RequestFromServer(u)
             \/ ConnectFails(u) \/ SendRequestFails(u)
      PROVE  IInv'
  BY <1>5, RequestFromCachePreserves, RequestFromServerPreserves,
     ConnectFailsPreserves, SendRequestFailsPreserves
<1>6. QED
  BY <1>1, <1>2, <1>3, <1>4, <1>5 DEF ClientNext

LEMMA ServerNextPreserves ==
  ASSUME IInv, ServerNext
  PROVE  IInv'
<1>1. CASE ServerGone
  BY <1>1, ServerGonePreserves
<1>2. ASSUME NEW c \in DOMAIN handlers, ServerIdle(c)
      PROVE  IInv'
  BY <1>2, IdlePreserves DEF ServerIdle
<1>3. ASSUME NEW c \in DOMAIN handlers, ServerEof(c)
      PROVE  IInv'
  BY <1>3, ServerEofPreserves
<1>4. ASSUME NEW c \in DOMAIN handlers, ServeHeirFromServerSlot(c)
      PROVE  IInv'
  BY <1>4, ServeFromCachePreserves DEF ServeHeirFromServerSlot, CatchingUp
<1>5. ASSUME NEW c \in DOMAIN handlers, HeirChunkLost(c)
      PROVE  IInv'
  BY <1>5, HeirChunkLostPreserves
<1>6. ASSUME NEW c \in DOMAIN handlers, NEW n \in 1..RecvMax,
             NEW stored \in 0..n, NEW complete \in BOOLEAN,
             \/ ServerData(c, n, stored, complete)
             \/ ServerDataRefused(c, n, stored, complete)
      PROVE  IInv'
  <2>1. n \in Nat
    BY BoundsAssumption
  <2>2. QED
    BY <1>6, <2>1, ServerDataPreserves, ServerDataRefusedPreserves
<1>7. QED
  BY <1>1, <1>2, <1>3, <1>4, <1>5, <1>6 DEF ServerNext

LEMMA NextPreserves ==
  ASSUME IInv, [Next]_vars
  PROVE  IInv'
<1>1. CASE AcceptClient
  BY <1>1, AcceptClientPreserves
<1>2. CASE NoAccept \/ PollFails \/ Halted \/ UNCHANGED vars
  BY <1>2, LoopStepPreserves
<1>3. CASE ClientNext
  BY <1>3, ClientNextPreserves
<1>4. CASE ServerNext
  BY <1>4, ServerNextPreserves
<1>5. QED
  BY <1>1, <1>2, <1>3, <1>4 DEF Next, ListenerNext

\* The inductive invariant holds in every reachable state, whatever poll(),
\* recv(), send(), connect() and the parser answer launch().
THEOREM Invariance == Spec => []IInv
<1>1. Init => IInv
  BY InitIInv
<1>2. IInv /\ [Next]_vars => IInv'
  BY NextPreserves
<1>3. QED
  BY <1>1, <1>2, PTL DEF Spec

LEMMA IInvImplies ==
  ASSUME IInv
  PROVE  TypeOK /\ TablesAgree /\ SlotsHaveHandlers /\ RoleConsistent
<1>1. TypeOK
  BY DEF IInv, TypeOK, Tables, HandlersFit, PagesFit
<1>2. TablesAgree
  BY DEF IInv, TablesAgree, Tables
<1>3. SlotsHaveHandlers
  BY DEF IInv, SlotsHaveHandlers, Served, Owners
<1>4. RoleConsistent
  BY DEF IInv, RoleConsistent, HandlersFit
<1>5. QED
  BY <1>1, <1>2, <1>3, <1>4

\* The tables of launch(), the handlers and the pages keep their types.
THEOREM TypeCorrectness == Spec => []TypeOK
BY Invariance, IInvImplies, PTL

\* poll_fds, sockets and the kernel's open descriptors stay the same set,
\* whoever closes what, and the loop's index stays inside poll_fds.
THEOREM TableConsistency == Spec => []TablesAgree
BY Invariance, IInvImplies, PTL

\* launch(), removeClient() and findByServerSocket() always find the handler
\* they look up for a polled socket.
THEOREM EverySlotIsServed == Spec => []SlotsHaveHandlers
BY Invariance, IInvImplies, PTL

\* A handler's flags and sockets are those of its role, across becomeHeir,
\* becomeMaster and the failure of appendCache.
THEOREM RoleConsistency == Spec => []RoleConsistent
BY Invariance, IInvImplies, PTL
=============================================================================
