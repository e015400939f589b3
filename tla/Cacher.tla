------------------------------- MODULE Cacher -------------------------------
(***************************************************************************)
(* The response cache of the proxy (src/casher/Casher.cpp) as operators on *)
(* the map of its pages.  A page is the sequence of response units stored  *)
(* so far, in the order they were appended, and its fully_loaded flag.     *)
(*                                                                         *)
(* A unit stands for the bytes one recv() can return; ChunkSize is         *)
(* CACHE_CHUNK_SIZE, the most one acquireChunk() call copies, in units.    *)
(***************************************************************************)
EXTENDS Naturals, Sequences, SequencesExt

CONSTANT ChunkSize

ASSUME ChunkSizeAssumption == ChunkSize \in Nat \ {0}

EmptyPage == [data |-> <<>>, full |-> FALSE]

\* A map with an entry set, std::map::insert (which keeps an entry that is
\* already there), and a map without some of its entries.
Put(f, k, v) == [x \in DOMAIN f \cup {k} |-> IF x = k THEN v ELSE f[x]]
Insert(f, k, v) == IF k \in DOMAIN f THEN f ELSE Put(f, k, v)
Erase(f, S) == Restrict(f, DOMAIN f \ S)

IsCached(pages, url) == url \in DOMAIN pages

IsFullyLoaded(pages, url) == IsCached(pages, url) /\ pages[url].full

PageOrNew(pages, url) ==
  IF IsCached(pages, url) THEN pages[url] ELSE EmptyPage

\* The page is inserted before the bytes are copied: an append whose copy
\* runs out of memory at once still leaves an empty page behind.
AppendCache(pages, url, units) ==
  Put(pages, url, [PageOrNew(pages, url) EXCEPT !.data = @ \o units])

\* Fault: the flag is never set.
SetNothing(pages, url) == pages

\* PageNotFound leaves the cache alone, and no caller looks at it.
SetFullyLoaded(pages, url) ==
  IF IsCached(pages, url) THEN [pages EXCEPT ![url].full = TRUE] ELSE pages

\* acquireChunk answers OK: neither PageNotFound nor InvalidPosition.
CanAcquire(pages, url, position) ==
  IsCached(pages, url) /\ position <= Len(pages[url].data)

AcquireChunk(pages, url, position) ==
  LET size == Len(pages[url].data)
  IN  SubSeq(pages[url].data, position + 1, Min({size, position + ChunkSize}))

\* pages.at(url) throws when there is no page.
DeletePageThrows(pages, url) == ~IsCached(pages, url)

DeletePage(pages, url) == Erase(pages, {url})
=============================================================================
