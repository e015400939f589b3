------------------------------ MODULE PageStore ------------------------------
(***************************************************************************)
(* What the proxy promises of its cache, whoever loads, reads or leaves:   *)
(* a step touches one page; a page only ever grows at its end, and once    *)
(* complete it is neither reopened nor dropped.  How many handlers append  *)
(* to a page, and who reads it, is not visible here.                       *)
(***************************************************************************)
EXTENDS Sequences, SequencesExt

CONSTANT Urls

VARIABLE pages \* url -> [data, full], for the urls that have a page

Data(url) == IF url \in DOMAIN pages THEN pages[url].data ELSE <<>>

Complete(url) == url \in DOMAIN pages /\ pages[url].full

OthersKept(url) ==
  \A u \in DOMAIN pages \ {url} : u \in DOMAIN pages' /\ pages'[u] = pages[u]

\* Create the page of url, append to it, complete it, or any of these at once.
Grow(url) ==
  /\ DOMAIN pages' = DOMAIN pages \cup {url}
  /\ IsPrefix(Data(url), pages'[url].data)
  /\ Complete(url) => pages'[url].full
  /\ OthersKept(url)

\* Give up a page that nobody is going to complete.
Drop(url) ==
  /\ url \in DOMAIN pages
  /\ ~Complete(url)
  /\ DOMAIN pages' = DOMAIN pages \ {url}
  /\ OthersKept(url)

Init == pages = [u \in {} |-> <<>>]

Next == \E url \in Urls : Grow(url) \/ Drop(url)

Spec == Init /\ [][Next]_pages
=============================================================================
