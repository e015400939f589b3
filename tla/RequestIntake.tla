----------------------------- MODULE RequestIntake -----------------------------
(***************************************************************************)
(* What the proxy relies on when it takes a request in: the url it looks   *)
(* the page and the server up by is put together from the front, every     *)
(* byte of it once, is whole when the request is said to be there, and     *)
(* stays as it is from then on.  A request may be refused at any time.     *)
(***************************************************************************)
EXTENDS Integers, Sequences

VARIABLES target,  \* the url as the request line has it
          url,     \* what is known of it
          ready,   \* the request is there
          refused

vars == <<target, url, ready, refused>>

Prefixes == {SubSeq(target, 1, n) : n \in Len(url)..Len(target)}

Init == url = <<>> /\ ready = FALSE /\ refused = FALSE

Learn ==
  /\ ~ready /\ ~refused
  /\ url' \in Prefixes
  /\ UNCHANGED <<target, ready, refused>>

Complete ==
  /\ ~ready /\ ~refused
  /\ url = target
  /\ ready' = TRUE
  /\ UNCHANGED <<target, url, refused>>

\* The call that finds a request bad may have learnt more of it, or that it
\* is complete.
Refuse ==
  /\ ~refused
  /\ refused' = TRUE
  /\ url' \in IF ready THEN {url} ELSE Prefixes
  /\ ready' \in {ready} \cup IF url = target THEN {TRUE} ELSE {}
  /\ UNCHANGED target

Next == Learn \/ Complete \/ Refuse

Spec == Init /\ [][Next]_vars
=============================================================================
