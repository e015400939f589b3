------------------------------- MODULE UrlGrammar -------------------------------
(***************************************************************************)
(* What a url is, said without the states of the parser: the reference it  *)
(* is checked against.  The parts of a url are sets of places in it,       *)
(* counted from 0 as offsets are; connect tells the url of a CONNECT.      *)
(***************************************************************************)
EXTENDS Url, Sequences

Field == {"SCHEMA", "HOST", "PORT", "PATH", "QUERY", "FRAGMENT", "USERINFO"}

At(url, i) == url[i + 1]

From(url, i) == i..(Len(url) - 1)

\* The first place from i on with one of bytes, or the end of the url.
FirstOf(url, bytes, i) ==
  CHOOSE k \in i..Len(url) :
    /\ k = Len(url) \/ At(url, k) \in bytes
    /\ \A j \in i..(k - 1) : At(url, j) \notin bytes

Only(url, places, bytes) == \A i \in places : At(url, i) \in bytes

\* A url is relative: a path; or has a schema and a server; or, that of
\* CONNECT, begins with a server.
Absolute(url) == Len(url) > 0 /\ At(url, 0) \in Alpha

ServerFrom(url, connect) == IF connect THEN 0 ELSE FirstOf(url, {":"}, 0) + 3

ServerEnd(url, connect) ==
  IF connect \/ Absolute(url)
  THEN FirstOf(url, {"/", "?"}, ServerFrom(url, connect)) ELSE 0

ServerPlaces(url, connect) ==
  IF connect \/ Absolute(url)
  THEN ServerFrom(url, connect)..(ServerEnd(url, connect) - 1) ELSE {}

SchemaPlaces(url, connect) ==
  IF ~connect /\ Absolute(url) THEN 0..(ServerFrom(url, connect) - 4) ELSE {}

SchemaOK(url, connect) ==
  ~connect /\ Absolute(url) =>
    LET i == FirstOf(url, {":"}, 0)
    IN  /\ Only(url, 0..(i - 1), Alpha)
        /\ i + 2 < Len(url) /\ At(url, i + 1) = "/" /\ At(url, i + 2) = "/"

\* Of the server: [userinfo @] host [: port], the host in brackets when it
\* is an address of IPv6.
AtSign(url, connect) ==
  {i \in ServerPlaces(url, connect) : At(url, i) = "@"}

HostFrom(url, connect) ==
  IF AtSign(url, connect) = {} THEN ServerFrom(url, connect)
  ELSE (CHOOSE i \in AtSign(url, connect) : TRUE) + 1

Bracketed(url, connect) ==
  HostFrom(url, connect) < ServerEnd(url, connect) /\ At(url, HostFrom(url, connect)) = "["

HostEnd(url, connect) ==
  LET e == ServerEnd(url, connect)
      k == FirstOf(url, IF Bracketed(url, connect) THEN {"]"} ELSE {":"},
                   HostFrom(url, connect))
  IN  IF k < e THEN k ELSE e

HostPlaces(url, connect) ==
  IF Bracketed(url, connect)
  THEN (HostFrom(url, connect) + 1)..(HostEnd(url, connect) - 1)
  ELSE HostFrom(url, connect)..(HostEnd(url, connect) - 1)

\* Where the host and its bracket end.
HostClosed(url, connect) ==
  HostEnd(url, connect) + IF Bracketed(url, connect) THEN 1 ELSE 0

PortPlaces(url, connect) ==
  (HostClosed(url, connect) + 1)..(ServerEnd(url, connect) - 1)

\* An address of IPv6, and a zone after it.
AddressOK(url, first, last) ==
  LET k == FirstOf(url, {"%", "]"}, first)
  IN  /\ first < k /\ Only(url, first..(k - 1), Hex \cup {":", "."})
      /\ k <= last => k < last /\ Only(url, (k + 1)..last, ZoneChar)

PortValue(url, places) ==
  LET worth[i \in places] ==
        MinusZero[At(url, i)] + 10 * IF i - 1 \in places THEN worth[i - 1] ELSE 0
  IN  IF places = {} THEN 0
      ELSE worth[CHOOSE i \in places : i + 1 \notin places]

ServerOK(url, connect, max_port) ==
  connect \/ Absolute(url) =>
    /\ \A i, j \in AtSign(url, connect) : i = j
    /\ Only(url, ServerFrom(url, connect)..(HostFrom(url, connect) - 2), UserinfoChar)
    /\ HostPlaces(url, connect) # {}
    /\ IF Bracketed(url, connect)
       THEN /\ HostEnd(url, connect) < ServerEnd(url, connect)
            /\ AddressOK(url, HostFrom(url, connect) + 1, HostEnd(url, connect) - 1)
       ELSE Only(url, HostPlaces(url, connect), HostChar)
    /\ HostClosed(url, connect) < ServerEnd(url, connect) =>
         /\ At(url, HostClosed(url, connect)) = ":"
         /\ PortPlaces(url, connect) # {}
         /\ Only(url, PortPlaces(url, connect), Num)
         /\ PortValue(url, PortPlaces(url, connect)) <= max_port

\* After the server: [path] [? query] [# fragment].
PathEnd(url, connect) == FirstOf(url, {"?", "#"}, ServerEnd(url, connect))

QueryEnd(url, connect) == FirstOf(url, {"#"}, ServerEnd(url, connect))

\* Any number of # stand before a fragment.
FragmentFrom(url, connect) ==
  FirstOf(url, UrlByte \ {"#"}, QueryEnd(url, connect))

RestOK(url, connect) ==
  /\ ~connect /\ ~Absolute(url) => Len(url) > 0 /\ At(url, 0) \in {"/", "*"}
  /\ Only(url, From(url, ServerEnd(url, connect)), UrlByte \ {"bad"})

Parts(url, connect) ==
  [SCHEMA   |-> SchemaPlaces(url, connect),
   HOST     |-> IF connect \/ Absolute(url) THEN HostPlaces(url, connect) ELSE {},
   PORT     |-> IF connect \/ Absolute(url) THEN PortPlaces(url, connect) ELSE {},
   PATH     |-> ServerEnd(url, connect)..(PathEnd(url, connect) - 1),
   QUERY    |-> (PathEnd(url, connect) + 1)..(QueryEnd(url, connect) - 1),
   FRAGMENT |-> From(url, FragmentFrom(url, connect)),
   USERINFO |-> IF connect \/ Absolute(url)
                THEN ServerFrom(url, connect)..(HostFrom(url, connect) - 2) ELSE {}]

\* The url of CONNECT is a host and a port.
WellFormed(url, connect, max_port) ==
  /\ SchemaOK(url, connect)
  /\ ServerOK(url, connect, max_port)
  /\ RestOK(url, connect)
  /\ connect => {f \in Field : Parts(url, connect)[f] # {}} = {"HOST", "PORT"}
=============================================================================
