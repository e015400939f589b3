------------------------------- MODULE UrlParser -------------------------------
(***************************************************************************)
(* http_parser_parse_url: three loops over the bytes of a url, that find   *)
(* its fields, take its server apart, and read its port.  An action is one *)
(* pass of a loop, or what is done when a loop ends.                       *)
(*                                                                         *)
(* The bytes of buf are chosen as the first loop gets to them: what the    *)
(* call does before it looks at a byte does not depend on it.              *)
(***************************************************************************)
EXTENDS UrlGrammar

CONSTANTS Width,    \* of an offset or length: uint16_t holds 0..(Width - 1)
          MaxPort,  \* 0xffff
          Starts,   \* how urls begin, and bound on how they go on
          Rests     \* what may follow the byte that the first loop stops at

\* A url is text and then at most more of bytes.
Start == [text : Seq(UrlByte), bytes : SUBSET UrlByte, more : Nat]

ASSUME UrlAssumption ==
  /\ Width \in Nat \ {0, 1} /\ MaxPort \in Nat
  /\ Starts \subseteq Start
  /\ Rests \subseteq Seq(UrlByte)

VARIABLES buf,         \* the bytes of the url that are known so far
          is_connect,
          pc,          \* the loop that is running, or "done"
          p,           \* the place the loop is at
          s,           \* enum state, then enum http_host_state
          u,           \* the http_parser_url
          old_uf,      \* the field of the byte before
          found_at,
          buflen,      \* the end of the host, then of the port
          v,           \* the port so far
          ret          \* what the call returns

vars == <<buf, is_connect, pc, p, s, u, old_uf, found_at, buflen, v, ret>>

NoField == "UF_MAX"

HostState == {"userinfo_start", "userinfo", "host_start", "host_v6_start",
              "host", "host_v6", "host_v6_end", "host_v6_zone_start",
              "host_v6_zone", "host_port_start", "host_port", "host_dead"}

\* http_parser_url_init.
NoUrl == [set |-> {}, off |-> [f \in Field |-> 0], len |-> [f \in Field |-> 0],
          port |-> 0]

Init ==
  /\ buf \in {start.text : start \in Starts}
  /\ is_connect \in BOOLEAN
  /\ pc = "fields"
  /\ p = 0
  /\ s = IF is_connect THEN "server_start" ELSE "spaces_before_url"
  /\ u = NoUrl
  /\ old_uf = NoField
  /\ found_at = FALSE
  /\ buflen = 0
  /\ v = 0
  /\ ret = 0

Returns(r) == pc' = "done" /\ ret' = r

\* Fault: the first byte of a port is counted twice.
BeginTwice(w, f, i) ==
  [w EXCEPT !.set = @ \cup {f}, !.off[f] = i % Width,
            !.len[f] = IF f = "PORT" THEN 2 ELSE 1]

\* u->field_data[f], of which a byte at place i is the first, or one more.
Begin(w, f, i) ==
  [w EXCEPT !.set = @ \cup {f}, !.off[f] = i % Width, !.len[f] = 1]

More(w, f) == [w EXCEPT !.len[f] = (@ + 1) % Width]

-----------------------------------------------------------------------------
(* The fields.                                                             *)

Delimiter == {"schema_slash", "schema_slash_slash", "server_start",
              "query_string_start", "fragment_start"}

FieldOf ==
  [schema |-> "SCHEMA", server_with_at |-> "HOST", server |-> "HOST",
   path |-> "PATH", query_string |-> "QUERY", fragment |-> "FRAGMENT"]

\* The url has one byte more, which is c.
MayGoOn(c) ==
  \E start \in Starts :
    /\ c \in start.bytes
    /\ Len(start.text) <= Len(buf) /\ Len(buf) < Len(start.text) + start.more
    /\ SubSeq(buf, 1, Len(start.text)) = start.text

\* The byte at p is c.
Reads(c) ==
  \/ p < Len(buf) /\ At(buf, p) = c /\ UNCHANGED buf
  \/ p = Len(buf) /\ MayGoOn(c) /\ buf' = Append(buf, c)

FieldsDead(c) ==
  /\ pc = "fields"
  /\ ParseUrlChar(s, c) = "dead"
  /\ \/ p < Len(buf) /\ At(buf, p) = c /\ UNCHANGED buf
     \/ /\ p = Len(buf) /\ MayGoOn(c)
        /\ \E rest \in Rests : buf' = Append(buf, c) \o rest
  /\ Returns(1)
  /\ UNCHANGED <<is_connect, p, s, u, old_uf, found_at, buflen, v>>

FieldsDelimiter(c) ==
  /\ pc = "fields"
  /\ Reads(c)
  /\ ParseUrlChar(s, c) \in Delimiter
  /\ s' = ParseUrlChar(s, c)
  /\ p' = p + 1
  /\ UNCHANGED <<is_connect, pc, u, old_uf, found_at, buflen, v, ret>>

FieldsByte(c) ==
  /\ pc = "fields"
  /\ Reads(c)
  /\ ParseUrlChar(s, c) \in DOMAIN FieldOf
  /\ s' = ParseUrlChar(s, c)
  /\ found_at' = (found_at \/ s' = "server_with_at")
  /\ LET uf == FieldOf[s']
     IN  /\ u' = IF uf = old_uf THEN More(u, uf) ELSE Begin(u, uf, p)
         /\ old_uf' = uf
  /\ p' = p + 1
  /\ UNCHANGED <<is_connect, pc, buflen, v, ret>>

\* The last tests, and the loop over the port when there is one.
ToPort(w) ==
  IF is_connect /\ w.set # {"HOST", "PORT"} THEN Returns(1) /\ UNCHANGED <<p, buflen>>
  ELSE IF "PORT" \in w.set
  THEN /\ pc' = "port" /\ UNCHANGED ret
       /\ p' = w.off["PORT"]
       /\ buflen' = w.off["PORT"] + w.len["PORT"]
  ELSE Returns(0) /\ UNCHANGED <<p, buflen>>

SchemaWithoutHost == "SCHEMA" \in u.set /\ "HOST" \notin u.set

FieldsEnd ==
  /\ pc = "fields"
  /\ p = Len(buf)
  /\ IF p = 0 \/ SchemaWithoutHost
     THEN Returns(1) /\ UNCHANGED <<p, s, u, buflen>>
     ELSE IF "HOST" \in u.set
     THEN /\ pc' = "host" /\ UNCHANGED ret
          /\ s' = IF found_at THEN "userinfo_start" ELSE "host_start"
          /\ p' = u.off["HOST"]
          /\ buflen' = u.off["HOST"] + u.len["HOST"]
          /\ u' = [u EXCEPT !.len["HOST"] = 0]
     ELSE ToPort(u) /\ UNCHANGED <<s, u>>
  /\ UNCHANGED <<buf, is_connect, old_uf, found_at, v>>

-----------------------------------------------------------------------------
(* The server: http_parse_host.                                            *)

ParseHostChar(t, ch) ==
  CASE t \in {"userinfo_start", "userinfo"} /\ ch = "@" -> "host_start"
    [] t \in {"userinfo_start", "userinfo"} /\ ch \in UserinfoChar -> "userinfo"
    [] t = "host_start" /\ ch = "[" -> "host_v6_start"
    [] t \in {"host_start", "host"} /\ ch \in HostChar -> "host"
    [] t \in {"host", "host_v6_end"} /\ ch = ":" -> "host_port_start"
    [] t \in {"host_v6", "host_v6_zone"} /\ ch = "]" -> "host_v6_end"
    [] t \in {"host_v6_start", "host_v6"} /\ ch \in Hex \cup {":", "."} -> "host_v6"
    [] t = "host_v6" /\ ch = "%" -> "host_v6_zone_start"
    [] t \in {"host_v6_zone_start", "host_v6_zone"} /\ ch \in ZoneChar -> "host_v6_zone"
    [] t \in {"host_port_start", "host_port"} /\ ch \in Num -> "host_port"
    [] OTHER -> "host_dead"

\* Fault: the offset of a host is not set anew.
HostFieldKept(t, i) ==
  CASE t \in {"host", "host_v6", "host_v6_zone_start", "host_v6_zone"} -> More(u, "HOST")
    [] t = "host_port" -> IF s = t THEN More(u, "PORT") ELSE Begin(u, "PORT", i)
    [] t = "userinfo" -> IF s = t THEN More(u, "USERINFO") ELSE Begin(u, "USERINFO", i)
    [] OTHER -> u

\* The byte at i goes to the field of the state t that it leads to; the host
\* is in the set already, and its length was reset when the loop began.
HostField(t, i) ==
  CASE t \in {"host", "host_v6"} ->
         More(IF s = t THEN u ELSE [u EXCEPT !.off["HOST"] = i % Width], "HOST")
    [] t \in {"host_v6_zone_start", "host_v6_zone"} -> More(u, "HOST")
    [] t = "host_port" -> IF s = t THEN More(u, "PORT") ELSE Begin(u, "PORT", i)
    [] t = "userinfo" -> IF s = t THEN More(u, "USERINFO") ELSE Begin(u, "USERINFO", i)
    [] OTHER -> u

HostByte ==
  /\ pc = "host"
  /\ p < buflen
  /\ LET t == ParseHostChar(s, At(buf, p))
     IN  IF t = "host_dead"
         THEN Returns(1) /\ UNCHANGED <<p, s, u>>
         ELSE /\ u' = HostField(t, p)
              /\ s' = t
              /\ p' = p + 1
              /\ UNCHANGED <<pc, ret>>
  /\ UNCHANGED <<buf, is_connect, old_uf, found_at, buflen, v>>

\* Fault: a host may end after its colon.
HostEndsAfterColon ==
  {"host_start", "host_v6_start", "host_v6", "host_v6_zone_start",
   "host_v6_zone", "userinfo", "userinfo_start"}

HostEndsNowhere ==
  {"host_start", "host_v6_start", "host_v6", "host_v6_zone_start",
   "host_v6_zone", "host_port_start", "userinfo", "userinfo_start"}

HostLoopEnd ==
  /\ pc = "host"
  /\ p >= buflen
  /\ IF s \in HostEndsNowhere THEN Returns(1) /\ UNCHANGED <<p, buflen>> ELSE ToPort(u)
  /\ UNCHANGED <<buf, is_connect, s, u, old_uf, found_at, v>>

-----------------------------------------------------------------------------
(* The port.                                                               *)

\* Fault: the limit is tested before the digit is added.
PortByteLate ==
  /\ pc = "port"
  /\ p < buflen
  /\ IF v > MaxPort
     THEN Returns(1) /\ UNCHANGED <<p, v>>
     ELSE v' = v * 10 + MinusZero[At(buf, p)] /\ p' = p + 1 /\ UNCHANGED <<pc, ret>>
  /\ UNCHANGED <<buf, is_connect, s, u, old_uf, found_at, buflen>>

\* v is unsigned long: below 0 it wraps, and is larger than any port.
PortByte ==
  /\ pc = "port"
  /\ p < buflen
  /\ LET w == v * 10 + MinusZero[At(buf, p)]
     IN  IF w < 0 \/ w > MaxPort
         THEN Returns(1) /\ UNCHANGED <<p, v>>
         ELSE v' = w /\ p' = p + 1 /\ UNCHANGED <<pc, ret>>
  /\ UNCHANGED <<buf, is_connect, s, u, old_uf, found_at, buflen>>

PortEnd ==
  /\ pc = "port"
  /\ p = buflen
  /\ u' = [u EXCEPT !.port = v]
  /\ Returns(0)
  /\ UNCHANGED <<buf, is_connect, p, s, old_uf, found_at, buflen, v>>

Done == pc = "done" /\ UNCHANGED vars

Next ==
  \/ \E c \in UrlByte : FieldsDead(c) \/ FieldsDelimiter(c) \/ FieldsByte(c)
  \/ FieldsEnd \/ HostByte \/ HostLoopEnd \/ PortByte \/ PortEnd
  \/ Done

Spec == Init /\ [][Next]_vars

-----------------------------------------------------------------------------
(* Properties.                                                             *)

\* The types of the variables.
TypeOK ==
  /\ buf \in Seq(UrlByte)
  /\ is_connect \in BOOLEAN /\ found_at \in BOOLEAN
  /\ pc \in {"fields", "host", "port", "done"}
  /\ p \in Nat /\ buflen \in Nat
  /\ s \in UrlState \cup HostState
  /\ u \in [set : SUBSET Field, off : [Field -> 0..(Width - 1)],
             len : [Field -> 0..(Width - 1)], port : 0..MaxPort]
  /\ old_uf \in Field \cup {NoField}
  /\ v \in 0..MaxPort
  /\ ret \in {0, 1}

FieldPlaces(f) == u.off[f]..(u.off[f] + u.len[f] - 1)

\* The assert()s hold for every url: the first loop is never in a state it
\* does not expect, a server is taken apart only if there is one, and a port
\* lies inside the url.
AssertsHold ==
  /\ pc = "fields" => s # "dead" /\ (p > 0 => s \in Delimiter \cup DOMAIN FieldOf)
  /\ pc = "host" => "HOST" \in u.set
  /\ pc = "port" => buflen <= Len(buf)

\* Offsets and lengths hold every place of the url.
Fits == Len(buf) < Width

\* At every step of the loops the fields found so far lie in the part of the
\* url that was read, do not overlap, and what the host loop reads is what
\* the first loop took for the server: no byte of the path, even though the
\* length of the host is counted anew.
FieldsApart ==
  Fits =>
    /\ \A f \in u.set : FieldPlaces(f) \subseteq 0..(Len(buf) - 1)
    /\ \A f, g \in u.set : f # g => FieldPlaces(f) \cap FieldPlaces(g) = {}
    /\ pc = "fields" => \A f \in u.set : u.off[f] + u.len[f] <= p
    /\ pc = "host" /\ "PATH" \in u.set => buflen <= u.off["PATH"]

\* The call accepts just the urls of the grammar, and its fields and port
\* are then the parts the grammar says.  A field that is not in the set has
\* no bytes.
ResultIsTheGrammar ==
  pc = "done" /\ Fits =>
    /\ ret = 0 <=> WellFormed(buf, is_connect, MaxPort)
    /\ ret = 0 =>
         /\ \A f \in Field :
              Parts(buf, is_connect)[f] = IF f \in u.set THEN FieldPlaces(f) ELSE {}
         /\ u.port = PortValue(buf, Parts(buf, is_connect)["PORT"])

\* http_parser.c:2526 says of the port: "The characters are already validated
\* and are in the [0-9] range".  They are in urls whose places an offset
\* holds; in a longer one (a request line may have 80 * 1024 bytes) the loop
\* reads bytes at the front of the url.
PortCharsAreDigits ==
  Fits /\ pc = "port" /\ p < buflen => p < Len(buf) /\ At(buf, p) \in Num
=============================================================================
