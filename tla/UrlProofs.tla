------------------------------- MODULE UrlProofs -------------------------------
(***************************************************************************)
(* The properties of UrlParser that speak of offsets and lengths, for      *)
(* urls of any length and for every width of an offset.                    *)
(*                                                                         *)
(* Safe says that the call stays inside the url, however long it is;       *)
(* Laid says how the fields lie while offsets do not wrap.                 *)
(***************************************************************************)
EXTENDS UrlParser, TLAPS

EndOf(f) == u.off[f] + u.len[f]

ServerField == {"USERINFO", "HOST", "PORT"}

TailField == {"PATH", "QUERY", "FRAGMENT"}

\* No byte of the host was seen yet.
HostAhead == {"userinfo_start", "userinfo", "host_start", "host_v6_start"}

\* The states of a run, and a url whose bytes were accepted so far.
StatesFit ==
  /\ pc = "fields" => /\ s \in UrlState \ {"dead"}
                      /\ p > 0 => s \in Delimiter \cup DOMAIN FieldOf
  /\ pc = "host" => /\ s \in HostState \ {"host_dead"} /\ "HOST" \in u.set
                    /\ s \in HostAhead => u.len["HOST"] = 0

Accepted ==
  /\ pc = "fields" => \A i \in 1..p : buf[i] # "bad"
  /\ pc \in {"host", "port"} => \A i \in 1..Len(buf) : buf[i] # "bad"

\* A wrapped offset is too small, never too large.
InsideUrl ==
  /\ pc = "fields" => /\ p <= Len(buf) /\ \A f \in Field : EndOf(f) <= p
                      /\ \A f \in {"PORT", "USERINFO"} : f \notin u.set /\ EndOf(f) = 0
  /\ pc = "host" => /\ p <= Len(buf) /\ buflen <= Len(buf)
                    /\ \A f \in ServerField : EndOf(f) <= p
  /\ pc = "port" => buflen <= Len(buf)
  /\ \A f \in Field : EndOf(f) <= Len(buf)

Safe == TypeOK /\ StatesFit /\ Accepted /\ InsideUrl

\* The order of the fields in a url.
Rank == [f \in Field |->
           CASE f = "SCHEMA" -> 1 [] f = "USERINFO" -> 2 [] f = "HOST" -> 3
             [] f = "PORT" -> 4 [] f = "PATH" -> 5 [] f = "QUERY" -> 6
             [] f = "FRAGMENT" -> 7]

\* The fields that may be found when the first loop is in state t.
Found(t) ==
  CASE t = "spaces_before_url" -> {}
    [] t \in {"schema", "schema_slash", "schema_slash_slash", "server_start"} ->
         {"SCHEMA"}
    [] t \in {"server", "server_with_at"} -> {"SCHEMA", "HOST"}
    [] t \in {"path", "query_string_start"} -> {"SCHEMA", "HOST", "PATH"}
    [] t \in {"query_string", "fragment_start"} -> {"SCHEMA", "HOST", "PATH", "QUERY"}
    [] OTHER -> {"SCHEMA", "HOST", "PATH", "QUERY", "FRAGMENT"}

\* A length of zero is that of a host that is yet to be counted anew.
InOrder ==
  \A f, g \in u.set : Rank[f] < Rank[g] /\ u.len[g] > 0 => EndOf(f) <= u.off[g]

\* In the first loop the field of the state, and no other, goes on at p.
FieldsLaid ==
  /\ u.set \subseteq Found(s)
  /\ old_uf \in u.set \cup {NoField}
  /\ \A f \in u.set : u.len[f] > 0
  /\ s \in DOMAIN FieldOf =>
       old_uf = FieldOf[s] /\ FieldOf[s] \in u.set /\ EndOf(FieldOf[s]) = p

\* In the loop over the server: what comes before it ends before p, what comes
\* after it begins after buflen.
HostLaid ==
  /\ p <= buflen
  /\ "SCHEMA" \in u.set => EndOf("SCHEMA") <= p
  /\ \A f \in u.set \cap TailField : buflen <= u.off[f]
  /\ \A f \in u.set : u.len[f] > 0 \/ (f = "HOST" /\ s \in HostAhead)
  /\ s \in {"host", "host_v6", "host_v6_zone_start", "host_v6_zone"} =>
       EndOf("HOST") = p
  /\ s = "userinfo" => "USERINFO" \in u.set /\ EndOf("USERINFO") = p
  /\ s = "userinfo_start" => "USERINFO" \notin u.set
  /\ IF s = "host_port" THEN "PORT" \in u.set /\ EndOf("PORT") = p
     ELSE "PORT" \notin u.set

PortIsDigits ==
  "PORT" \in u.set => \A i \in FieldPlaces("PORT") : At(buf, i) \in Num

Laid ==
  Fits =>
    /\ InOrder /\ PortIsDigits
    /\ pc = "fields" => FieldsLaid
    /\ pc = "host" => HostLaid
    /\ pc = "port" => u.off["PORT"] <= p /\ buflen = EndOf("PORT") /\ "PORT" \in u.set

IInv == Safe /\ Laid

-----------------------------------------------------------------------------
(* What a byte does.                                                       *)

FieldState == {"schema", "server_with_at", "server", "path", "query_string", "fragment"}

LEMMA FieldOfDomain ==
  /\ DOMAIN FieldOf = FieldState
  /\ \A t \in FieldState : FieldOf[t] \in Field \ {"PORT", "USERINFO"}
BY DEF FieldOf, FieldState, Field

\* Where the first loop may come to with a byte.
LEMMA CharStep ==
  ASSUME NEW t \in UrlState \ {"dead"}, NEW c \in UrlByte,
         ParseUrlChar(t, c) # "dead"
  PROVE  /\ ParseUrlChar(t, c) \in Delimiter \cup DOMAIN FieldOf
         /\ ParseUrlChar(t, c) \in UrlState \ {"dead"}
         /\ c # "bad"
         /\ Found(t) \subseteq Found(ParseUrlChar(t, c))
<1> DEFINE n == ParseUrlChar(t, c)
<1>1. n \in Delimiter \cup FieldState
  BY DEF ParseUrlChar, Delimiter, FieldState
<1>2. n \in UrlState \ {"dead"}
  BY <1>1 DEF UrlState, Delimiter, FieldState
<1>3. c # "bad"
  BY DEF ParseUrlChar, UrlChar, UserinfoChar, AlphaNum, Alpha, Num
<1>4. Found(t) \subseteq Found(n)
  BY DEF ParseUrlChar, UrlState, Server, Found
<1> QED BY <1>1, <1>2, <1>3, <1>4, FieldOfDomain

\* A field goes on, or one begins that was not found and is after all that were.
LEMMA CharField ==
  ASSUME NEW t \in UrlState \ {"dead"}, NEW c \in UrlByte,
         ParseUrlChar(t, c) \in DOMAIN FieldOf
  PROVE  LET f == FieldOf[ParseUrlChar(t, c)]
         IN  /\ f \in Found(ParseUrlChar(t, c))
             /\ f \notin Found(t) \/ (t \in DOMAIN FieldOf /\ FieldOf[t] = f)
             /\ \A g \in Found(t) : Rank[g] <= Rank[f]
<1> DEFINE n == ParseUrlChar(t, c)
           f == FieldOf[n]
<1>1. n \in FieldState BY FieldOfDomain
<1>2. \/ n = "schema" /\ f = "SCHEMA" /\ t \in {"spaces_before_url", "schema"}
      \/ n \in {"server", "server_with_at"} /\ f = "HOST" /\ t \in Server
      \/ n = "path" /\ f = "PATH" /\ t \in Server \cup {"spaces_before_url", "path"}
      \/ n = "query_string" /\ f = "QUERY" /\ t \in {"query_string_start", "query_string"}
      \/ n = "fragment" /\ f = "FRAGMENT" /\ t \in {"fragment_start", "fragment"}
  <2>1. \/ n = "schema" /\ t \in {"spaces_before_url", "schema"}
        \/ n \in {"server", "server_with_at"} /\ t \in Server
        \/ n = "path" /\ t \in Server \cup {"spaces_before_url", "path"}
        \/ n = "query_string" /\ t \in {"query_string_start", "query_string"}
        \/ n = "fragment" /\ t \in {"fragment_start", "fragment"}
    BY <1>1 DEF ParseUrlChar, FieldState, Server
  <2> QED BY <2>1 DEF FieldOf
<1>3. f \in Found(n) BY <1>2 DEF Found
<1>4. f \notin Found(t) \/ (t \in FieldState /\ FieldOf[t] = f)
  BY <1>2 DEF Found, FieldOf, FieldState, Server
<1>5. \A g \in Found(t) : Rank[g] <= Rank[f]
  BY <1>2 DEF Found, Rank, Field, Server
<1> QED BY <1>3, <1>4, <1>5, FieldOfDomain

LEMMA HostCharStep ==
  ASSUME NEW t \in HostState \ {"host_dead"}, NEW c \in UrlByte,
         ParseHostChar(t, c) # "host_dead"
  PROVE  LET n == ParseHostChar(t, c)
         IN  /\ n \in HostState \ {"host_dead"}
             /\ n = "host" => t \in {"host_start", "host"}
             /\ n = "host_v6" => t \in {"host_v6_start", "host_v6"}
             /\ n = "host_v6_start" => t = "host_start"
             /\ n = "host_start" => t \in {"userinfo_start", "userinfo"}
             /\ n = "host_v6_zone_start" => t = "host_v6"
             /\ n = "host_v6_zone" => t \in {"host_v6_zone_start", "host_v6_zone"}
             /\ n = "userinfo" => t \in {"userinfo_start", "userinfo"}
             /\ n # "userinfo_start"
             /\ n = "host_port" => t \in {"host_port_start", "host_port"} /\ c \in Num
             /\ n = "host_port_start" => t \in {"host", "host_v6_end"}
             /\ n = "host_v6_end" => t \in {"host_v6", "host_v6_zone"}
BY DEF ParseHostChar, HostState

LEMMA MinusZeroInt == ASSUME NEW c \in UrlByte, c # "bad" PROVE MinusZero[c] \in Int
<1>1. c \in UrlByte \ {"bad"} OBVIOUS
<1> QED BY <1>1 DEF MinusZero

LEMMA SmallMod ==
  ASSUME NEW i \in Nat, NEW n \in Nat, i < n PROVE i % n = i
OBVIOUS

LEMMA RankInt ==
  \A f \in Field : Rank[f] \in Int /\ ~(Rank[f] < Rank[f])
BY DEF Rank, Field

\* What is not after a field of the server is the schema, or of the server.
LEMMA RankOfServer ==
  ASSUME NEW f \in ServerField, NEW g \in Field
  PROVE  /\ Rank[f] < Rank[g] => g # f /\ g # "SCHEMA"
         /\ Rank[g] < Rank[f] => g \in ServerField \cup {"SCHEMA"}
<1>1. /\ Rank["SCHEMA"] = 1 /\ Rank["USERINFO"] = 2 /\ Rank["HOST"] = 3
      /\ Rank["PORT"] = 4 /\ Rank["PATH"] = 5 /\ Rank["QUERY"] = 6
      /\ Rank["FRAGMENT"] = 7
  BY DEF Rank, Field
<1> QED BY <1>1 DEF Field, ServerField

LEMMA RankApart == \A f, g \in Field : f # g => Rank[f] < Rank[g] \/ Rank[g] < Rank[f]
BY DEF Rank, Field

-----------------------------------------------------------------------------
(* The call stays inside the url.                                          *)

URecord == [set : SUBSET Field, off : [Field -> 0..(Width - 1)],
            len : [Field -> 0..(Width - 1)], port : 0..MaxPort]

LEMMA BeginType ==
  ASSUME NEW w \in URecord, NEW f \in Field, NEW i \in Nat
  PROVE  LET b == Begin(w, f, i)
         IN  /\ b \in URecord
             /\ b.set = w.set \cup {f} /\ b.port = w.port
             /\ b.off[f] = i % Width /\ b.len[f] = 1
             /\ \A g \in Field \ {f} : b.off[g] = w.off[g] /\ b.len[g] = w.len[g]
             /\ b.off[f] + b.len[f] <= i + 1
             /\ i < Width => b.off[f] = i
<1>1. i % Width \in 0..(Width - 1) /\ i % Width <= i /\ (i < Width => i % Width = i)
  BY UrlAssumption
<1>2. 1 \in 0..(Width - 1) BY UrlAssumption
<1> DEFINE b == Begin(w, f, i)
<1>3. /\ b.set = w.set \cup {f} /\ b.port = w.port
      /\ b.off[f] = i % Width /\ b.len[f] = 1
      /\ \A g \in Field \ {f} : b.off[g] = w.off[g] /\ b.len[g] = w.len[g]
  BY DEF Begin, URecord
<1>4. b \in URecord
  BY <1>1, <1>2 DEF Begin, URecord
<1>5. b.off[f] + b.len[f] <= i + 1 /\ (i < Width => b.off[f] = i)
  BY <1>1, <1>3
<1> QED BY <1>3, <1>4, <1>5

LEMMA MoreType ==
  ASSUME NEW w \in URecord, NEW f \in Field
  PROVE  LET b == More(w, f)
         IN  /\ b \in URecord
             /\ b.set = w.set /\ b.port = w.port /\ b.off = w.off
             /\ b.len[f] = (w.len[f] + 1) % Width
             /\ b.len[f] <= w.len[f] + 1
             /\ w.len[f] + 1 < Width => b.len[f] = w.len[f] + 1
             /\ \A g \in Field \ {f} : b.len[g] = w.len[g]
<1>1. w.len[f] \in Nat BY DEF URecord
<1>2. /\ (w.len[f] + 1) % Width \in 0..(Width - 1)
      /\ (w.len[f] + 1) % Width <= w.len[f] + 1
      /\ w.len[f] + 1 < Width => (w.len[f] + 1) % Width = w.len[f] + 1
  BY <1>1, UrlAssumption
<1> QED BY <1>2, UrlAssumption DEF More, URecord

LEMMA ResetType ==
  ASSUME NEW w \in URecord, NEW f \in Field
  PROVE  LET b == [w EXCEPT !.len[f] = 0]
         IN  /\ b \in URecord /\ b.set = w.set /\ b.off = w.off /\ b.len[f] = 0
             /\ \A g \in Field \ {f} : b.len[g] = w.len[g]
<1>1. 0 \in 0..(Width - 1) BY UrlAssumption
<1> QED BY <1>1 DEF URecord

LEMMA ReoffType ==
  ASSUME NEW w \in URecord, NEW f \in Field, NEW i \in Nat
  PROVE  LET b == [w EXCEPT !.off[f] = i % Width]
         IN  /\ b \in URecord /\ b.set = w.set /\ b.len = w.len /\ b.port = w.port
             /\ b.off[f] = i % Width
             /\ \A g \in Field \ {f} : b.off[g] = w.off[g]
<1>1. i % Width \in 0..(Width - 1) BY UrlAssumption
<1> QED BY <1>1 DEF URecord

\* A byte of f was read at i.
LEMMA Touched ==
  ASSUME NEW w \in URecord, NEW f \in Field, NEW i \in Nat, NEW b,
         b = More(w, f) \/ b = Begin(w, f, i)
  PROVE  /\ b \in URecord
         /\ w.set \subseteq b.set /\ b.set \subseteq w.set \cup {f}
         /\ \A g \in Field \ {f} : b.off[g] = w.off[g] /\ b.len[g] = w.len[g]
<1>1. CASE b = More(w, f) BY <1>1, MoreType
<1>2. CASE b = Begin(w, f, i)
  <2>1. b \in URecord BY <1>2, BeginType
  <2>2. /\ b.set = w.set \cup {f}
        /\ \A g \in Field \ {f} : b.off[g] = w.off[g] /\ b.len[g] = w.len[g]
    BY <1>2 DEF Begin, URecord
  <2> QED BY <2>1, <2>2
<1> QED BY <1>1, <1>2

EndsBefore(w, fields, i) == \A f \in fields : w.off[f] + w.len[f] <= i

\* No field reaches further than the byte that was read.
LEMMA FieldEnds ==
  ASSUME NEW w \in URecord, NEW f \in Field, NEW i \in Nat,
         NEW fields \in SUBSET Field, EndsBefore(w, fields, i)
  PROVE  EndsBefore(Begin(w, f, i), fields, i + 1) /\ EndsBefore(More(w, f), fields, i + 1)
<1>1. \A g \in Field : w.off[g] \in Nat /\ w.len[g] \in Nat
  BY UrlAssumption DEF URecord
<1>2. EndsBefore(Begin(w, f, i), fields, i + 1)
  <2> DEFINE b == Begin(w, f, i)
  <2>1. /\ \A g \in Field \ {f} : b.off[g] = w.off[g] /\ b.len[g] = w.len[g]
        /\ b.off[f] + b.len[f] <= i + 1
    BY BeginType
  <2> HIDE DEF b
  <2>2. ASSUME NEW g \in fields PROVE b.off[g] + b.len[g] <= i + 1
    <3>1. w.off[g] + w.len[g] <= i BY DEF EndsBefore
    <3> QED BY <1>1, <2>1, <3>1
  <2> QED BY <2>2 DEF EndsBefore, b
<1>3. EndsBefore(More(w, f), fields, i + 1)
  <2> DEFINE b == More(w, f)
  <2>1. /\ b \in URecord /\ b.off = w.off /\ b.len[f] <= w.len[f] + 1
        /\ \A g \in Field \ {f} : b.len[g] = w.len[g]
    BY MoreType
  <2>2. b.len[f] \in Nat BY <2>1, UrlAssumption DEF URecord
  <2> HIDE DEF b
  <2>3. ASSUME NEW g \in fields PROVE b.off[g] + b.len[g] <= i + 1
    <3>1. w.off[g] + w.len[g] <= i BY DEF EndsBefore
    <3> QED BY <1>1, <2>1, <2>2, <3>1
  <2> QED BY <2>3 DEF EndsBefore, b
<1> QED BY <1>2, <1>3

\* A byte is read from the url or added to its end.
LEMMA ReadsByte ==
  ASSUME NEW c \in UrlByte, buf \in Seq(UrlByte), p \in Nat, p <= Len(buf), Reads(c)
  PROVE  /\ buf' \in Seq(UrlByte) /\ p < Len(buf') /\ Len(buf) <= Len(buf')
         /\ buf'[p + 1] = c
         /\ \A i \in 1..Len(buf) : buf'[i] = buf[i]
<1>1. CASE p < Len(buf) /\ At(buf, p) = c /\ UNCHANGED buf BY <1>1 DEF At
<1>2. CASE p = Len(buf) /\ buf' = Append(buf, c) BY <1>2
<1> QED BY <1>1, <1>2 DEF Reads

LEMMA SafeInit == Init => Safe
<1> SUFFICES ASSUME Init PROVE Safe OBVIOUS
<1> USE UrlAssumption
<1>1. buf \in Seq(UrlByte) BY DEF Init, Start
<1>2. u \in URecord /\ u.set = {} /\ \A f \in Field : EndOf(f) = 0
  BY DEF Init, NoUrl, URecord, EndOf
<1>3. s \in UrlState \ {"dead"} BY DEF Init, UrlState
<1>4. TypeOK
  <2>1. is_connect \in BOOLEAN /\ found_at \in BOOLEAN BY DEF Init
  <2>2. /\ pc = "fields" /\ p = 0 /\ buflen = 0 /\ v = 0 /\ ret = 0
        /\ old_uf = NoField
    BY DEF Init
  <2>3. v \in 0..MaxPort BY <2>2
  <2> QED BY <1>1, <1>2, <1>3, <2>1, <2>2, <2>3 DEF TypeOK, URecord
<1>5. StatesFit /\ Accepted BY <1>3 DEF Init, StatesFit, Accepted
<1>6. InsideUrl BY <1>1, <1>2 DEF Init, InsideUrl, Field
<1> QED BY <1>4, <1>5, <1>6 DEF Safe

\* The facts of Safe that every action starts from.
LEMMA SafeFacts ==
  ASSUME Safe
  PROVE  /\ buf \in Seq(UrlByte) /\ Len(buf) \in Nat
         /\ u \in URecord /\ u.set \subseteq Field
         /\ p \in Nat /\ buflen \in Nat /\ v \in 0..MaxPort
         /\ \A f \in Field : /\ u.off[f] \in Nat /\ u.len[f] \in Nat
                             /\ EndOf(f) \in Nat
         /\ \A i \in 1..Len(buf) : buf[i] \in UrlByte
<1>1. u \in URecord /\ buf \in Seq(UrlByte) BY DEF Safe, TypeOK, URecord
<1>2. \A f \in Field : u.off[f] \in Nat /\ u.len[f] \in Nat
  BY <1>1, UrlAssumption DEF URecord
<1>3. u.set \subseteq Field BY <1>1 DEF URecord
<1> QED BY <1>1, <1>2, <1>3 DEF Safe, TypeOK, EndOf

LEMMA FieldsDeadSafe ==
  ASSUME Safe, NEW c \in UrlByte, FieldsDead(c) PROVE Safe'
<1> USE SafeFacts
<1>1. /\ pc = "fields" /\ pc' = "done" /\ ret' = 1
      /\ UNCHANGED <<is_connect, p, s, u, old_uf, found_at, buflen, v>>
  BY DEF FieldsDead, Returns
<1>2. buf' \in Seq(UrlByte) /\ Len(buf) <= Len(buf')
  <2>1. CASE UNCHANGED buf BY <2>1
  <2>2. CASE \E rest \in Rests : buf' = Append(buf, c) \o rest
    <3>1. PICK rest \in Rests : buf' = Append(buf, c) \o rest BY <2>2
    <3>2. rest \in Seq(UrlByte) BY UrlAssumption
    <3> QED BY <3>1, <3>2
  <2> QED BY <2>1, <2>2 DEF FieldsDead
<1>3. TypeOK' BY <1>1, <1>2 DEF Safe, TypeOK
<1>4. StatesFit' /\ Accepted' BY <1>1 DEF StatesFit, Accepted
<1>5. InsideUrl' BY <1>1, <1>2 DEF Safe, InsideUrl, EndOf
<1> QED BY <1>3, <1>4, <1>5 DEF Safe

LEMMA FieldsDelimiterSafe ==
  ASSUME Safe, NEW c \in UrlByte, FieldsDelimiter(c) PROVE Safe'
<1> USE SafeFacts
<1>1. /\ pc = "fields" /\ Reads(c) /\ s' = ParseUrlChar(s, c) /\ s' \in Delimiter
      /\ p' = p + 1
      /\ UNCHANGED <<is_connect, pc, u, old_uf, found_at, buflen, v, ret>>
  BY DEF FieldsDelimiter
<1>2. s \in UrlState \ {"dead"} /\ p <= Len(buf)
  BY <1>1 DEF Safe, StatesFit, InsideUrl
<1>3. /\ buf' \in Seq(UrlByte) /\ p < Len(buf') /\ Len(buf) <= Len(buf')
      /\ buf'[p + 1] = c /\ \A i \in 1..Len(buf) : buf'[i] = buf[i]
  BY <1>1, <1>2, ReadsByte
<1>4. s' # "dead" BY <1>1 DEF Delimiter
<1>5. s' \in UrlState \ {"dead"} /\ c # "bad" BY <1>1, <1>2, <1>4, CharStep
<1>6. TypeOK' BY <1>1, <1>3, <1>5 DEF Safe, TypeOK
<1>7. StatesFit' BY <1>1, <1>5 DEF StatesFit
<1>8. Accepted'
  <2>1. \A i \in 1..p : buf'[i] # "bad" BY <1>1, <1>2, <1>3 DEF Safe, Accepted
  <2> QED BY <1>1, <1>3, <1>5, <2>1 DEF Accepted
<1>9. InsideUrl'
  <2>1. p' <= Len(buf') /\ \A f \in Field : EndOf(f) <= p
    BY <1>1, <1>3 DEF Safe, InsideUrl
  <2>2. \A f \in {"PORT", "USERINFO"} : f \notin u.set /\ EndOf(f) = 0
    BY <1>1 DEF Safe, InsideUrl
  <2> QED BY <1>1, <1>3, <2>1, <2>2 DEF InsideUrl, EndOf
<1> QED BY <1>6, <1>7, <1>8, <1>9 DEF Safe

LEMMA FieldsByteSafe ==
  ASSUME Safe, NEW c \in UrlByte, FieldsByte(c) PROVE Safe'
<1> USE SafeFacts
<1> DEFINE uf == FieldOf[s']
<1>1. /\ pc = "fields" /\ Reads(c) /\ s' = ParseUrlChar(s, c) /\ s' \in DOMAIN FieldOf
      /\ found_at' = (found_at \/ s' = "server_with_at")
      /\ u' = IF uf = old_uf THEN More(u, uf) ELSE Begin(u, uf, p)
      /\ old_uf' = uf /\ p' = p + 1
      /\ UNCHANGED <<is_connect, pc, buflen, v, ret>>
  BY DEF FieldsByte
<1>2. s \in UrlState \ {"dead"} /\ p <= Len(buf)
  BY <1>1 DEF Safe, StatesFit, InsideUrl
<1>3. /\ buf' \in Seq(UrlByte) /\ p < Len(buf') /\ Len(buf) <= Len(buf')
      /\ buf'[p + 1] = c /\ \A i \in 1..Len(buf) : buf'[i] = buf[i]
  BY <1>1, <1>2, ReadsByte
<1>4. s' # "dead" /\ uf \in Field /\ uf \notin {"PORT", "USERINFO"}
  BY <1>1, FieldOfDomain DEF FieldState
<1>5. s' \in UrlState \ {"dead"} /\ c # "bad" BY <1>1, <1>2, <1>4, CharStep
<1> HIDE DEF uf
<1>6. u' \in URecord BY <1>1, <1>4, BeginType, MoreType
<1>7. \A f \in Field : EndOf(f)' <= p + 1
  <2>1. EndsBefore(u, Field, p) BY <1>1 DEF Safe, InsideUrl, EndOf, EndsBefore
  <2>2. EndsBefore(u', Field, p + 1) BY <1>1, <1>4, <2>1, FieldEnds
  <2> QED BY <2>2 DEF EndsBefore, EndOf
<1>8. TypeOK'
  <2>1. found_at' \in BOOLEAN BY <1>1
  <2>2. old_uf' \in Field BY <1>1, <1>4
  <2>3. u' \in [set : SUBSET Field, off : [Field -> 0..(Width - 1)],
               len : [Field -> 0..(Width - 1)], port : 0..MaxPort]
    BY <1>6 DEF URecord
  <2>4. /\ is_connect' \in BOOLEAN /\ pc' \in {"fields", "host", "port", "done"}
        /\ buflen' \in Nat /\ v' \in 0..MaxPort /\ ret' \in {0, 1}
    BY <1>1 DEF Safe, TypeOK
  <2> QED BY <1>1, <1>3, <1>5, <2>1, <2>2, <2>3, <2>4 DEF TypeOK
<1>9. StatesFit' BY <1>1, <1>5 DEF StatesFit
<1>10. Accepted'
  <2>1. \A i \in 1..p : buf'[i] # "bad" BY <1>1, <1>2, <1>3 DEF Safe, Accepted
  <2> QED BY <1>1, <1>3, <1>5, <2>1 DEF Accepted
<1>11. InsideUrl'
  <2>1. \A f \in Field : EndOf(f)' \in Nat
    BY <1>6, UrlAssumption DEF URecord, EndOf
  <2>2. \A f \in {"PORT", "USERINFO"} : f \notin u'.set /\ EndOf(f)' = 0
    <3>1. \A f \in {"PORT", "USERINFO"} : f \notin u.set /\ EndOf(f) = 0
      BY <1>1 DEF Safe, InsideUrl
    <3>2. \A f \in Field \ {uf} : /\ f \in u'.set <=> f \in u.set
                                  /\ u'.off[f] = u.off[f] /\ u'.len[f] = u.len[f]
      <4>1. u' = More(u, uf) \/ u' = Begin(u, uf, p) BY <1>1
      <4>2. /\ u.set \subseteq u'.set /\ u'.set \subseteq u.set \cup {uf}
            /\ \A f \in Field \ {uf} : u'.off[f] = u.off[f] /\ u'.len[f] = u.len[f]
        BY <1>4, <4>1, Touched
      <4> QED BY <4>2
    <3> QED BY <1>4, <3>1, <3>2 DEF EndOf, Field
  <2> QED BY <1>1, <1>3, <1>7, <2>1, <2>2 DEF InsideUrl
<1> QED BY <1>8, <1>9, <1>10, <1>11 DEF Safe

LEMMA ToPortSafe ==
  ASSUME Safe, \A i \in 1..Len(buf) : buf[i] # "bad", ToPort(u),
         UNCHANGED <<buf, is_connect, s, u, old_uf, found_at, v>>
  PROVE  Safe'
<1> USE SafeFacts
<1>1. CASE pc' = "done" /\ ret' \in {0, 1} /\ UNCHANGED <<p, buflen>>
  BY <1>1 DEF Safe, TypeOK, StatesFit, Accepted, InsideUrl, EndOf
<1>2. CASE pc' = "port" /\ p' = u.off["PORT"] /\ buflen' = EndOf("PORT") /\ UNCHANGED ret
  <2>1. p' \in Nat /\ buflen' \in Nat /\ buflen' <= Len(buf)
    BY <1>2 DEF Safe, InsideUrl, Field
  <2>2. TypeOK' BY <1>2, <2>1 DEF Safe, TypeOK
  <2>3. StatesFit' /\ Accepted' BY <1>2 DEF StatesFit, Accepted
  <2>4. InsideUrl' BY <1>2, <2>1 DEF Safe, InsideUrl, EndOf
  <2> QED BY <2>2, <2>3, <2>4 DEF Safe
<1> QED BY <1>1, <1>2 DEF ToPort, Returns, EndOf

LEMMA FieldsEndSafe ==
  ASSUME Safe, FieldsEnd PROVE Safe'
<1> USE SafeFacts
<1>1. /\ pc = "fields" /\ p = Len(buf)
      /\ UNCHANGED <<buf, is_connect, old_uf, found_at, v>>
      /\ \A i \in 1..Len(buf) : buf[i] # "bad"
  BY DEF FieldsEnd, Safe, Accepted
<1>2. CASE Returns(1) /\ UNCHANGED <<p, s, u, buflen>>
  BY <1>1, <1>2 DEF Returns, Safe, TypeOK, StatesFit, Accepted, InsideUrl, EndOf
<1>3. CASE ToPort(u) /\ UNCHANGED <<s, u>> BY <1>1, <1>3, ToPortSafe
<1>4. CASE /\ "HOST" \in u.set /\ pc' = "host" /\ UNCHANGED ret
           /\ s' = IF found_at THEN "userinfo_start" ELSE "host_start"
           /\ p' = u.off["HOST"] /\ buflen' = EndOf("HOST")
           /\ u' = [u EXCEPT !.len["HOST"] = 0]
  <2>1. "HOST" \in Field /\ EndOf("HOST") <= Len(buf)
    BY <1>1 DEF Field, Safe, InsideUrl
  <2>2. /\ u' \in URecord /\ u'.set = u.set /\ u'.off = u.off
        /\ u'.len["HOST"] = 0
        /\ \A g \in Field \ {"HOST"} : u'.len[g] = u.len[g]
    BY <1>4, <2>1, ResetType
  <2>3. s' \in HostState \ {"host_dead"} BY <1>4 DEF HostState
  <2>4. TypeOK'
    <3>1. p' \in Nat /\ buflen' \in Nat BY <1>4, <2>1
    <3> QED BY <1>1, <1>4, <2>2, <2>3, <3>1 DEF Safe, TypeOK, URecord
  <2>5. StatesFit' /\ Accepted' BY <1>1, <1>4, <2>2, <2>3 DEF StatesFit, Accepted
  <2>6. InsideUrl'
    <3>1. EndOf("HOST")' = p' BY <1>4, <2>1, <2>2 DEF EndOf
    <3>2. \A g \in Field \ {"HOST"} : EndOf(g)' = EndOf(g) BY <2>2 DEF EndOf
    <3>3. p' <= Len(buf) BY <1>4, <2>1 DEF EndOf
    <3>4. \A g \in ServerField : EndOf(g)' <= p'
      <4>1. \A g \in {"PORT", "USERINFO"} : EndOf(g)' = 0
        BY <1>1, <3>2 DEF Safe, InsideUrl, Field
      <4> QED BY <1>4, <2>1, <3>1, <4>1 DEF ServerField
    <3> QED BY <1>1, <1>4, <2>1, <3>1, <3>2, <3>3, <3>4 DEF Safe, InsideUrl
  <2> QED BY <2>4, <2>5, <2>6 DEF Safe
<1> QED BY <1>2, <1>3, <1>4 DEF FieldsEnd, EndOf

\* The states that a byte of a field leads to, and that field.
FieldOfHost(t) ==
  CASE t \in {"host", "host_v6", "host_v6_zone_start", "host_v6_zone"} -> "HOST"
    [] t = "host_port" -> "PORT"
    [] t = "userinfo" -> "USERINFO"
    [] OTHER -> NoField

GoesOn(t) == s = t \/ t \in {"host_v6_zone_start", "host_v6_zone"}

LEMMA SameRecord ==
  ASSUME NEW w \in URecord, NEW b \in URecord,
         w.set = b.set, w.port = b.port,
         \A f \in Field : w.off[f] = b.off[f] /\ w.len[f] = b.len[f]
  PROVE  w = b
<1>1. w.off = b.off /\ w.len = b.len BY DEF URecord
<1> QED BY <1>1 DEF URecord

\* A host that begins is one that is found at p.
LEMMA HostFieldIs ==
  ASSUME Safe, pc = "host", NEW t \in HostState \ {"host_dead"},
         NEW c \in UrlByte, t = ParseHostChar(s, c)
  PROVE  LET f == FieldOfHost(t)
         IN  HostField(t, p) = IF f = NoField THEN u
                               ELSE IF GoesOn(t) THEN More(u, f) ELSE Begin(u, f, p)
<1> USE SafeFacts
<1>1. /\ s \in HostState \ {"host_dead"} /\ "HOST" \in u.set /\ "HOST" \in Field
      /\ s \in HostAhead => u.len["HOST"] = 0
  BY DEF Safe, StatesFit, Field
<1>2. CASE t \in {"host", "host_v6"} /\ s # t
  <2> DEFINE w == [u EXCEPT !.off["HOST"] = p % Width]
             m == More(w, "HOST")
             b == Begin(u, "HOST", p)
  <2>1. HostField(t, p) = m BY <1>2 DEF HostField
  <2>2. /\ w \in URecord /\ w.set = u.set /\ w.len = u.len /\ w.port = u.port
        /\ w.off["HOST"] = p % Width
        /\ \A g \in Field \ {"HOST"} : w.off[g] = u.off[g]
    BY <1>1, ReoffType
  <2>3. w.len["HOST"] = 0 /\ 0 + 1 < Width
    BY <1>1, <1>2, <2>2, HostCharStep, UrlAssumption DEF HostAhead
  <2> HIDE DEF w
  <2>4. /\ m \in URecord /\ m.set = w.set /\ m.port = w.port /\ m.off = w.off
        /\ m.len["HOST"] = 1
        /\ \A g \in Field \ {"HOST"} : m.len[g] = w.len[g]
    BY <1>1, <2>2, <2>3, MoreType
  <2>5. /\ b.set = u.set \cup {"HOST"} /\ b.port = u.port
        /\ b.off["HOST"] = p % Width /\ b.len["HOST"] = 1
        /\ \A g \in Field \ {"HOST"} : b.off[g] = u.off[g] /\ b.len[g] = u.len[g]
    BY <1>1 DEF Begin, URecord
  <2>6. b \in URecord BY <1>1, BeginType
  <2> HIDE DEF m, b
  <2>7. m = b
    <3>1. m.set = b.set /\ m.port = b.port BY <1>1, <2>2, <2>4, <2>5
    <3>2. ASSUME NEW g \in Field PROVE m.off[g] = b.off[g] /\ m.len[g] = b.len[g]
      <4>1. CASE g = "HOST" BY <2>2, <2>4, <2>5, <4>1
      <4>2. CASE g # "HOST" BY <2>2, <2>4, <2>5, <4>2
      <4> QED BY <4>1, <4>2
    <3> QED BY <2>4, <2>6, <3>1, <3>2, SameRecord
  <2> QED BY <1>2, <2>1, <2>7 DEF b, FieldOfHost, GoesOn, NoField
<1>3. CASE ~(t \in {"host", "host_v6"} /\ s # t)
  BY <1>3 DEF HostField, FieldOfHost, GoesOn, NoField
<1> QED BY <1>2, <1>3

LEMMA HostFieldType ==
  ASSUME Safe, pc = "host", NEW t \in HostState \ {"host_dead"},
         NEW c \in UrlByte, t = ParseHostChar(s, c), NEW w, w = HostField(t, p)
  PROVE  /\ w \in URecord /\ u.set \subseteq w.set
         /\ \A f \in Field \ ServerField :
              w.off[f] = u.off[f] /\ w.len[f] = u.len[f]
         /\ EndsBefore(w, ServerField, p + 1)
         /\ t \in HostAhead => w.len["HOST"] = 0
<1> USE SafeFacts
<1>1. EndsBefore(u, ServerField, p)
  BY DEF Safe, InsideUrl, EndOf, EndsBefore
<1>2. ServerField \in SUBSET Field /\ "HOST" \in Field /\ NoField \notin Field
  BY DEF ServerField, Field, NoField
<1>3. EndsBefore(u, ServerField, p + 1)
  <2>1. ASSUME NEW f \in ServerField PROVE u.off[f] + u.len[f] <= p + 1
    <3>1. u.off[f] + u.len[f] <= p BY <1>1 DEF EndsBefore
    <3> QED BY <1>2, <3>1
  <2> QED BY <2>1 DEF EndsBefore
<1>4. s \in HostAhead => u.len["HOST"] = 0 BY DEF Safe, StatesFit
<1>5. t \in HostAhead => s \in HostAhead /\ FieldOfHost(t) # "HOST"
  <2>1. s \in HostState \ {"host_dead"} BY DEF Safe, StatesFit
  <2> QED BY <2>1, HostCharStep DEF HostAhead, FieldOfHost, NoField
<1>6. CASE FieldOfHost(t) = NoField
  <2>1. w = u BY <1>6, HostFieldIs
  <2> QED BY <1>3, <1>4, <1>5, <2>1
<1>7. CASE FieldOfHost(t) # NoField
  <2> DEFINE f == FieldOfHost(t)
  <2>1. f \in ServerField BY <1>7 DEF FieldOfHost, ServerField
  <2>2. w = More(u, f) \/ w = Begin(u, f, p) BY <1>7, HostFieldIs
  <2> HIDE DEF f
  <2>3. /\ w \in URecord /\ u.set \subseteq w.set
        /\ \A g \in Field \ {f} : w.off[g] = u.off[g] /\ w.len[g] = u.len[g]
    BY <1>2, <2>1, <2>2, Touched
  <2>4. EndsBefore(w, ServerField, p + 1) BY <1>1, <1>2, <2>1, <2>2, FieldEnds
  <2>5. t \in HostAhead => w.len["HOST"] = 0 BY <1>2, <1>4, <1>5, <2>3 DEF f
  <2> QED BY <2>1, <2>3, <2>4, <2>5
<1> QED BY <1>6, <1>7

LEMMA HostByteSafe ==
  ASSUME Safe, HostByte PROVE Safe'
<1> USE SafeFacts
<1> DEFINE t == ParseHostChar(s, At(buf, p))
<1>1. /\ pc = "host" /\ p < buflen
      /\ UNCHANGED <<buf, is_connect, old_uf, found_at, buflen, v>>
  BY DEF HostByte
<1>2. CASE t = "host_dead"
  BY <1>1, <1>2 DEF HostByte, Returns, Safe, TypeOK, StatesFit, Accepted, InsideUrl, EndOf
<1>3. CASE t # "host_dead"
  <2>1. u' = HostField(t, p) /\ s' = t /\ p' = p + 1 /\ UNCHANGED <<pc, ret>>
    BY <1>3 DEF HostByte
  <2>2. p + 1 \in 1..Len(buf) /\ buflen <= Len(buf) BY <1>1 DEF Safe, InsideUrl
  <2>3. s \in HostState \ {"host_dead"} /\ At(buf, p) \in UrlByte
    BY <1>1, <2>2 DEF Safe, StatesFit, At
  <2>4. t \in HostState \ {"host_dead"} BY <1>3, <2>3, HostCharStep
  <2>5. /\ u' \in URecord /\ u.set \subseteq u'.set
        /\ \A f \in Field \ ServerField : u'.off[f] = u.off[f] /\ u'.len[f] = u.len[f]
        /\ EndsBefore(u', ServerField, p + 1)
        /\ s' \in HostAhead => u'.len["HOST"] = 0
    BY <1>1, <2>1, <2>3, <2>4, HostFieldType
  <2> HIDE DEF t
  <2>6. TypeOK' BY <1>1, <2>1, <2>4, <2>5 DEF Safe, TypeOK, URecord
  <2>7. StatesFit' /\ Accepted'
    BY <1>1, <2>1, <2>4, <2>5 DEF Safe, StatesFit, Accepted
  <2>8. InsideUrl'
    <3>1. \A f \in ServerField : EndOf(f)' <= p + 1 BY <2>5 DEF EndsBefore, EndOf
    <3>2. \A f \in Field \ ServerField : EndOf(f)' = EndOf(f) BY <2>5 DEF EndOf
    <3>3. \A f \in Field : EndOf(f)' \in Nat
      BY <2>5, UrlAssumption DEF URecord, EndOf
    <3>4. \A f \in Field : EndOf(f)' <= Len(buf)
      BY <2>2, <3>1, <3>2, <3>3 DEF Safe, InsideUrl
    <3> QED BY <1>1, <2>1, <2>2, <3>1, <3>4 DEF InsideUrl
  <2> QED BY <2>6, <2>7, <2>8 DEF Safe
<1> QED BY <1>2, <1>3

LEMMA HostLoopEndSafe ==
  ASSUME Safe, HostLoopEnd PROVE Safe'
<1> USE SafeFacts
<1>1. /\ pc = "host" /\ UNCHANGED <<buf, is_connect, s, u, old_uf, found_at, v>>
      /\ \A i \in 1..Len(buf) : buf[i] # "bad"
  BY DEF HostLoopEnd, Safe, Accepted
<1>2. CASE Returns(1) /\ UNCHANGED <<p, buflen>>
  BY <1>1, <1>2 DEF Returns, Safe, TypeOK, StatesFit, Accepted, InsideUrl, EndOf
<1>3. CASE ToPort(u) BY <1>1, <1>3, ToPortSafe
<1> QED BY <1>2, <1>3 DEF HostLoopEnd

\* Every byte of the port is one that the loop can take for a digit, so that
\* the port is a number and not above its limit.
LEMMA PortByteSafe ==
  ASSUME Safe, PortByte PROVE Safe'
<1> USE SafeFacts
<1> DEFINE w == v * 10 + MinusZero[At(buf, p)]
<1>1. /\ pc = "port" /\ p < buflen
      /\ UNCHANGED <<buf, is_connect, s, u, old_uf, found_at, buflen>>
  BY DEF PortByte
<1>2. CASE w < 0 \/ w > MaxPort
  <2>1. Returns(1) /\ UNCHANGED <<p, v>> BY <1>2 DEF PortByte
  <2> QED BY <1>1, <2>1
        DEF Returns, Safe, TypeOK, StatesFit, Accepted, InsideUrl, EndOf
<1>3. CASE ~(w < 0 \/ w > MaxPort)
  <2>1. v' = w /\ p' = p + 1 /\ UNCHANGED <<pc, ret>> BY <1>3 DEF PortByte
  <2>2. MinusZero[At(buf, p)] \in Int
    <3>1. p + 1 \in 1..Len(buf) BY <1>1 DEF Safe, InsideUrl
    <3>2. buf[p + 1] \in UrlByte /\ buf[p + 1] # "bad"
      BY <1>1, <3>1 DEF Safe, Accepted
    <3> QED BY <3>2, MinusZeroInt DEF At
  <2>3. w \in 0..MaxPort BY <1>3, <2>2, UrlAssumption
  <2> HIDE DEF w
  <2>4. TypeOK' BY <1>1, <2>1, <2>3 DEF Safe, TypeOK
  <2>5. StatesFit' /\ Accepted' /\ InsideUrl'
    BY <1>1, <2>1 DEF Safe, StatesFit, Accepted, InsideUrl, EndOf
  <2> QED BY <2>4, <2>5 DEF Safe
<1> QED BY <1>2, <1>3

LEMMA PortEndSafe ==
  ASSUME Safe, PortEnd PROVE Safe'
<1> USE SafeFacts
<1>1. /\ pc = "port" /\ pc' = "done" /\ ret' = 0 /\ u' = [u EXCEPT !.port = v]
      /\ UNCHANGED <<buf, is_connect, p, s, old_uf, found_at, buflen, v>>
  BY DEF PortEnd, Returns
<1>2. u' \in URecord /\ u'.set = u.set /\ u'.off = u.off /\ u'.len = u.len
  BY <1>1 DEF URecord
<1>3. TypeOK' BY <1>1, <1>2 DEF Safe, TypeOK, URecord
<1>4. StatesFit' /\ Accepted' BY <1>1 DEF StatesFit, Accepted
<1>5. InsideUrl' BY <1>1, <1>2 DEF Safe, InsideUrl, EndOf
<1> QED BY <1>3, <1>4, <1>5 DEF Safe

LEMMA NextSafe == Safe /\ [Next]_vars => Safe'
<1> SUFFICES ASSUME Safe, [Next]_vars PROVE Safe' OBVIOUS
<1>1. CASE \E c \in UrlByte : FieldsDead(c) \/ FieldsDelimiter(c) \/ FieldsByte(c)
  BY <1>1, FieldsDeadSafe, FieldsDelimiterSafe, FieldsByteSafe
<1>2. CASE FieldsEnd BY <1>2, FieldsEndSafe
<1>3. CASE HostByte BY <1>3, HostByteSafe
<1>4. CASE HostLoopEnd BY <1>4, HostLoopEndSafe
<1>5. CASE PortByte BY <1>5, PortByteSafe
<1>6. CASE PortEnd BY <1>6, PortEndSafe
<1>7. CASE UNCHANGED vars
  BY <1>7 DEF vars, Safe, TypeOK, StatesFit, Accepted, InsideUrl, EndOf
<1> QED BY <1>1, <1>2, <1>3, <1>4, <1>5, <1>6, <1>7 DEF Next, Done

-----------------------------------------------------------------------------
(* The fields lie apart.                                                   *)

\* The bytes that are known do not change.
LEMMA BufGrows ==
  ASSUME Safe, [Next]_vars
  PROVE  /\ Len(buf) <= Len(buf') /\ buf' \in Seq(UrlByte)
         /\ \A i \in 1..Len(buf) : buf'[i] = buf[i]
         /\ Fits' => Fits
<1> USE SafeFacts
<1>1. buf' \in Seq(UrlByte) BY NextSafe DEF Safe, TypeOK
<1>2. CASE UNCHANGED buf BY <1>2 DEF Fits
<1>3. CASE \E c \in UrlByte, rest \in Rests \cup {<<>>} : buf' = Append(buf, c) \o rest
  <2>1. PICK c \in UrlByte, rest \in Rests \cup {<<>>} : buf' = Append(buf, c) \o rest
    BY <1>3
  <2>2. rest \in Seq(UrlByte)
    <3>1. CASE rest \in Rests BY <3>1, UrlAssumption
    <3>2. CASE rest = <<>> BY <3>2
    <3> QED BY <3>1, <3>2
  <2>3. Len(buf) <= Len(buf') /\ \A i \in 1..Len(buf) : buf'[i] = buf[i]
    BY <2>1, <2>2
  <2> QED BY <1>1, <2>3, UrlAssumption DEF Fits
<1>4. \A c \in UrlByte : Append(buf, c) = Append(buf, c) \o <<>> OBVIOUS
<1>5. CASE \E c \in UrlByte : FieldsDead(c)
  BY <1>2, <1>3, <1>5 DEF FieldsDead
<1>6. CASE \E c \in UrlByte : FieldsDelimiter(c) \/ FieldsByte(c)
  BY <1>2, <1>3, <1>4, <1>6 DEF FieldsDelimiter, FieldsByte, Reads
<1>7. CASE FieldsEnd \/ HostByte \/ HostLoopEnd \/ PortByte \/ PortEnd \/ UNCHANGED vars
  BY <1>2, <1>7 DEF FieldsEnd, HostByte, HostLoopEnd, PortByte, PortEnd, vars
<1> QED BY <1>5, <1>6, <1>7 DEF Next, Done

\* A field that goes on or begins at place i keeps the order, if what is after
\* it leaves place.
LEMMA FieldGrows ==
  ASSUME Safe, InOrder, NEW f \in Field, NEW i \in Nat, i + 1 < Width,
         \/ u' = More(u, f) /\ f \in u.set /\ EndOf(f) = i /\ u.len[f] > 0
         \/ /\ u' = Begin(u, f, i)
            /\ \A g \in u.set : Rank[g] < Rank[f] => EndOf(g) <= i,
         \A g \in u.set : Rank[f] < Rank[g] /\ u.len[g] > 0 => i + 1 <= u.off[g]
  PROVE  /\ InOrder' /\ f \in u'.set /\ EndOf(f)' = i + 1 /\ u'.len[f] > 0
<1>a. u \in URecord /\ u.set \subseteq Field BY SafeFacts
<1>b. u.off[f] \in Nat /\ u.len[f] \in Nat BY SafeFacts
<1>c. Width \in Nat BY UrlAssumption
<1>1. /\ u' \in URecord
      /\ u'.set \subseteq u.set \cup {f}
      /\ \A g \in Field \ {f} : u'.off[g] = u.off[g] /\ u'.len[g] = u.len[g]
  BY <1>a, Touched
<1>2. /\ f \in u'.set /\ u'.off[f] + u'.len[f] = i + 1 /\ u'.len[f] > 0
      /\ \A g \in u.set : Rank[g] < Rank[f] => EndOf(g) <= u'.off[f]
  <2>1. CASE u' = More(u, f) /\ f \in u.set /\ EndOf(f) = i /\ u.len[f] > 0
    <3>1. u.off[f] + u.len[f] = i BY <2>1 DEF EndOf
    <3>2. u.len[f] + 1 < Width BY <1>b, <1>c, <3>1
    <3>3. u'.set = u.set /\ u'.off = u.off /\ u'.len[f] = u.len[f] + 1
      BY <1>a, <2>1, <3>2, MoreType
    <3>4. \A g \in u.set : Rank[g] < Rank[f] => EndOf(g) <= u.off[f]
      BY <2>1 DEF InOrder
    <3>5. u'.off[f] + u'.len[f] = i + 1 /\ u'.len[f] > 0
      BY <1>b, <3>1, <3>3
    <3> QED BY <2>1, <3>3, <3>4, <3>5
  <2>2. CASE /\ u' = Begin(u, f, i)
             /\ \A g \in u.set : Rank[g] < Rank[f] => EndOf(g) <= i
    <3>1. u'.set = u.set \cup {f} /\ u'.off[f] = i % Width /\ u'.len[f] = 1
      BY <1>a, <2>2 DEF Begin, URecord
    <3>2. i % Width = i BY SmallMod, <1>c
    <3>3. u'.off[f] + u'.len[f] = i + 1 /\ u'.len[f] > 0 BY <3>1, <3>2
    <3> QED BY <2>2, <3>1, <3>2, <3>3
  <2> QED BY <2>1, <2>2
<1>3. ASSUME NEW g \in u'.set, NEW h \in u'.set,
             Rank[g] < Rank[h], u'.len[h] > 0
      PROVE  EndOf(g)' <= u'.off[h]
  <2>1. g \in Field /\ h \in Field /\ g # h
        /\ (g # f => g \in u.set) /\ (h # f => h \in u.set)
    <3>1. g \in Field /\ h \in Field BY <1>1, <1>a
    <3>2. ~(Rank[g] < Rank[g]) BY <3>1, RankInt
    <3>3. g # h BY <1>3, <3>2
    <3> QED BY <1>1, <3>1, <3>3
  <2>2. CASE g = f
    <3>1. i + 1 <= u.off[h] BY <1>1, <1>3, <2>1, <2>2
    <3>2. u'.off[h] = u.off[h] BY <1>1, <2>1, <2>2
    <3> QED BY <1>2, <2>2, <3>1, <3>2 DEF EndOf
  <2>3. CASE h = f
    <3>1. EndOf(g) <= u'.off[f] BY <1>2, <1>3, <2>1, <2>3
    <3>2. EndOf(g)' = EndOf(g) BY <1>1, <2>1, <2>3 DEF EndOf
    <3> QED BY <2>3, <3>1, <3>2
  <2>4. CASE g # f /\ h # f
    <3>1. EndOf(g) <= u.off[h] BY <1>1, <1>3, <2>1, <2>4 DEF InOrder
    <3>2. EndOf(g)' = EndOf(g) /\ u'.off[h] = u.off[h]
      BY <1>1, <2>1, <2>4 DEF EndOf
    <3> QED BY <3>1, <3>2
  <2> QED BY <2>2, <2>3, <2>4
<1>4. InOrder' BY <1>3 DEF InOrder
<1> QED BY <1>2, <1>4 DEF EndOf

LEMMA LaidInit == Init => Laid
<1> SUFFICES ASSUME Init PROVE Laid OBVIOUS
<1>1. u.set = {} /\ pc = "fields" /\ old_uf = NoField
      /\ s \in {"server_start", "spaces_before_url"}
  BY DEF Init, NoUrl
<1>2. FieldsLaid BY <1>1, FieldOfDomain DEF FieldsLaid, FieldState
<1> QED BY <1>1, <1>2 DEF Laid, InOrder, PortIsDigits

LEMMA FieldsDeadLaid ==
  ASSUME IInv, NEW c \in UrlByte, FieldsDead(c), Fits' => Fits PROVE Laid'
<1>1. pc = "fields" /\ pc' = "done" /\ UNCHANGED u
  BY DEF FieldsDead, Returns
<1>2. "PORT" \notin u.set BY <1>1 DEF IInv, Safe, InsideUrl
<1> QED BY <1>1, <1>2 DEF IInv, Laid, InOrder, PortIsDigits, EndOf

LEMMA FieldsDelimiterLaid ==
  ASSUME IInv, NEW c \in UrlByte, FieldsDelimiter(c), Fits' => Fits PROVE Laid'
<1>1. /\ pc = "fields" /\ pc' = "fields" /\ UNCHANGED <<u, old_uf>>
      /\ s' = ParseUrlChar(s, c) /\ s' \in Delimiter
  BY DEF FieldsDelimiter
<1>2. "PORT" \notin u.set /\ s \in UrlState \ {"dead"}
  BY <1>1 DEF IInv, Safe, InsideUrl, StatesFit
<1>3. Found(s) \subseteq Found(s') /\ s' \notin DOMAIN FieldOf
  BY <1>1, <1>2, CharStep, FieldOfDomain DEF Delimiter, FieldState
<1>4. Fits' => FieldsLaid'
  BY <1>1, <1>3 DEF IInv, Laid, FieldsLaid
<1> QED BY <1>1, <1>2, <1>4 DEF IInv, Laid, InOrder, PortIsDigits, EndOf

LEMMA FieldsByteLaid ==
  ASSUME IInv, NEW c \in UrlByte, FieldsByte(c), Fits' => Fits, Safe' PROVE Laid'
<1>a. Safe BY DEF IInv
<1>b. u \in URecord /\ u.set \subseteq Field /\ p \in Nat BY <1>a, SafeFacts
<1>1. /\ pc = "fields" /\ pc' = "fields"
      /\ s' = ParseUrlChar(s, c) /\ s' \in DOMAIN FieldOf
  BY DEF FieldsByte
<1>2. s \in UrlState \ {"dead"} /\ s' # "dead" /\ "PORT" \notin u'.set
  BY <1>1, <1>a, FieldOfDomain DEF Safe, StatesFit, InsideUrl, FieldState
<1>3. PICK f \in Field : f = FieldOf[s'] BY <1>1, FieldOfDomain
<1>4. /\ u' = IF f = old_uf THEN More(u, f) ELSE Begin(u, f, p)
      /\ old_uf' = f /\ p' = p + 1 /\ f # NoField
  BY <1>3 DEF FieldsByte, NoField, Field
<1>5. /\ f \in Found(s') /\ Found(s) \subseteq Found(s')
      /\ f \notin Found(s) \/ (s \in DOMAIN FieldOf /\ FieldOf[s] = f)
      /\ \A g \in Found(s) : Rank[g] <= Rank[f]
  BY <1>1, <1>2, <1>3, CharStep, CharField
<1>6. SUFFICES ASSUME Fits' PROVE InOrder' /\ PortIsDigits' /\ FieldsLaid'
  BY <1>1 DEF Laid
<1>7. InOrder /\ FieldsLaid BY <1>1, <1>6 DEF IInv, Laid
<1>8. p + 1 < Width
  <2>1. p' <= Len(buf') /\ Len(buf') < Width
    BY <1>1, <1>6 DEF Safe, InsideUrl, Fits
  <2>2. Len(buf') \in Nat BY DEF Safe, TypeOK
  <2> QED BY <1>4, <1>b, <2>1, <2>2, UrlAssumption
<1>9. \/ u' = More(u, f) /\ f \in u.set /\ EndOf(f) = p /\ u.len[f] > 0
      \/ u' = Begin(u, f, p) /\ \A g \in u.set : Rank[g] < Rank[f] => EndOf(g) <= p
  <2>1. CASE f = old_uf
    <3>1. f \in u.set BY <1>4, <1>7, <2>1 DEF FieldsLaid
    <3>2. s \in DOMAIN FieldOf /\ FieldOf[s] = f BY <1>5, <1>7, <3>1 DEF FieldsLaid
    <3> QED BY <1>4, <1>7, <2>1, <3>1, <3>2 DEF FieldsLaid
  <2>2. CASE f # old_uf
    <3>1. \A g \in u.set : EndOf(g) <= p
      BY <1>1, <1>a, <1>b DEF Safe, InsideUrl
    <3> QED BY <1>4, <2>2, <3>1
  <2> QED BY <2>1, <2>2
<1>10. \A g \in u.set : Rank[f] < Rank[g] /\ u.len[g] > 0 => p + 1 <= u.off[g]
  <2>1. ASSUME NEW g \in u.set PROVE ~(Rank[f] < Rank[g])
    <3>1. Rank[g] <= Rank[f] BY <1>5, <1>7 DEF FieldsLaid
    <3>2. Rank[g] \in Int /\ Rank[f] \in Int BY <1>b, RankInt
    <3> QED BY <3>1, <3>2
  <2> QED BY <2>1
<1>11. InOrder' /\ f \in u'.set /\ EndOf(f)' = p + 1 /\ u'.len[f] > 0
  BY <1>7, <1>8, <1>9, <1>10, <1>a, <1>b, FieldGrows
<1>12. FieldsLaid'
  <2>1. /\ u'.set \subseteq u.set \cup {f}
        /\ \A g \in Field \ {f} : u'.len[g] = u.len[g]
    BY <1>9, <1>b, Touched
  <2>2. u'.set \subseteq Found(s') BY <1>5, <1>7, <2>1 DEF FieldsLaid
  <2>3. ASSUME NEW g \in u'.set PROVE u'.len[g] > 0
    <3>1. CASE g = f BY <1>11, <3>1
    <3>2. CASE g # f
      <4>1. g \in u.set /\ g \in Field BY <1>b, <2>1, <3>2
      <4> QED BY <1>7, <2>1, <3>2, <4>1 DEF FieldsLaid
    <3> QED BY <3>1, <3>2
  <2>4. EndOf(f)' = p' BY <1>4, <1>11
  <2> QED BY <1>3, <1>4, <1>11, <2>2, <2>3, <2>4 DEF FieldsLaid, EndOf
<1> QED BY <1>2, <1>11, <1>12 DEF PortIsDigits

LEMMA ToPortLaid ==
  ASSUME Safe, InOrder, PortIsDigits, ToPort(u), UNCHANGED <<buf, u>>, pc' # "fields"
  PROVE  Laid'
<1>1. InOrder' /\ PortIsDigits'
  BY DEF InOrder, EndOf, PortIsDigits, FieldPlaces, At
<1>2. pc' = "done" \/ /\ pc' = "port" /\ "PORT" \in u.set
                      /\ p' = u.off["PORT"] /\ buflen' = EndOf("PORT")
  BY DEF ToPort, Returns, EndOf
<1>3. pc' = "port" => u'.off["PORT"] <= p' /\ buflen' = EndOf("PORT")' /\ "PORT" \in u'.set
  <2>1. u.off["PORT"] \in Nat BY SafeFacts DEF Field
  <2> QED BY <1>2, <2>1 DEF EndOf
<1> QED BY <1>1, <1>2, <1>3 DEF Laid

LEMMA FieldsEndLaid ==
  ASSUME IInv, FieldsEnd, Safe' PROVE Laid'
<1>a. Safe BY DEF IInv
<1>1. /\ pc = "fields" /\ UNCHANGED buf /\ u.set \subseteq Field
      /\ \A f \in {"PORT", "USERINFO"} : f \notin u.set
  BY <1>a, SafeFacts DEF FieldsEnd, Safe, InsideUrl
<1>2. SUFFICES ASSUME Fits' PROVE Laid'
  BY DEF Laid
<1>3. InOrder /\ FieldsLaid BY <1>1, <1>2 DEF IInv, Laid, Fits
<1>4. PortIsDigits BY <1>1 DEF PortIsDigits
<1>5. CASE Returns(1) /\ UNCHANGED <<p, s, u, buflen>>
  BY <1>1, <1>3, <1>5 DEF Returns, Laid, InOrder, EndOf, PortIsDigits
<1>6. CASE ToPort(u) /\ UNCHANGED <<s, u>>
  <2>1. pc' # "fields" BY <1>1, <1>6 DEF ToPort, Returns
  <2> QED BY <1>a, <1>1, <1>3, <1>4, <1>6, <2>1, ToPortLaid
<1>7. CASE /\ "HOST" \in u.set /\ pc' = "host"
           /\ s' = IF found_at THEN "userinfo_start" ELSE "host_start"
           /\ p' = u.off["HOST"] /\ buflen' = EndOf("HOST")
           /\ u' = [u EXCEPT !.len["HOST"] = 0]
  <2>1. u \in URecord /\ \A f \in Field : u.off[f] \in Nat /\ u.len[f] \in Nat
    BY <1>a, SafeFacts
  <2>2. /\ u'.set = u.set /\ u'.off = u.off /\ u'.len["HOST"] = 0
        /\ \A g \in Field \ {"HOST"} : u'.len[g] = u.len[g]
    BY <1>1, <1>7, <2>1, ResetType
  <2>3. \A g \in Field \ {"HOST"} : EndOf(g)' = EndOf(g) BY <2>2 DEF EndOf
  <2>4. EndOf("HOST")' = u.off["HOST"] /\ u.off["HOST"] <= EndOf("HOST")
    BY <1>1, <1>7, <2>1, <2>2 DEF EndOf
  <2>5. InOrder'
    <3>1. ASSUME NEW f \in u'.set, NEW g \in u'.set, Rank[f] < Rank[g], u'.len[g] > 0
          PROVE  EndOf(f)' <= u'.off[g]
      <4>1. f \in Field /\ g \in Field /\ g # "HOST" /\ f \in u.set /\ g \in u.set
        BY <1>1, <2>2, <3>1
      <4>2. EndOf(f) <= u.off[g] BY <1>3, <2>2, <3>1, <4>1 DEF InOrder
      <4>3. EndOf(f)' <= EndOf(f) /\ EndOf(f)' \in Nat /\ EndOf(f) \in Nat
        <5>1. CASE f = "HOST" BY <2>1, <2>4, <4>1, <5>1 DEF EndOf
        <5>2. CASE f # "HOST" BY <2>1, <2>3, <4>1, <5>2 DEF EndOf
        <5> QED BY <5>1, <5>2
      <4> QED BY <2>1, <2>2, <4>1, <4>2, <4>3
    <3> QED BY <3>1 DEF InOrder
  <2>6. HostLaid'
    <3>1. p' <= buflen' BY <1>7, <2>4
    <3>2. "SCHEMA" \in u'.set => EndOf("SCHEMA")' <= p'
      <4>1. Rank["SCHEMA"] < Rank["HOST"] BY DEF Rank, Field
      <4> QED BY <1>3, <1>7, <2>2, <2>3, <4>1 DEF InOrder, FieldsLaid, Field
    <3>3. \A f \in u'.set \cap TailField : buflen' <= u'.off[f]
      <4>1. \A f \in TailField : f \in Field /\ Rank["HOST"] < Rank[f]
        BY DEF TailField, Rank, Field
      <4> QED BY <1>3, <1>7, <2>2, <4>1 DEF InOrder, FieldsLaid
    <3>4. \A f \in u'.set : u'.len[f] > 0 \/ (f = "HOST" /\ s' \in HostAhead)
      <4>1. s' \in HostAhead BY <1>7 DEF HostAhead
      <4> QED BY <1>1, <1>3, <2>2, <4>1 DEF FieldsLaid
    <3>5. s' \in {"userinfo_start", "host_start"} BY <1>7
    <3> QED BY <1>1, <2>2, <3>1, <3>2, <3>3, <3>4, <3>5 DEF HostLaid
  <2> QED BY <1>1, <1>7, <2>2, <2>5, <2>6 DEF Laid, PortIsDigits
<1> QED BY <1>5, <1>6, <1>7 DEF FieldsEnd, EndOf

LEMMA HostLoopEndLaid ==
  ASSUME IInv, HostLoopEnd PROVE Laid'
<1>1. pc = "host" /\ UNCHANGED <<buf, u>> BY DEF HostLoopEnd
<1>2. SUFFICES ASSUME Fits' PROVE Laid' BY DEF Laid
<1>3. InOrder /\ PortIsDigits BY <1>1, <1>2 DEF IInv, Laid, Fits
<1>4. CASE Returns(1)
  BY <1>1, <1>3, <1>4 DEF Returns, Laid, InOrder, EndOf, PortIsDigits, FieldPlaces, At
<1>5. CASE ToPort(u)
  <2>1. pc' # "fields" BY <1>1, <1>5 DEF ToPort, Returns
  <2>2. Safe BY DEF IInv
  <2> QED BY <1>1, <1>3, <1>5, <2>1, <2>2, ToPortLaid
<1> QED BY <1>4, <1>5 DEF HostLoopEnd

LEMMA PortByteLaid ==
  ASSUME IInv, PortByte PROVE Laid'
<1>a. p \in Nat /\ u.off["PORT"] \in Nat BY SafeFacts DEF IInv, Field
<1>1. /\ pc = "port" /\ UNCHANGED <<buf, u, buflen>>
      /\ (pc' = "done" /\ UNCHANGED p) \/ (pc' = "port" /\ p' = p + 1)
  BY DEF PortByte, Returns
<1>2. SUFFICES ASSUME Fits' PROVE Laid' BY DEF Laid
<1>3. /\ InOrder /\ PortIsDigits
      /\ u.off["PORT"] <= p /\ buflen = EndOf("PORT") /\ "PORT" \in u.set
  BY <1>1, <1>2 DEF IInv, Laid, Fits
<1>4. InOrder' /\ PortIsDigits'
  BY <1>1, <1>3 DEF InOrder, EndOf, PortIsDigits, FieldPlaces, At
<1>5. u'.off["PORT"] <= p' /\ buflen' = EndOf("PORT")' /\ "PORT" \in u'.set
  BY <1>a, <1>1, <1>3 DEF EndOf
<1> QED BY <1>1, <1>4, <1>5 DEF Laid

LEMMA PortEndLaid ==
  ASSUME IInv, PortEnd PROVE Laid'
<1>1. /\ pc = "port" /\ pc' = "done" /\ UNCHANGED buf /\ u' = [u EXCEPT !.port = v]
  BY DEF PortEnd, Returns
<1>2. u'.set = u.set /\ u'.off = u.off /\ u'.len = u.len
  BY <1>1, SafeFacts DEF IInv, URecord
<1> QED BY <1>1, <1>2 DEF IInv, Laid, Fits, InOrder, EndOf, PortIsDigits, FieldPlaces, At

\* A byte of a field of the server is in its field; the other fields stay where
\* they are.
LEMMA HostByteLaid ==
  ASSUME IInv, HostByte, Safe' PROVE Laid'
<1>a. Safe BY DEF IInv
<1>b. /\ u \in URecord /\ u.set \subseteq Field /\ p \in Nat /\ buflen \in Nat
      /\ Len(buf) \in Nat
      /\ \A f \in Field : u.off[f] \in Nat /\ u.len[f] \in Nat /\ EndOf(f) \in Nat
  BY <1>a, SafeFacts
<1>1. pc = "host" /\ p < buflen /\ UNCHANGED <<buf, buflen>> BY DEF HostByte
<1>2. SUFFICES ASSUME Fits' PROVE Laid' BY DEF Laid
<1>3. /\ InOrder /\ PortIsDigits /\ HostLaid /\ Len(buf) < Width
  BY <1>1, <1>2 DEF IInv, Laid, Fits
<1>4. CASE ParseHostChar(s, At(buf, p)) = "host_dead"
  BY <1>1, <1>3, <1>4
     DEF HostByte, Returns, Laid, InOrder, EndOf, PortIsDigits, FieldPlaces, At
<1>5. CASE ParseHostChar(s, At(buf, p)) # "host_dead"
  <2>1. /\ p + 1 \in 1..Len(buf) /\ s \in HostState \ {"host_dead"}
        /\ \A f \in ServerField : EndOf(f) <= p
    BY <1>a, <1>b, <1>1 DEF Safe, StatesFit, InsideUrl
  <2>2. PICK c \in UrlByte : c = At(buf, p) BY <1>a, <2>1, SafeFacts DEF At
  <2>3. PICK t \in HostState \ {"host_dead"} : t = ParseHostChar(s, c)
    BY <1>5, <2>1, <2>2, HostCharStep
  <2>4. u' = HostField(t, p) /\ s' = t /\ p' = p + 1 /\ pc' = "host"
    BY <1>1, <1>5, <2>2, <2>3 DEF HostByte
  <2>5. p + 1 < Width /\ p' <= buflen'
    BY <1>b, <1>1, <1>3, <2>1, <2>4, UrlAssumption
  <2>6. /\ s = "host_port" => t = "host_port"
        /\ s \in HostAhead /\ t \notin HostAhead => t \in {"host", "host_v6"}
        /\ t # "userinfo_start"
        /\ t = "userinfo" => s \in {"userinfo_start", "userinfo"}
        /\ t = "host_port" => c \in Num
        /\ t \in {"host_v6_zone_start", "host_v6_zone"} =>
             s \in {"host_v6", "host_v6_zone_start", "host_v6_zone"}
    BY <2>1, <2>3, HostCharStep DEF HostAhead, HostState
  <2>7. CASE FieldOfHost(t) = NoField
    <3>1. u' = u BY <1>a, <1>1, <2>3, <2>4, <2>7, HostFieldIs
    <3>2. t \notin {"host", "host_v6", "host_v6_zone_start", "host_v6_zone",
                    "host_port", "userinfo", "userinfo_start"}
      BY <2>6, <2>7 DEF FieldOfHost, NoField
    <3>3. InOrder' /\ PortIsDigits'
      BY <1>1, <1>3, <3>1 DEF InOrder, EndOf, PortIsDigits, FieldPlaces, At
    <3>4. "SCHEMA" \in u'.set => EndOf("SCHEMA")' <= p'
      BY <1>b, <1>3, <2>4, <3>1 DEF HostLaid, EndOf, Field
    <3>5. HostLaid'
      BY <1>1, <1>3, <2>4, <2>5, <2>6, <3>1, <3>2, <3>4 DEF HostLaid
    <3> QED BY <2>4, <3>3, <3>5 DEF Laid
  <2>8. CASE FieldOfHost(t) # NoField
    <3>1. PICK f \in ServerField : f = FieldOfHost(t)
      BY <2>8 DEF FieldOfHost, ServerField
    <3>2. f \in Field /\ NoField \notin Field BY DEF ServerField, Field, NoField
    <3>3. u' = IF GoesOn(t) THEN More(u, f) ELSE Begin(u, f, p)
      BY <1>a, <1>1, <2>3, <2>4, <3>1, <3>2, HostFieldIs
    <3>4. /\ f = "HOST" <=> t \in {"host", "host_v6", "host_v6_zone_start", "host_v6_zone"}
          /\ f = "PORT" <=> t = "host_port"
          /\ f = "USERINFO" <=> t = "userinfo"
      BY <3>1 DEF FieldOfHost, NoField
    <3>5. ASSUME NEW g \in u.set, Rank[f] < Rank[g], u.len[g] > 0
          PROVE  g \in TailField
      <4>1. g \in Field /\ g # f /\ g # "SCHEMA" BY <1>b, <3>5, RankOfServer
      <4>2. g # "PORT"
        <5>1. f = "PORT" \/ "PORT" \notin u.set
          BY <1>3, <2>6, <3>4 DEF HostLaid
        <5> QED BY <4>1, <5>1
      <4>3. g # "HOST"
        <5>1. f = "USERINFO" => u.len["HOST"] = 0
          BY <1>a, <1>1, <2>6, <3>4 DEF Safe, StatesFit, HostAhead
        <5>2. f = "PORT" => ~(Rank[f] < Rank["HOST"]) BY DEF Rank, Field
        <5> QED BY <3>5, <4>1, <5>1, <5>2 DEF ServerField
      <4>4. g # "USERINFO" BY <3>5 DEF Rank, Field, ServerField
      <4> QED BY <4>1, <4>2, <4>3, <4>4 DEF TailField, Field
    <3>6. \A g \in u.set : Rank[f] < Rank[g] /\ u.len[g] > 0 => p + 1 <= u.off[g]
      <4>1. ASSUME NEW g \in u.set, g \in TailField PROVE p + 1 <= u.off[g]
        <5>1. u.off[g] \in Nat /\ buflen <= u.off[g] BY <1>b, <1>3, <4>1 DEF HostLaid
        <5> QED BY <1>b, <1>1, <5>1
      <4> QED BY <3>5, <4>1
    <3>7. \/ u' = More(u, f) /\ f \in u.set /\ EndOf(f) = p /\ u.len[f] > 0
          \/ u' = Begin(u, f, p) /\ \A g \in u.set : Rank[g] < Rank[f] => EndOf(g) <= p
      <4>1. CASE GoesOn(t)
        <5>1. f \in u.set /\ EndOf(f) = p
          BY <1>a, <1>1, <1>3, <2>6, <3>4, <4>1
             DEF HostLaid, GoesOn, Safe, StatesFit, ServerField
        <5>2. f = "HOST" => s \notin HostAhead
          BY <2>6, <3>4, <4>1 DEF GoesOn, HostAhead
        <5> QED BY <1>3, <3>3, <4>1, <5>1, <5>2 DEF HostLaid
      <4>2. CASE ~GoesOn(t)
        <5>1. ASSUME NEW g \in u.set, Rank[g] < Rank[f] PROVE EndOf(g) <= p
          <6>1. g \in ServerField \cup {"SCHEMA"}
            BY <1>b, <5>1, RankOfServer
          <6> QED BY <1>3, <2>1, <6>1 DEF HostLaid
        <5> QED BY <3>3, <4>2, <5>1
      <4> QED BY <4>1, <4>2
    <3>8. InOrder' /\ f \in u'.set /\ EndOf(f)' = p + 1 /\ u'.len[f] > 0
      BY <1>a, <1>b, <1>3, <2>5, <3>2, <3>6, <3>7, FieldGrows
    <3>9. /\ u'.set \subseteq u.set \cup {f}
          /\ \A g \in Field \ {f} : u'.off[g] = u.off[g] /\ u'.len[g] = u.len[g]
      BY <1>b, <3>2, <3>7, Touched
    <3>10. PortIsDigits'
      <4>1. CASE f # "PORT"
        <5>1. "PORT" \notin u.set BY <1>3, <2>6, <3>4, <4>1 DEF HostLaid
        <5> QED BY <3>9, <4>1, <5>1 DEF PortIsDigits
      <4>2. CASE f = "PORT"
        <5>1. At(buf, p) \in Num BY <2>2, <2>6, <3>4, <4>2
        <5>2. ASSUME NEW i \in FieldPlaces(f)' PROVE i = p \/ (f \in u.set /\ i \in FieldPlaces(f))
          <6>1. i \in u'.off[f]..(u'.off[f] + u'.len[f] - 1) BY <5>2 DEF FieldPlaces
          <6>2. u'.off[f] + u'.len[f] = p + 1 BY <3>8 DEF EndOf
          <6>3. i \in Int /\ u'.off[f] <= i /\ i <= p
            <7>1. u' \in URecord BY <1>b, <3>2, <3>7, Touched
            <7>2. u'.off[f] \in Int /\ u'.len[f] \in Int
              BY <3>2, <7>1, UrlAssumption DEF URecord
            <7>3. u'.off[f] + u'.len[f] - 1 = p BY <1>b, <6>2, <7>2
            <7> QED BY <1>b, <6>1, <7>2, <7>3
          <6>4. CASE u' = More(u, f) /\ f \in u.set /\ EndOf(f) = p
            <7>1. u'.off = u.off BY <1>b, <3>2, <6>4, MoreType
            <7>2. u.off[f] \in Nat /\ u.off[f] + u.len[f] = p
              BY <1>b, <3>2, <6>4 DEF EndOf
            <7>3. i = p \/ i \in u.off[f]..(p - 1) BY <1>b, <6>3, <7>1, <7>2
            <7>4. u.off[f] + u.len[f] - 1 = p - 1 BY <1>b, <3>2, <7>2
            <7>5. FieldPlaces(f) = u.off[f]..(p - 1) BY <7>4 DEF FieldPlaces
            <7> QED BY <6>4, <7>3, <7>5
          <6>5. CASE u' = Begin(u, f, p)
            <7>1. u'.off[f] = p % Width BY <1>b, <3>2, <6>5 DEF Begin, URecord
            <7>2. p < Width BY <1>b, <2>5, UrlAssumption
            <7>3. u'.off[f] = p BY <1>b, <7>1, <7>2, SmallMod, UrlAssumption
            <7>4. p <= i /\ p \in Int BY <1>b, <6>3, <7>3
            <7>5. i = p BY <6>3, <7>4
            <7> QED BY <7>5
          <6> QED BY <3>7, <6>4, <6>5
        <5>3. \A i \in FieldPlaces(f) : f \in u.set => At(buf, i) \in Num
          BY <1>3, <4>2 DEF PortIsDigits
        <5>4. \A i : At(buf, i)' = At(buf, i) BY <1>1 DEF At
        <5> QED BY <4>2, <5>1, <5>2, <5>3, <5>4 DEF PortIsDigits
      <4> QED BY <4>1, <4>2
    <3>11. HostLaid'
      <4>1. \A g \in Field \ {f} : EndOf(g)' = EndOf(g) BY <3>9 DEF EndOf
      <4>2. "SCHEMA" \in u'.set => EndOf("SCHEMA")' <= p'
        <5>1. "SCHEMA" \in Field /\ "SCHEMA" # f BY DEF Field, ServerField
        <5>2. "SCHEMA" \in u.set => EndOf("SCHEMA") <= p BY <1>3 DEF HostLaid
        <5>3. EndOf("SCHEMA") \in Nat BY <1>b, <5>1
        <5> QED BY <1>b, <2>4, <3>9, <4>1, <5>1, <5>2, <5>3
      <4>3. \A g \in u'.set \cap TailField : buflen' <= u'.off[g]
        <5>1. \A g \in TailField : g \in Field \ {f}
          BY DEF TailField, Field, ServerField
        <5> QED BY <1>1, <1>3, <3>9, <5>1 DEF HostLaid
      <4>4. ASSUME NEW g \in u'.set
            PROVE  u'.len[g] > 0 \/ (g = "HOST" /\ s' \in HostAhead)
        <5>1. CASE g = f BY <3>8, <5>1
        <5>2. CASE g # f
          <6>1. g \in u.set /\ g \in Field BY <1>b, <3>9, <5>2
          <6>2. u'.len[g] = u.len[g] BY <3>9, <5>2, <6>1
          <6>3. u.len[g] > 0 \/ (g = "HOST" /\ s \in HostAhead)
            BY <1>3, <6>1 DEF HostLaid
          <6>4. g = "HOST" /\ s \in HostAhead => s' \in HostAhead
            BY <2>4, <2>6, <3>4, <5>2
          <6> QED BY <6>2, <6>3, <6>4
        <5> QED BY <5>1, <5>2
      <4>5. EndOf(f)' = p' BY <2>4, <3>8
      <4>6. s' = "host_port" \/ "PORT" \notin u'.set
        BY <1>3, <2>4, <2>6, <3>4, <3>9 DEF HostLaid
      <4> QED BY <2>4, <2>5, <2>6, <3>4, <3>8, <4>2, <4>3, <4>4, <4>5, <4>6 DEF HostLaid
    <3> QED BY <2>4, <3>8, <3>10, <3>11 DEF Laid
  <2> QED BY <2>7, <2>8
<1> QED BY <1>4, <1>5

LEMMA NextLaid ==
  ASSUME IInv, [Next]_vars, Safe' PROVE Laid'
<1>1. Safe /\ (Fits' => Fits) BY BufGrows DEF IInv
<1>2. CASE \E c \in UrlByte : FieldsDead(c) \/ FieldsDelimiter(c) \/ FieldsByte(c)
  BY <1>1, <1>2, FieldsDeadLaid, FieldsDelimiterLaid, FieldsByteLaid
<1>3. CASE FieldsEnd BY <1>3, FieldsEndLaid
<1>4. CASE HostByte BY <1>4, HostByteLaid
<1>5. CASE HostLoopEnd BY <1>5, HostLoopEndLaid
<1>6. CASE PortByte BY <1>6, PortByteLaid
<1>7. CASE PortEnd BY <1>7, PortEndLaid
<1>8. CASE UNCHANGED vars
  BY <1>8 DEF vars, IInv, Laid, Fits, InOrder, EndOf, PortIsDigits, FieldPlaces, At,
              FieldsLaid, HostLaid
<1> QED BY <1>2, <1>3, <1>4, <1>5, <1>6, <1>7, <1>8 DEF Next, Done

-----------------------------------------------------------------------------
(* The theorems.                                                           *)

\* The call stays inside the url, whatever its length, and the fields lie in
\* order while their places fit.
THEOREM Invariance == Spec => []IInv
<1>1. Init => IInv BY SafeInit, LaidInit DEF IInv
<1>2. IInv /\ [Next]_vars => IInv' BY NextSafe, NextLaid DEF IInv
<1> QED BY <1>1, <1>2, PTL DEF Spec

\* Offsets, lengths and the port keep the types that they have in the code.
THEOREM TypeCorrectness == Spec => []TypeOK
<1>1. IInv => TypeOK BY DEF IInv, Safe
<1> QED BY <1>1, Invariance, PTL

\* No url, however long, breaks an assert() of the call.
THEOREM AssertsCorrectness == Spec => []AssertsHold
<1>1. IInv => AssertsHold
  BY DEF IInv, Safe, StatesFit, InsideUrl, AssertsHold
<1> QED BY <1>1, Invariance, PTL

\* The loop over a port sees what the loop over the server found to be digits.
THEOREM PortCharsCorrectness == Spec => []PortCharsAreDigits
<1>1. IInv => PortCharsAreDigits
  <2> SUFFICES ASSUME IInv, Fits, pc = "port", p < buflen
               PROVE  p < Len(buf) /\ At(buf, p) \in Num
    BY DEF PortCharsAreDigits
  <2>1. /\ p \in Nat /\ Len(buf) \in Nat /\ buflen \in Nat /\ buflen <= Len(buf)
        /\ u.off["PORT"] \in Nat /\ u.len["PORT"] \in Nat
    BY SafeFacts DEF IInv, Safe, InsideUrl, Field
  <2>2. /\ u.off["PORT"] <= p /\ buflen = u.off["PORT"] + u.len["PORT"]
        /\ \A i \in FieldPlaces("PORT") : At(buf, i) \in Num
    BY DEF IInv, Laid, PortIsDigits, EndOf
  <2>3. p \in FieldPlaces("PORT") BY <2>1, <2>2 DEF FieldPlaces
  <2> QED BY <2>1, <2>2, <2>3
<1> QED BY <1>1, Invariance, PTL

\* Fields lie inside the url and apart from each other, for every url that
\* offsets can hold.
THEOREM FieldsCorrectness == Spec => []FieldsApart
<1>1. IInv => FieldsApart
  <2> SUFFICES ASSUME IInv, Fits PROVE FieldsApart BY DEF FieldsApart
  <2>1. /\ u.set \subseteq Field /\ Len(buf) \in Nat
        /\ \A f \in Field : u.off[f] \in Nat /\ u.len[f] \in Nat
        /\ \A f \in Field : EndOf(f) <= Len(buf)
        /\ pc = "fields" => \A f \in Field : EndOf(f) <= p
    BY SafeFacts DEF IInv, Safe, InsideUrl
  <2>2. InOrder /\ (pc = "host" => HostLaid) BY DEF IInv, Laid
  <2>3. ASSUME NEW f \in u.set PROVE FieldPlaces(f) \subseteq 0..(Len(buf) - 1)
    <3>1. u.off[f] \in Nat /\ u.len[f] \in Nat /\ u.off[f] + u.len[f] <= Len(buf)
      BY <2>1 DEF EndOf
    <3> QED BY <2>1, <3>1 DEF FieldPlaces
  <2>4. ASSUME NEW f \in u.set, NEW g \in u.set, Rank[f] < Rank[g]
        PROVE  FieldPlaces(f) \cap FieldPlaces(g) = {}
    <3>1. /\ u.off[f] \in Nat /\ u.len[f] \in Nat /\ u.off[g] \in Nat /\ u.len[g] \in Nat
          /\ u.len[g] > 0 => u.off[f] + u.len[f] <= u.off[g]
      BY <2>1, <2>2, <2>4 DEF EndOf, InOrder
    <3> QED BY <3>1 DEF FieldPlaces
  <2>5. ASSUME NEW f \in u.set, NEW g \in u.set, f # g
        PROVE  FieldPlaces(f) \cap FieldPlaces(g) = {}
    <3>1. Rank[f] < Rank[g] \/ Rank[g] < Rank[f] BY <2>1, <2>5, RankApart
    <3> QED BY <2>4, <3>1
  <2>6. pc = "host" /\ "PATH" \in u.set => buflen <= u.off["PATH"]
    BY <2>2 DEF HostLaid, TailField
  <2>7. pc = "fields" => \A f \in u.set : u.off[f] + u.len[f] <= p
    BY <2>1 DEF EndOf
  <2> QED BY <2>3, <2>5, <2>6, <2>7 DEF FieldsApart
<1> QED BY <1>1, Invariance, PTL
=============================================================================
