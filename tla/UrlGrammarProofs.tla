--------------------------- MODULE UrlGrammarProofs ---------------------------
(***************************************************************************)
(* UrlParser accepts just the urls of UrlGrammar, and finds their parts,   *)
(* for urls of any length that an offset can hold and whatever the limit   *)
(* of a port.                                                              *)
(*                                                                         *)
(* The invariant is Parsed: an account, in the words of the grammar, of    *)
(* what each loop has read up to the place it is at.  The account of the   *)
(* first loop is ReadSoFar, that of the loop over the server ServerSoFar.  *)
(* Three kinds of facts keep it, most of them about any url and any        *)
(* lengths, not about a state: a byte that leads on keeps the account      *)
(* (ReadStep, ServerSoFarStep); a byte that leads nowhere, or an end that  *)
(* comes too early, is one that the grammar has no url for (ReadDead,      *)
(* ReadStops, HostDead); and the account at the end of a loop is what the  *)
(* grammar says (ReadIsGrammar, HostIsGrammar).                            *)
(***************************************************************************)
EXTENDS UrlProofs, WellFoundedInduction

-----------------------------------------------------------------------------
(* What was read of a url, by the lengths of the fields found so far.      *)

\* A server that is not yet taken apart.
ServerChar == UserinfoChar \cup {"@", "[", "]"}

HasServer(connect, len) == connect \/ len["SCHEMA"] > 0

\* Where server, path and query begin.
ServerAt(connect, len) == IF connect THEN 0 ELSE len["SCHEMA"] + 3

PathAt(connect, len) ==
  IF HasServer(connect, len) THEN ServerAt(connect, len) + len["HOST"] ELSE 0

QueryAt(connect, len) == PathAt(connect, len) + len["PATH"]

HashAt(url, connect, len) ==
  LET q == QueryAt(connect, len)
  IN  IF At(url, q) = "?" THEN q + 1 + len["QUERY"] ELSE q

SchemaRead(url, n) == n > 0 /\ Only(url, 0..(n - 1), Alpha)

SlashesRead(url, connect, n) ==
  IF connect THEN n = 0
  ELSE /\ SchemaRead(url, n)
       /\ At(url, n) = ":" /\ At(url, n + 1) = "/" /\ At(url, n + 2) = "/"

ServerRead(url, connect, len) ==
  /\ SlashesRead(url, connect, len["SCHEMA"])
  /\ Only(url, ServerAt(connect, len)..(PathAt(connect, len) - 1), ServerChar)

PathRead(url, connect, len) ==
  /\ IF HasServer(connect, len)
     THEN /\ ServerRead(url, connect, len)
          /\ len["PATH"] > 0 => At(url, PathAt(connect, len)) = "/"
     ELSE len["HOST"] = 0 /\ len["PATH"] > 0 /\ At(url, 0) \in {"/", "*"}
  /\ Only(url, PathAt(connect, len)..(QueryAt(connect, len) - 1), UrlChar)

QueryRead(url, connect, len) ==
  LET q == QueryAt(connect, len)
  IN  At(url, q) = "?" /\ Only(url, (q + 1)..(q + len["QUERY"]), UrlChar \cup {"?"})

\* Only # from the end of path and query up to place i.
HashesRead(url, connect, len, i) ==
  /\ PathRead(url, connect, len)
  /\ IF At(url, QueryAt(connect, len)) = "?" THEN QueryRead(url, connect, len)
     ELSE len["QUERY"] = 0 /\ len["PATH"] > 0
  /\ HashAt(url, connect, len) < i
  /\ Only(url, HashAt(url, connect, len)..(i - 1), {"#"})

\* Which is all of it before place i in state t; the fragment begins at place f.
ReadSoFar(t, url, connect, len, f, i) ==
  /\ \A g \in Field \ Found(t) : len[g] = 0
  /\ CASE t = "spaces_before_url" -> ~connect /\ i = 0
       [] t = "schema" ->
            ~connect /\ i = len["SCHEMA"] /\ SchemaRead(url, i)
       [] t = "schema_slash" ->
            /\ ~connect /\ i = len["SCHEMA"] + 1
            /\ SchemaRead(url, i - 1) /\ At(url, i - 1) = ":"
       [] t = "schema_slash_slash" ->
            /\ ~connect /\ i = len["SCHEMA"] + 2
            /\ SchemaRead(url, i - 2) /\ At(url, i - 2) = ":" /\ At(url, i - 1) = "/"
       [] t = "server_start" ->
            i = ServerAt(connect, len) /\ SlashesRead(url, connect, len["SCHEMA"])
       [] t \in {"server", "server_with_at"} ->
            /\ i = PathAt(connect, len) /\ len["HOST"] > 0
            /\ ServerRead(url, connect, len)
            /\ t = "server_with_at" => At(url, i - 1) = "@"
       [] t = "path" ->
            /\ i = QueryAt(connect, len) /\ len["PATH"] > 0
            /\ PathRead(url, connect, len)
       [] t \in {"query_string_start", "query_string"} ->
            /\ i = QueryAt(connect, len) + 1 + len["QUERY"]
            /\ t = "query_string_start" => len["QUERY"] = 0
            /\ PathRead(url, connect, len) /\ QueryRead(url, connect, len)
       [] t = "fragment_start" -> HashesRead(url, connect, len, i) /\ len["FRAGMENT"] = 0
       [] t = "fragment" ->
            /\ i = f + len["FRAGMENT"] /\ len["FRAGMENT"] > 0
            /\ HashesRead(url, connect, len, f) /\ At(url, f) # "#"
            /\ Only(url, f..(i - 1), UrlChar \cup {"?", "#"})
       [] OTHER -> FALSE

\* Each field of the first loop begins where what is before it ends.
Placed(connect, off, len) ==
  /\ len["SCHEMA"] > 0 => off["SCHEMA"] = 0
  /\ len["HOST"] > 0 => off["HOST"] = ServerAt(connect, len)
  /\ len["PATH"] > 0 => off["PATH"] = PathAt(connect, len)
  /\ len["QUERY"] > 0 => off["QUERY"] = QueryAt(connect, len) + 1

\* The server, as far as it was read, has a @.
HasAt(url, connect, len) ==
  \E i \in ServerAt(connect, len)..(PathAt(connect, len) - 1) : At(url, i) = "@"

FieldsRead ==
  /\ ReadSoFar(s, buf, is_connect, u.len, u.off["FRAGMENT"], p)
  /\ Placed(is_connect, u.off, u.len)
  /\ \A f \in Field : f \in u.set <=> u.len[f] > 0
  /\ found_at <=> HasAt(buf, is_connect, u.len)

-----------------------------------------------------------------------------
(* What was read of a server.                                              *)

AddressChar == Hex \cup {":", "."}

\* Where the host begins, if the server begins at i; and where a host that
\* begins at h ends.
HostAt(i, found, len) == IF found THEN i + len["USERINFO"] + 1 ELSE i

ClosedAt(url, h, len) == h + len["HOST"] + IF At(url, h) = "[" THEN 2 ELSE 0

\* From i to j is an address, and a zone that begins at k.
ZoneRead(url, i, k, j) ==
  /\ i < k /\ k <= j /\ Only(url, i..(k - 1), AddressChar)
  /\ At(url, k) = "%" /\ Only(url, (k + 1)..j, ZoneChar)

HostRead(url, h, len) ==
  LET n == len["HOST"]
  IN  /\ n > 0
      /\ IF At(url, h) = "["
         THEN /\ At(url, h + n + 1) = "]"
              /\ \/ Only(url, (h + 1)..(h + n), AddressChar)
                 \/ \E k \in (h + 2)..(h + n - 1) : ZoneRead(url, h + 1, k, h + n)
         ELSE Only(url, h..(h + n - 1), HostChar)

HostFieldsOf(t) ==
  CASE t = "userinfo_start" -> {}
    [] t \in {"userinfo", "host_start", "host_v6_start"} -> {"USERINFO"}
    [] t = "host_port" -> {"USERINFO", "HOST", "PORT"}
    [] OTHER -> {"USERINFO", "HOST"}

\* In the user information, and past it.
InUserinfo == {"userinfo_start", "userinfo"}

PastUserinfo(url, found, len, first) ==
  /\ Only(url, first..(first + len["USERINFO"] - 1), UserinfoChar)
  /\ IF found THEN At(url, HostAt(first, found, len) - 1) = "@" ELSE len["USERINFO"] = 0

\* All of it before place i in state t, if the host begins at h.
HostSoFar(t, url, h, len, i) ==
  LET n == len["HOST"]
      e == ClosedAt(url, h, len)
  IN  CASE t = "host_start" -> i = h
        [] t = "host_v6_start" -> i = h + 1 /\ At(url, h) = "["
        [] t = "host" -> i = h + n /\ n > 0 /\ Only(url, h..(i - 1), HostChar)
        [] t = "host_v6" ->
             /\ i = h + 1 + n /\ n > 0 /\ At(url, h) = "["
             /\ Only(url, (h + 1)..(i - 1), AddressChar)
        [] t = "host_v6_zone_start" ->
             /\ i = h + 1 + n /\ At(url, h) = "["
             /\ ZoneRead(url, h + 1, i - 1, i - 1)
        [] t = "host_v6_zone" ->
             /\ i = h + 1 + n /\ At(url, h) = "["
             /\ \E k \in (h + 2)..(i - 2) : ZoneRead(url, h + 1, k, i - 1)
        [] t = "host_v6_end" -> i = e /\ At(url, h) = "[" /\ HostRead(url, h, len)
        [] t = "host_port_start" ->
             i = e + 1 /\ At(url, e) = ":" /\ HostRead(url, h, len)
        [] t = "host_port" ->
             /\ i = e + 1 + len["PORT"] /\ len["PORT"] > 0
             /\ At(url, e) = ":" /\ HostRead(url, h, len)
             /\ Only(url, (e + 1)..(i - 1), Num)
        [] OTHER -> FALSE

ServerSoFar(t, url, found, len, first, i) ==
  /\ \A g \in ServerField \ HostFieldsOf(t) : len[g] = 0
  /\ IF t \in InUserinfo
     THEN /\ found /\ i = first + len["USERINFO"]
          /\ Only(url, first..(i - 1), UserinfoChar)
     ELSE /\ PastUserinfo(url, found, len, first)
          /\ HostSoFar(t, url, HostAt(first, found, len), len, i)

\* The fields of the server begin where what is before them ends.
ServerPlaced(url, found, off, len, first) ==
  LET h == HostAt(first, found, len)
  IN  /\ len["USERINFO"] > 0 => off["USERINFO"] = first
      /\ len["HOST"] > 0 => off["HOST"] = h + IF At(url, h) = "[" THEN 1 ELSE 0
      /\ len["PORT"] > 0 => off["PORT"] = ClosedAt(url, h, len) + 1

\* The parts of f that the grammar says are the places of the field.
PartsAre(fields) ==
  \A f \in fields :
    Parts(buf, is_connect)[f] = IF f \in u.set THEN FieldPlaces(f) ELSE {}

\* The parts that the first loop finds.
OtherFields == Field \ ServerField

ServerFields ==
  /\ SchemaOK(buf, is_connect) /\ RestOK(buf, is_connect)
  /\ is_connect \/ Absolute(buf)
  /\ PartsAre(OtherFields)
  /\ \A f \in OtherFields : f \in u.set <=> u.len[f] > 0
  /\ \A f \in {"USERINFO", "PORT"} : f \in u.set <=> u.len[f] > 0
  /\ buflen = ServerEnd(buf, is_connect)
  /\ found_at <=> AtSign(buf, is_connect) # {}
  /\ ServerSoFar(s, buf, found_at, u.len, ServerFrom(buf, is_connect), p)
  /\ ServerPlaced(buf, found_at, u.off, u.len, ServerFrom(buf, is_connect))

PortFields ==
  /\ WellFormed(buf, is_connect, MaxPort) <=>
       PortValue(buf, Parts(buf, is_connect)["PORT"]) <= MaxPort
  /\ PartsAre(Field)
  /\ v = PortValue(buf, u.off["PORT"]..(p - 1))

Parsed ==
  Fits =>
    /\ pc = "fields" => FieldsRead
    /\ pc = "host" => ServerFields
    /\ pc = "port" => PortFields
    /\ pc # "done" => u.port = 0
    /\ pc \in {"fields", "host"} => v = 0
    /\ ResultIsTheGrammar

-----------------------------------------------------------------------------
(* Places in a url.                                                        *)

\* A set of numbers that is not empty has a lowest.
LEMMA LowestIn ==
  ASSUME NEW S \in SUBSET Nat, S # {}
  PROVE  \E x \in S : \A y \in S : x <= y
<1>1. PICK x \in S : \A y \in S : ~(<<y, x>> \in OpToRel(<, Nat))
  BY NatLessThanWellFounded, WFMin
<1>2. ASSUME NEW y \in S PROVE x <= y
  <2>1. y \in Nat /\ x \in Nat OBVIOUS
  <2>2. y < x => <<y, x>> \in OpToRel(<, Nat) BY <2>1 DEF OpToRel
  <2>3. ~(y < x) BY <1>1, <2>2
  <2> QED BY <2>1, <2>3
<1> QED BY <1>2

\* The first place with one of bytes is one, and none is before it.
LEMMA FirstExists ==
  ASSUME NEW url \in Seq(UrlByte), NEW bytes, NEW i \in Nat, i <= Len(url)
  PROVE  LET k == FirstOf(url, bytes, i)
         IN  /\ k \in i..Len(url)
             /\ k = Len(url) \/ At(url, k) \in bytes
             /\ \A j \in i..(k - 1) : At(url, j) \notin bytes
<1> DEFINE S == {k \in i..Len(url) : k = Len(url) \/ At(url, k) \in bytes}
<1>1. S \in SUBSET Nat /\ Len(url) \in S OBVIOUS
<1>2. PICK k \in S : \A j \in S : k <= j BY <1>1, LowestIn
<1>3. /\ k \in i..Len(url) /\ (k = Len(url) \/ At(url, k) \in bytes)
      /\ \A j \in i..(k - 1) : At(url, j) \notin bytes
  BY <1>1, <1>2
<1> QED BY <1>3 DEF FirstOf

\* It is the only such place.
LEMMA FirstIs ==
  ASSUME NEW url \in Seq(UrlByte), NEW bytes, NEW i \in Nat, NEW k \in i..Len(url),
         k = Len(url) \/ At(url, k) \in bytes,
         \A j \in i..(k - 1) : At(url, j) \notin bytes
  PROVE  FirstOf(url, bytes, i) = k
<1> DEFINE f == FirstOf(url, bytes, i)
<1>1. /\ f \in i..Len(url) /\ (f = Len(url) \/ At(url, f) \in bytes)
      /\ \A j \in i..(f - 1) : At(url, j) \notin bytes
  BY FirstExists
<1> HIDE DEF f
<1>2. ~(f < k) /\ ~(k < f) BY <1>1
<1> QED BY <1>1, <1>2 DEF f

-----------------------------------------------------------------------------
(* The number that digits spell.                                           *)

\* w has at each of the places what the digits up to it are worth.
IsWorth(url, places, w) ==
  w = [i \in places |->
         MinusZero[At(url, i)] + 10 * IF i - 1 \in places THEN w[i - 1] ELSE 0]

\* A digit is worth what it says.
LEMMA DigitWorth ==
  MinusZero["0"] = 0 /\ MinusZero["9"] = 9 /\ \A c \in Num : MinusZero[c] \in 0..9
<1>1. Num \subseteq UrlByte \ {"bad"}
  BY DEF UrlByte, UrlChar, UserinfoChar, AlphaNum, Num
<1>2. /\ MinusZero["0"] = 0 /\ MinusZero["1"] = 1 /\ MinusZero["2"] = 2
      /\ MinusZero["3"] = 3 /\ MinusZero["4"] = 4
  BY <1>1, SMTT(30) DEF MinusZero, Num
<1>3. /\ MinusZero["5"] = 5 /\ MinusZero["6"] = 6 /\ MinusZero["7"] = 7
      /\ MinusZero["8"] = 8 /\ MinusZero["9"] = 9
  BY <1>1, SMTT(30) DEF MinusZero, Num
<1> QED BY <1>2, <1>3 DEF Num

\* There is such a number for any places in a row.
LEMMA WorthExists ==
  ASSUME NEW url, NEW a \in Nat, NEW m \in Nat
  PROVE  \E w : IsWorth(url, a..(a + m - 1), w)
<1> DEFINE S == {k \in Nat : ~ \E w : IsWorth(url, a..(a + k - 1), w)}
<1>1. SUFFICES ASSUME S # {} PROVE FALSE OBVIOUS
<1>2. PICK k \in S : \A j \in S : k <= j
  <2>1. S \in SUBSET Nat OBVIOUS
  <2> QED BY <1>1, <2>1, LowestIn
<1>3. CASE k = 0
  <2>1. a..(a + k - 1) = {} BY <1>3
  <2>2. IsWorth(url, {}, [i \in {} |-> 0]) BY DEF IsWorth
  <2> QED BY <1>2, <2>1, <2>2
<1>4. CASE k # 0
  <2>1. k - 1 \in Nat /\ k - 1 \notin S BY <1>2, <1>4
  <2>2. PICK w : IsWorth(url, a..(a + (k - 1) - 1), w) BY <2>1
  <2> DEFINE q == a + k - 1
             d(i) == MinusZero[At(url, i)]
             z == [i \in a..q |->
                     IF i = q THEN d(i) + 10 * IF k = 1 THEN 0 ELSE w[i - 1] ELSE w[i]]
  <2>3. ASSUME NEW i \in a..q
        PROVE  z[i] = d(i) + 10 * IF i - 1 \in a..q THEN z[i - 1] ELSE 0
    <3>1. CASE i = q BY <3>1
    <3>2. CASE i # q
      <4>1. i \in a..(a + (k - 1) - 1) /\ (i - 1 \in a..q <=> i - 1 \in a..(a + (k - 1) - 1))
        BY <3>2
      <4>2. w[i] = d(i) + 10 * IF i - 1 \in a..(a + (k - 1) - 1) THEN w[i - 1] ELSE 0
        BY <2>2, <4>1 DEF IsWorth
      <4>3. z[i] = w[i] /\ (i - 1 \in a..q => z[i - 1] = w[i - 1]) BY <3>2
      <4> QED BY <4>1, <4>2, <4>3
    <3> QED BY <3>1, <3>2
  <2>4. z = [i \in a..q |-> z[i]] OBVIOUS
  <2> HIDE DEF z
  <2>5. z = [i \in a..q |-> d(i) + 10 * IF i - 1 \in a..q THEN z[i - 1] ELSE 0]
    BY <2>3, <2>4
  <2>6. IsWorth(url, a..q, z) BY <2>5 DEF IsWorth
  <2> QED BY <1>2, <2>6
<1> QED BY <1>3, <1>4

\* It is the same in a longer number.
LEMMA WorthAgrees ==
  ASSUME NEW url, NEW a \in Nat, NEW m \in Int, NEW n \in Int, m <= n,
         NEW w, IsWorth(url, a..m, w), NEW z, IsWorth(url, a..n, z)
  PROVE  \A i \in a..m : w[i] = z[i]
<1> DEFINE S == {i \in a..m : w[i] # z[i]}
<1>1. SUFFICES ASSUME S # {} PROVE FALSE OBVIOUS
<1>2. PICK k \in S : \A j \in S : k <= j
  <2>1. S \in SUBSET Nat OBVIOUS
  <2> QED BY <1>1, <2>1, LowestIn
<1>3. k \in a..m /\ k \in a..n /\ (k - 1 \in a..m <=> k - 1 \in a..n) BY <1>2
<1>4. /\ w[k] = MinusZero[At(url, k)] + 10 * IF k - 1 \in a..m THEN w[k - 1] ELSE 0
      /\ z[k] = MinusZero[At(url, k)] + 10 * IF k - 1 \in a..n THEN z[k - 1] ELSE 0
  BY <1>3 DEF IsWorth
<1>5. k - 1 \in a..m => w[k - 1] = z[k - 1] BY <1>2, <1>3
<1> QED BY <1>2, <1>3, <1>4, <1>5

\* No digits spell 0.
LEMMA PortNone == ASSUME NEW url PROVE PortValue(url, {}) = 0
BY DEF PortValue

\* The value of a port is what its last digit is worth with those before it.
LEMMA PortIsWorth ==
  ASSUME NEW url, NEW a \in Nat, NEW q \in Nat, a <= q
  PROVE  \E w : IsWorth(url, a..q, w) /\ PortValue(url, a..q) = w[q]
<1> DEFINE w == CHOOSE w : IsWorth(url, a..q, w)
<1>1. IsWorth(url, a..q, w)
  <2>1. q - a + 1 \in Nat /\ a + (q - a + 1) - 1 = q OBVIOUS
  <2>2. \E x : IsWorth(url, a..(a + (q - a + 1) - 1), x) BY <2>1, WorthExists
  <2> QED BY <2>1, <2>2
<1>2. (CHOOSE i \in a..q : i + 1 \notin a..q) = q
  <2>1. \A i \in a..q : i + 1 \notin a..q <=> i = q OBVIOUS
  <2>2. q \in a..q OBVIOUS
  <2> QED BY <2>1, <2>2
<1>3. a..q # {} OBVIOUS
<1>4. PortValue(url, a..q) = w[q]
  BY <1>2, <1>3 DEF PortValue, IsWorth
<1> QED BY <1>1, <1>4

\* A digit more.
LEMMA PortMore ==
  ASSUME NEW url, NEW a \in Nat, NEW q \in Nat, a <= q, At(url, q) \in Num,
         PortValue(url, a..(q - 1)) \in Int
  PROVE  PortValue(url, a..q) = PortValue(url, a..(q - 1)) * 10 + MinusZero[At(url, q)]
<1>a. MinusZero[At(url, q)] \in Int BY DigitWorth
<1>1. PICK w : IsWorth(url, a..q, w) /\ PortValue(url, a..q) = w[q] BY PortIsWorth
<1>2. w[q] = MinusZero[At(url, q)] + 10 * IF q - 1 \in a..q THEN w[q - 1] ELSE 0
  BY <1>1 DEF IsWorth
<1>3. CASE a = q
  <2>1. a..(q - 1) = {} /\ q - 1 \notin a..q BY <1>3
  <2> QED BY <1>a, <1>1, <1>2, <2>1, PortNone
<1>4. CASE a < q
  <2>1. q - 1 \in Nat /\ a <= q - 1 /\ q - 1 \in a..q /\ q - 1 \in a..(q - 1) BY <1>4
  <2>2. PICK z : IsWorth(url, a..(q - 1), z) /\ PortValue(url, a..(q - 1)) = z[q - 1]
    BY <2>1, PortIsWorth
  <2>3. \A i \in a..(q - 1) : z[i] = w[i]
    <3>1. q - 1 <= q /\ q - 1 \in Int OBVIOUS
    <3> QED BY <1>1, <2>2, <3>1, WorthAgrees
  <2>4. w[q - 1] = PortValue(url, a..(q - 1)) BY <2>1, <2>2, <2>3
  <2> QED BY <1>a, <1>1, <1>2, <2>1, <2>4
<1> QED BY <1>3, <1>4

\* A number does not become lower with more digits.
LEMMA PortGrows ==
  ASSUME NEW url, NEW a \in Nat, NEW m \in Int, NEW n \in Int, a - 1 <= m, m <= n,
         \A i \in a..n : At(url, i) \in Num
  PROVE  /\ PortValue(url, a..m) \in Nat
         /\ PortValue(url, a..m) <= PortValue(url, a..n)
<1> DEFINE V(k) == PortValue(url, a..(a + k - 1))
           S == {k \in Nat : a + k - 1 <= n
                    /\ ~(\A j \in 0..k : V(j) \in Nat /\ V(j) <= V(k))}
<1> HIDE DEF V
<1>1. S = {}
  <2>1. SUFFICES ASSUME S # {} PROVE FALSE OBVIOUS
  <2>2. PICK k \in S : \A j \in S : k <= j
    <3>1. S \in SUBSET Nat OBVIOUS
    <3> QED BY <2>1, <3>1, LowestIn
  <2>3. V(0) = 0
    <3>1. a..(a + 0 - 1) = {} OBVIOUS
    <3> QED BY <3>1, PortNone DEF V
  <2>4. CASE k = 0
    <3>1. \A j \in 0..k : j = 0 BY <2>4
    <3>2. \A j \in 0..k : V(j) \in Nat /\ V(j) <= V(k)
      BY <2>3, <2>4, <3>1
    <3> QED BY <2>2, <3>2
  <2>5. CASE k > 0
    <3>1. k - 1 \in Nat /\ k - 1 \notin S /\ a + (k - 1) - 1 <= n BY <2>2, <2>5
    <3>2. /\ V(k - 1) \in Nat
          /\ \A j \in 0..(k - 1) : V(j) \in Nat /\ V(j) <= V(k - 1)
      <4>1. \A j \in 0..(k - 1) : V(j) \in Nat /\ V(j) <= V(k - 1) BY <3>1
      <4>2. k - 1 \in 0..(k - 1) BY <3>1
      <4> QED BY <4>1, <4>2
    <3>3. /\ a + k - 1 \in Nat /\ a <= a + k - 1 /\ (a + k - 1) - 1 = a + (k - 1) - 1
          /\ At(url, a + k - 1) \in Num
      BY <2>2, <2>5
    <3>4. V(k) = V(k - 1) * 10 + MinusZero[At(url, a + k - 1)]
      <4>1. PortValue(url, a..((a + k - 1) - 1)) \in Int BY <3>2, <3>3 DEF V
      <4> QED BY <3>3, <4>1, PortMore DEF V
    <3>5. MinusZero[At(url, a + k - 1)] \in 0..9 BY <3>3, DigitWorth
    <3>6. V(k) \in Nat /\ V(k - 1) <= V(k) BY <3>2, <3>4, <3>5
    <3>7. ASSUME NEW j \in 0..k PROVE V(j) \in Nat /\ V(j) <= V(k)
      <4>1. CASE j = k BY <3>6, <4>1
      <4>2. CASE j # k
        <5>1. j \in 0..(k - 1) BY <4>2
        <5>2. V(j) \in Nat /\ V(j) <= V(k - 1) BY <3>2, <5>1
        <5> QED BY <3>2, <3>6, <5>2
      <4> QED BY <4>1, <4>2
    <3> QED BY <2>2, <3>6, <3>7
  <2> QED BY <2>2, <2>4, <2>5
<1>2. n - a + 1 \in Nat /\ m - a + 1 \in 0..(n - a + 1) /\ a + (n - a + 1) - 1 = n
      /\ a + (m - a + 1) - 1 = m
  OBVIOUS
<1>3. \A j \in 0..(n - a + 1) : V(j) \in Nat /\ V(j) <= V(n - a + 1)
  BY <1>1, <1>2
<1>4. V(m - a + 1) \in Nat /\ V(m - a + 1) <= V(n - a + 1) BY <1>2, <1>3
<1> QED BY <1>2, <1>4 DEF V

-----------------------------------------------------------------------------
(* The first loop reads by the grammar.                                    *)

QueryChar == UrlChar \cup {"?"}

FragmentChar == UrlChar \cup {"?", "#"}

\* Which bytes lead where.
LeadsTo(t, c, n) ==
  \/ n = "schema" /\ t \in {"spaces_before_url", "schema"} /\ c \in Alpha
  \/ n = "schema_slash" /\ t = "schema" /\ c = ":"
  \/ n = "schema_slash_slash" /\ t = "schema_slash" /\ c = "/"
  \/ n = "server_start" /\ t = "schema_slash_slash" /\ c = "/"
  \/ /\ n \in {"server", "server_with_at"} /\ t \in Server /\ c \in ServerChar
     /\ n = "server_with_at" <=> c = "@"
  \/ n = "path" /\ t = "spaces_before_url" /\ c \in {"/", "*"}
  \/ n = "path" /\ t \in Server /\ c = "/"
  \/ n = "path" /\ t = "path" /\ c \in UrlChar
  \/ n = "query_string_start" /\ t \in Server \cup {"path"} /\ c = "?"
  \/ /\ n = "query_string" /\ t \in {"query_string_start", "query_string"}
     /\ c \in QueryChar
  \/ /\ n = "fragment_start" /\ c = "#"
     /\ t \in {"path", "query_string_start", "query_string", "fragment_start"}
  \/ n = "fragment" /\ t = "fragment_start" /\ c \in QueryChar
  \/ n = "fragment" /\ t = "fragment" /\ c \in FragmentChar

\* The table is that of parse_url_char.
LEMMA CharTo ==
  ASSUME NEW t \in UrlState \ {"dead"}, NEW c \in UrlByte, NEW n,
         n = ParseUrlChar(t, c), n # "dead"
  PROVE  LeadsTo(t, c, n)
<1>1. "@" \notin UserinfoChar \cup {"[", "]"}
  BY DEF UserinfoChar, AlphaNum, Alpha, Num
<1> QED BY <1>1 DEF ParseUrlChar, LeadsTo, Server, ServerChar, QueryChar, FragmentChar

\* And which nowhere.
LEMMA CharDead ==
  ASSUME NEW t \in UrlState \ {"dead"}, NEW c \in UrlByte,
         ParseUrlChar(t, c) = "dead"
  PROVE  \/ t = "spaces_before_url" /\ c \notin Alpha \cup {"/", "*"}
         \/ t = "schema" /\ c \notin Alpha \cup {":"}
         \/ t \in {"schema_slash", "schema_slash_slash"} /\ c # "/"
         \/ t \in Server /\ c \notin ServerChar \cup {"/", "?"}
         \/ t = "server_with_at" /\ c = "@"
         \/ t \notin Server \cup {"spaces_before_url", "schema", "schema_slash",
                                  "schema_slash_slash"} /\ c = "bad"
BY DEF ParseUrlChar, UrlState, Server, ServerChar, UrlByte

\* The byte at i is read.
Follows(url, more, i, c) ==
  At(more, i) = c /\ \A j \in 0..(i - 1) : At(more, j) = At(url, j)

\* What is known of bytes before place i stays, or has one byte more.
LEMMA OnlyStays ==
  ASSUME NEW url, NEW more, NEW i \in Nat, NEW c, Follows(url, more, i, c),
         NEW a \in Nat, NEW b \in Int, b < i, NEW bytes, Only(url, a..b, bytes)
  PROVE  Only(more, a..b, bytes)
BY DEF Only, Follows, At

\* And the byte itself.
LEMMA OnlyMore ==
  ASSUME NEW url, NEW more, NEW i \in Nat, NEW c, Follows(url, more, i, c),
         NEW a \in Nat, NEW bytes, Only(url, a..(i - 1), bytes), c \in bytes
  PROVE  Only(more, a..i, bytes)
<1> SUFFICES ASSUME NEW j \in a..i PROVE At(more, j) \in bytes BY DEF Only
<1>1. CASE j = i BY <1>1 DEF Follows, At
<1>2. CASE j # i BY <1>2 DEF Only, Follows, At
<1> QED BY <1>1, <1>2

\* What was read stays as it is.
LEMMA SlashesStay ==
  ASSUME NEW url, NEW more, NEW i \in Nat, NEW c, Follows(url, more, i, c),
         NEW connect, NEW n \in Nat, n + 2 < i \/ connect,
         SlashesRead(url, connect, n)
  PROVE  SlashesRead(more, connect, n)
<1>1. CASE connect BY <1>1 DEF SlashesRead
<1>2. CASE ~connect
  <2>1. n > 0 /\ n + 2 < i /\ Only(url, 0..(n - 1), Alpha)
        /\ At(url, n) = ":" /\ At(url, n + 1) = "/" /\ At(url, n + 2) = "/"
    BY <1>2 DEF SlashesRead, SchemaRead
  <2>2. Only(more, 0..(n - 1), Alpha) BY <2>1, OnlyStays
  <2>3. At(more, n) = ":" /\ At(more, n + 1) = "/" /\ At(more, n + 2) = "/"
    BY <2>1 DEF Follows, At
  <2> QED BY <1>2, <2>1, <2>2, <2>3 DEF SlashesRead, SchemaRead
<1> QED BY <1>1, <1>2

Lengths == [Field -> Nat]

\* Places are numbers.
LEMMA PlacesNat ==
  ASSUME NEW len \in Lengths, NEW connect
  PROVE  /\ \A g \in {"SCHEMA", "HOST", "PATH", "QUERY", "FRAGMENT", "PORT", "USERINFO"} :
              len[g] \in Nat
         /\ ServerAt(connect, len) \in Nat
         /\ PathAt(connect, len) \in Nat
         /\ QueryAt(connect, len) \in Nat
<1>1. \A g \in {"SCHEMA", "HOST", "PATH", "QUERY", "FRAGMENT", "PORT", "USERINFO"} :
        len[g] \in Nat
  BY DEF Lengths, Field
<1>2. ServerAt(connect, len) \in Nat BY <1>1 DEF ServerAt
<1>3. PathAt(connect, len) \in Nat BY <1>1, <1>2 DEF PathAt
<1>4. QueryAt(connect, len) \in Nat BY <1>1, <1>3 DEF QueryAt
<1> QED BY <1>1, <1>2, <1>3, <1>4

\* The server stays, or has one byte more.
LEMMA ServerStays ==
  ASSUME NEW url, NEW more, NEW i \in Nat, NEW c, Follows(url, more, i, c),
         NEW connect, NEW len \in Lengths, PathAt(connect, len) <= i,
         HasServer(connect, len), ServerRead(url, connect, len)
  PROVE  ServerRead(more, connect, len)
<1> DEFINE a == ServerAt(connect, len)
           b == PathAt(connect, len)
<1>1. a \in Nat /\ b \in Nat /\ len["SCHEMA"] \in Nat /\ len["HOST"] \in Nat BY PlacesNat
<1>2. b = a + len["HOST"] BY DEF PathAt
<1>3. len["SCHEMA"] + 2 < i \/ connect BY <1>1, <1>2 DEF ServerAt
<1>4. SlashesRead(more, connect, len["SCHEMA"])
  BY <1>1, <1>3, SlashesStay DEF ServerRead
<1> HIDE DEF a, b
<1>5. Only(more, a..(b - 1), ServerChar)
  <2>1. b - 1 \in Int /\ b - 1 < i BY <1>1 DEF b
  <2> QED BY <1>1, <2>1, OnlyStays DEF ServerRead, a, b
<1> QED BY <1>4, <1>5 DEF ServerRead, a, b

\* So do a path and a query.
LEMMA PathStays ==
  ASSUME NEW url, NEW more, NEW i \in Nat, NEW c, Follows(url, more, i, c),
         NEW connect, NEW len \in Lengths, QueryAt(connect, len) <= i,
         PathRead(url, connect, len)
  PROVE  PathRead(more, connect, len)
<1> DEFINE a == PathAt(connect, len)
           b == QueryAt(connect, len)
<1>1. a \in Nat /\ b \in Nat /\ len["PATH"] \in Nat BY PlacesNat
<1>2. b = a + len["PATH"] BY DEF QueryAt
<1>3. Only(more, a..(b - 1), UrlChar)
  <2> HIDE DEF a, b
  <2>1. b - 1 \in Int /\ b - 1 < i BY <1>1 DEF b
  <2> QED BY <1>1, <2>1, OnlyStays DEF PathRead, a, b
<1>4. CASE HasServer(connect, len)
  <2>1. a <= i BY <1>1, <1>2
  <2>2. ServerRead(more, connect, len) BY <1>4, <2>1, ServerStays DEF PathRead
  <2>3. len["PATH"] > 0 => At(more, a) = "/"
    <3>1. len["PATH"] > 0 => At(url, a) = "/" BY <1>4 DEF PathRead
    <3>2. len["PATH"] > 0 => a \in 0..(i - 1) BY <1>1, <1>2
    <3> QED BY <3>1, <3>2 DEF Follows
  <2> QED BY <1>3, <1>4, <2>2, <2>3 DEF PathRead
<1>5. CASE ~HasServer(connect, len)
  <2>1. len["HOST"] = 0 /\ len["PATH"] > 0 /\ At(url, 0) \in {"/", "*"}
    BY <1>5 DEF PathRead
  <2>2. 0 \in 0..(i - 1) BY <1>1, <1>2, <2>1
  <2>3. At(more, 0) \in {"/", "*"} BY <2>1, <2>2 DEF Follows
  <2> QED BY <1>3, <1>5, <2>1, <2>3 DEF PathRead
<1> QED BY <1>4, <1>5

\* A query that was read stays, and so do the # behind it.
LEMMA QueryStays ==
  ASSUME NEW url, NEW more, NEW i \in Nat, NEW c, Follows(url, more, i, c),
         NEW connect, NEW len \in Lengths,
         QueryAt(connect, len) + len["QUERY"] < i,
         QueryRead(url, connect, len)
  PROVE  QueryRead(more, connect, len)
<1> DEFINE a == QueryAt(connect, len)
<1>1. a \in Nat /\ len["QUERY"] \in Nat BY PlacesNat
<1> HIDE DEF a
<1>2. At(more, a) = "?" BY <1>1 DEF QueryRead, Follows, a
<1>3. Only(more, (a + 1)..(a + len["QUERY"]), QueryChar)
  <2>1. a + len["QUERY"] < i /\ a + len["QUERY"] \in Int /\ a + 1 \in Nat
    BY <1>1 DEF a
  <2>2. Only(url, (a + 1)..(a + len["QUERY"]), QueryChar) BY DEF QueryRead, QueryChar, a
  <2> QED BY <2>1, <2>2, OnlyStays
<1> QED BY <1>2, <1>3 DEF QueryRead, QueryChar, a

\* As long as the fragment does not begin.
LEMMA HashesStay ==
  ASSUME NEW url, NEW more, NEW i \in Nat, NEW c, Follows(url, more, i, c),
         NEW connect, NEW len \in Lengths, NEW k \in 0..i,
         HashesRead(url, connect, len, k)
  PROVE  HashesRead(more, connect, len, k)
<1> DEFINE a == QueryAt(connect, len)
           h == HashAt(url, connect, len)
<1>1. a \in Nat /\ len["QUERY"] \in Nat BY PlacesNat
<1>2. h = IF At(url, a) = "?" THEN a + 1 + len["QUERY"] ELSE a BY DEF HashAt
<1>3. h < k /\ PathRead(url, connect, len) BY DEF HashesRead
<1>4. a < i /\ h \in Nat /\ a \in 0..(i - 1) BY <1>1, <1>2, <1>3
<1>5. At(more, a) = At(url, a) BY <1>4 DEF Follows
<1>6. HashAt(more, connect, len) = h BY <1>5 DEF HashAt
<1>7. PathRead(more, connect, len) BY <1>3, <1>4, PathStays
<1>8. ASSUME At(url, a) = "?" PROVE QueryRead(more, connect, len)
  <2>1. QueryRead(url, connect, len) BY <1>8 DEF HashesRead
  <2>2. a + len["QUERY"] < i BY <1>1, <1>2, <1>3, <1>8
  <2> QED BY <2>1, <2>2, QueryStays
<1>9. At(url, a) # "?" => len["QUERY"] = 0 /\ len["PATH"] > 0 BY DEF HashesRead
<1> HIDE DEF a, h
<1>10. Only(more, h..(k - 1), {"#"})
  <2>1. k - 1 \in Int /\ k - 1 < i OBVIOUS
  <2>2. Only(url, h..(k - 1), {"#"}) BY DEF HashesRead, h
  <2> QED BY <1>4, <2>1, <2>2, OnlyStays
<1> QED BY <1>3, <1>5, <1>6, <1>7, <1>8, <1>9, <1>10 DEF HashesRead, a, h

\* A field of the first loop has one byte more.
OneMore(len, then, f) ==
  then[f] = len[f] + 1 /\ \A g \in Field \ {f} : then[g] = len[g]

\* So the field has, and no other.
LEMMA OneMoreIs ==
  ASSUME NEW len \in Lengths, NEW then \in Lengths, NEW f, OneMore(len, then, f)
  PROVE  \A g \in {"SCHEMA", "HOST", "PATH", "QUERY", "FRAGMENT"} :
           then[g] = IF g = f THEN len[g] + 1 ELSE len[g]
BY DEF OneMore, Field

\* A byte that the first loop accepts goes on with what was read by the grammar.
LEMMA ReadSchema ==
  ASSUME NEW url, NEW more, NEW i \in Nat, NEW c, Follows(url, more, i, c),
         NEW connect, NEW len \in Lengths, NEW then \in Lengths,
         NEW f, NEW h, NEW t, ReadSoFar(t, url, connect, len, f, i),
         t \in {"spaces_before_url", "schema"}, c \in Alpha, OneMore(len, then, "SCHEMA")
  PROVE  ReadSoFar("schema", more, connect, then, h, i + 1)
<1>1. ~connect /\ i = len["SCHEMA"]
  <2>1. CASE t = "spaces_before_url"
    BY <2>1, PlacesNat DEF ReadSoFar, Found, Field
  <2>2. CASE t = "schema" BY <2>2 DEF ReadSoFar
  <2> QED BY <2>1, <2>2
<1>2. Only(url, 0..(i - 1), Alpha)
  <2>1. CASE i = 0 BY <2>1 DEF Only
  <2>2. CASE i # 0
    <3>1. t = "schema" BY <2>2 DEF ReadSoFar
    <3> QED BY <3>1 DEF ReadSoFar, SchemaRead
  <2> QED BY <2>1, <2>2
<1>3. Only(more, 0..i, Alpha) BY <1>2, OnlyMore
<1>4. then["SCHEMA"] = i + 1 BY <1>1, OneMoreIs
<1>5. SchemaRead(more, i + 1)
  <2>1. (i + 1) - 1 = i OBVIOUS
  <2> QED BY <1>3, <2>1 DEF SchemaRead
<1>6. \A g \in Field \ Found("schema") : then[g] = 0
  BY <1>1 DEF ReadSoFar, OneMore, Found
<1> QED BY <1>1, <1>4, <1>5, <1>6 DEF ReadSoFar

\* The colon and the slashes behind a schema.
LEMMA ReadColon ==
  ASSUME NEW url, NEW more, NEW i \in Nat, NEW c, Follows(url, more, i, c),
         NEW connect, NEW len \in Lengths,
         NEW f, NEW t, ReadSoFar(t, url, connect, len, f, i)
  PROVE  /\ t = "schema" /\ c = ":" =>
              ReadSoFar("schema_slash", more, connect, len, f, i + 1)
         /\ t = "schema_slash" /\ c = "/" =>
              ReadSoFar("schema_slash_slash", more, connect, len, f, i + 1)
         /\ t = "schema_slash_slash" /\ c = "/" =>
              ReadSoFar("server_start", more, connect, len, f, i + 1)
<1> DEFINE n == len["SCHEMA"]
<1>a. n \in Nat BY PlacesNat
<1>b. /\ (i + 1) - 1 = i /\ (i + 1) - 2 = i - 1
      /\ At(more, i) = c /\ \A j \in 0..(i - 1) : At(more, j) = At(url, j)
  BY DEF Follows
<1>1. ASSUME t = "schema", c = ":"
      PROVE  ReadSoFar("schema_slash", more, connect, len, f, i + 1)
  <2>1. ~connect /\ i = n /\ SchemaRead(url, n) BY <1>1 DEF ReadSoFar
  <2>2. SchemaRead(more, n)
    <3>1. n - 1 \in Int /\ n - 1 < i BY <1>a, <2>1
    <3> QED BY <2>1, <3>1, OnlyStays DEF SchemaRead
  <2>3. \A g \in Field \ Found("schema_slash") : len[g] = 0
    BY <1>1 DEF ReadSoFar, Found
  <2> QED BY <1>1, <1>b, <2>1, <2>2, <2>3 DEF ReadSoFar
<1>2. ASSUME t = "schema_slash", c = "/"
      PROVE  ReadSoFar("schema_slash_slash", more, connect, len, f, i + 1)
  <2>1. ~connect /\ i = n + 1 /\ SchemaRead(url, n) /\ At(url, n) = ":"
    <3>1. i - 1 = n BY <1>2, <1>a DEF ReadSoFar
    <3> QED BY <1>2, <3>1 DEF ReadSoFar
  <2>2. SchemaRead(more, n)
    <3>1. n - 1 \in Int /\ n - 1 < i BY <1>a, <2>1
    <3> QED BY <2>1, <3>1, OnlyStays DEF SchemaRead
  <2>3. n \in 0..(i - 1) /\ i + 1 = n + 2 /\ (i + 1) - 2 = n /\ (i + 1) - 1 = i
    BY <1>a, <2>1
  <2>4. At(more, n) = ":" BY <1>b, <2>1, <2>3
  <2>5. \A g \in Field \ Found("schema_slash_slash") : len[g] = 0
    BY <1>2 DEF ReadSoFar, Found
  <2> QED BY <1>2, <1>b, <2>1, <2>2, <2>3, <2>4, <2>5 DEF ReadSoFar
<1>3. ASSUME t = "schema_slash_slash", c = "/"
      PROVE  ReadSoFar("server_start", more, connect, len, f, i + 1)
  <2>1. /\ ~connect /\ i = n + 2 /\ SchemaRead(url, n)
        /\ At(url, n) = ":" /\ At(url, n + 1) = "/"
    <3>1. i - 2 = n /\ i - 1 = n + 1 BY <1>3, <1>a DEF ReadSoFar
    <3> QED BY <1>3, <3>1 DEF ReadSoFar
  <2>2. SchemaRead(more, n)
    <3>1. n - 1 \in Int /\ n - 1 < i BY <1>a, <2>1
    <3> QED BY <2>1, <3>1, OnlyStays DEF SchemaRead
  <2>3. n \in 0..(i - 1) /\ n + 1 \in 0..(i - 1) /\ i + 1 = n + 3 /\ n + 2 = i
    BY <1>a, <2>1
  <2>4. At(more, n) = ":" /\ At(more, n + 1) = "/" /\ At(more, n + 2) = "/"
    BY <1>b, <1>3, <2>1, <2>3
  <2>5. \A g \in Field \ Found("server_start") : len[g] = 0
    BY <1>3 DEF ReadSoFar, Found
  <2>6. SlashesRead(more, connect, n) BY <2>1, <2>2, <2>4 DEF SlashesRead
  <2>7. i + 1 = ServerAt(connect, len) BY <2>1, <2>3 DEF ServerAt
  <2> QED BY <2>5, <2>6, <2>7 DEF ReadSoFar
<1> QED BY <1>1, <1>2, <1>3

\* In a state of Server what was read is a server, if only an empty one.
LEMMA ServerSoFarRead ==
  ASSUME NEW url, NEW i \in Nat, NEW connect, NEW len \in Lengths,
         NEW f, NEW t, t \in Server, ReadSoFar(t, url, connect, len, f, i)
  PROVE  /\ i = PathAt(connect, len) /\ ServerRead(url, connect, len)
         /\ HasServer(connect, len) /\ i = ServerAt(connect, len) + len["HOST"]
         /\ \A g \in Field \ {"SCHEMA", "HOST"} : len[g] = 0
<1>a. len["HOST"] \in Nat /\ len["SCHEMA"] \in Nat /\ ServerAt(connect, len) \in Nat
  BY PlacesNat
<1>1. \A g \in Field \ {"SCHEMA", "HOST"} : len[g] = 0
  BY DEF ReadSoFar, Found, Server
<1>2. SlashesRead(url, connect, len["SCHEMA"])
  BY DEF ReadSoFar, Server, ServerRead
<1>3. HasServer(connect, len) BY <1>2 DEF SlashesRead, SchemaRead, HasServer
<1>4. PathAt(connect, len) = ServerAt(connect, len) + len["HOST"] BY <1>3 DEF PathAt
<1>5. CASE t = "server_start"
  <2>1. i = ServerAt(connect, len) /\ len["HOST"] = 0
    BY <1>5 DEF ReadSoFar, Found, Field
  <2>2. i = PathAt(connect, len) BY <1>a, <1>4, <2>1
  <2>3. ServerRead(url, connect, len)
    <3>1. ServerAt(connect, len)..(PathAt(connect, len) - 1) = {}
      BY <1>a, <1>4, <2>1
    <3> QED BY <1>2, <3>1 DEF ServerRead, Only
  <2> QED BY <1>1, <1>3, <1>4, <2>2, <2>3
<1>6. CASE t \in {"server", "server_with_at"}
  <2>1. i = PathAt(connect, len) /\ ServerRead(url, connect, len)
    BY <1>6 DEF ReadSoFar
  <2> QED BY <1>1, <1>3, <1>4, <2>1
<1> QED BY <1>5, <1>6 DEF Server

\* Where parts begin does not depend on those behind them.
LEMMA SamePlaces ==
  ASSUME NEW connect, NEW len \in Lengths, NEW then \in Lengths
  PROVE  /\ then["SCHEMA"] = len["SCHEMA"] =>
              /\ ServerAt(connect, then) = ServerAt(connect, len)
              /\ HasServer(connect, then) <=> HasServer(connect, len)
         /\ then["SCHEMA"] = len["SCHEMA"] /\ then["HOST"] = len["HOST"] =>
              PathAt(connect, then) = PathAt(connect, len)
         /\ then["SCHEMA"] = len["SCHEMA"] /\ then["HOST"] = len["HOST"]
              /\ then["PATH"] = len["PATH"] =>
              QueryAt(connect, then) = QueryAt(connect, len)
BY DEF ServerAt, HasServer, PathAt, QueryAt

\* The server has one byte more.
LEMMA ReadServer ==
  ASSUME NEW url, NEW more, NEW i \in Nat, NEW c, Follows(url, more, i, c),
         NEW connect, NEW len \in Lengths, NEW then \in Lengths,
         NEW f, NEW h, NEW t, t \in Server,
         ReadSoFar(t, url, connect, len, f, i),
         NEW n, n \in {"server", "server_with_at"}, n = "server_with_at" => c = "@",
         c \in ServerChar, OneMore(len, then, "HOST")
  PROVE  ReadSoFar(n, more, connect, then, h, i + 1)
<1>1. /\ i = PathAt(connect, len) /\ ServerRead(url, connect, len)
      /\ HasServer(connect, len) /\ i = ServerAt(connect, len) + len["HOST"]
      /\ \A g \in Field \ {"SCHEMA", "HOST"} : len[g] = 0
  BY ServerSoFarRead
<1>2. then["SCHEMA"] = len["SCHEMA"] /\ then["HOST"] = len["HOST"] + 1
  BY OneMoreIs
<1>3. /\ len["HOST"] \in Nat /\ ServerAt(connect, len) \in Nat BY PlacesNat
<1>4. /\ ServerAt(connect, then) = ServerAt(connect, len)
      /\ HasServer(connect, then)
  BY <1>1, <1>2, SamePlaces
<1>5. PathAt(connect, then) = i + 1
  <2>1. PathAt(connect, then) = ServerAt(connect, len) + then["HOST"]
    BY <1>4 DEF PathAt
  <2>2. then["HOST"] = len["HOST"] + 1 BY <1>2
  <2>3. i = ServerAt(connect, len) + len["HOST"] BY <1>1
  <2> QED BY <1>3, <2>1, <2>2, <2>3
<1>6. ServerRead(more, connect, then)
  <2>a. PathAt(connect, len) <= i BY <1>1
  <2>1. ServerRead(more, connect, len) BY <1>1, <2>a, ServerStays
  <2>2. Only(more, ServerAt(connect, len)..i, ServerChar)
    <3>1. Only(url, ServerAt(connect, len)..(i - 1), ServerChar)
      BY <1>1 DEF ServerRead
    <3> QED BY <1>3, <3>1, OnlyMore
  <2>3. (i + 1) - 1 = i OBVIOUS
  <2> QED BY <1>2, <1>4, <1>5, <2>1, <2>2, <2>3 DEF ServerRead
<1>7. \A g \in Field \ Found(n) : then[g] = 0
  BY <1>1 DEF OneMore, Found
<1>8. n = "server_with_at" => At(more, i + 1 - 1) = "@"
  <2>1. i + 1 - 1 = i OBVIOUS
  <2> QED BY <2>1 DEF Follows
<1> QED BY <1>2, <1>3, <1>5, <1>6, <1>7, <1>8 DEF ReadSoFar

\* The path, if any, ends before i.
LEMMA PathSoFarRead ==
  ASSUME NEW url, NEW i \in Nat, NEW connect, NEW len \in Lengths,
         NEW f, NEW t, t \in Server \cup {"path"},
         ReadSoFar(t, url, connect, len, f, i)
  PROVE  /\ i = QueryAt(connect, len) /\ PathRead(url, connect, len)
         /\ \A g \in Field \ {"SCHEMA", "HOST", "PATH"} : len[g] = 0
<1>a. PathAt(connect, len) \in Nat BY PlacesNat
<1>1. CASE t \in Server
  <2>1. /\ i = PathAt(connect, len) /\ ServerRead(url, connect, len)
        /\ HasServer(connect, len) /\ i = ServerAt(connect, len) + len["HOST"]
        /\ \A g \in Field \ {"SCHEMA", "HOST"} : len[g] = 0
    BY <1>1, ServerSoFarRead
  <2>2. len["PATH"] = 0 BY <2>1 DEF Field
  <2>3. QueryAt(connect, len) = PathAt(connect, len) BY <1>a, <2>2 DEF QueryAt
  <2>4. PathAt(connect, len)..(QueryAt(connect, len) - 1) = {} BY <1>a, <2>3
  <2>5. Only(url, PathAt(connect, len)..(QueryAt(connect, len) - 1), UrlChar)
    BY <2>4 DEF Only
  <2>6. PathRead(url, connect, len) BY <2>1, <2>2, <2>5 DEF PathRead
  <2> QED BY <2>1, <2>3, <2>6
<1>2. CASE t = "path"
  <2>1. \A g \in Field \ {"SCHEMA", "HOST", "PATH"} : len[g] = 0
    BY <1>2 DEF ReadSoFar, Found
  <2>2. i = QueryAt(connect, len) /\ PathRead(url, connect, len)
    BY <1>2 DEF ReadSoFar
  <2> QED BY <2>1, <2>2
<1> QED BY <1>1, <1>2

\* A path begins, or has one byte more.
LEMMA ReadPath ==
  ASSUME NEW url, NEW more, NEW i \in Nat, NEW c, Follows(url, more, i, c),
         NEW connect, NEW len \in Lengths, NEW then \in Lengths,
         NEW f, NEW h, NEW t,
         ReadSoFar(t, url, connect, len, f, i),
         \/ t = "spaces_before_url" /\ c \in {"/", "*"}
         \/ t \in Server /\ c = "/"
         \/ t = "path" /\ c \in UrlChar,
         OneMore(len, then, "PATH")
  PROVE  ReadSoFar("path", more, connect, then, h, i + 1)
<1>1. /\ then["SCHEMA"] = len["SCHEMA"] /\ then["HOST"] = len["HOST"]
      /\ then["PATH"] = len["PATH"] + 1
  BY OneMoreIs
<1>2. /\ \A g \in {"SCHEMA", "HOST", "PATH"} : len[g] \in Nat
      /\ PathAt(connect, len) \in Nat
  BY PlacesNat
<1>3. PathAt(connect, then) = PathAt(connect, len)
      /\ (HasServer(connect, then) <=> HasServer(connect, len))
  BY <1>1, SamePlaces
<1>b. QueryAt(connect, then) = PathAt(connect, len) + len["PATH"] + 1
  <2>1. QueryAt(connect, then) = PathAt(connect, len) + then["PATH"]
    BY <1>3 DEF QueryAt
  <2> QED BY <1>1, <1>2, <2>1
<1>4. c \in UrlChar /\ At(more, i) = c
  BY DEF UrlChar, UserinfoChar, Follows
<1>5. CASE t = "spaces_before_url"
  <2>1. /\ ~connect /\ i = 0 /\ \A g \in Field : len[g] = 0
        /\ c \in {"/", "*"}
    BY <1>5 DEF ReadSoFar, Found, Server
  <2>2. len["SCHEMA"] = 0 /\ len["HOST"] = 0 /\ len["PATH"] = 0 BY <2>1 DEF Field
  <2>3. ~HasServer(connect, len) /\ PathAt(connect, len) = 0
    BY <2>1, <2>2 DEF HasServer, PathAt
  <2>4. QueryAt(connect, then) = 1 /\ PathAt(connect, then) = 0
    BY <1>b, <1>3, <2>2, <2>3
  <2>5. Only(more, 0..(1 - 1), UrlChar) BY <1>4, <2>1 DEF Only
  <2>6. At(more, 0) \in {"/", "*"} BY <1>4, <2>1
  <2>7. PathRead(more, connect, then)
    BY <1>1, <1>3, <2>2, <2>3, <2>4, <2>5, <2>6 DEF PathRead
  <2>8. \A g \in Field \ Found("path") : then[g] = 0 BY <2>1 DEF OneMore, Found
  <2>9. then["PATH"] > 0 /\ i + 1 = QueryAt(connect, then) BY <1>1, <2>1, <2>2, <2>4
  <2> QED BY <2>7, <2>8, <2>9 DEF ReadSoFar
<1>6. CASE t \in Server \cup {"path"}
  <2>1. /\ i = QueryAt(connect, len) /\ PathRead(url, connect, len)
        /\ \A g \in Field \ {"SCHEMA", "HOST", "PATH"} : len[g] = 0
    BY <1>6, PathSoFarRead
  <2>2. i = PathAt(connect, len) + len["PATH"] BY <2>1 DEF QueryAt
  <2>3. QueryAt(connect, then) = i + 1 BY <1>b, <1>2, <2>2
  <2>4. QueryAt(connect, len) <= i BY <2>1
  <2>5. PathRead(more, connect, len) BY <2>1, <2>4, PathStays
  <2>6. Only(more, PathAt(connect, len)..i, UrlChar)
    <3>1. Only(url, PathAt(connect, len)..(i - 1), UrlChar) BY <2>1 DEF PathRead
    <3> QED BY <1>2, <1>4, <3>1, OnlyMore
  <2>7. CASE HasServer(connect, len)
    <3>1. ServerRead(more, connect, len) BY <2>5, <2>7 DEF PathRead
    <3>2. ServerRead(more, connect, then)
      <4>1. ServerAt(connect, then) = ServerAt(connect, len) BY <1>1, SamePlaces
      <4> QED BY <1>1, <1>3, <3>1, <4>1 DEF ServerRead
    <3>3. At(more, PathAt(connect, len)) = "/"
      <4>1. CASE len["PATH"] > 0 BY <2>5, <2>7, <4>1 DEF PathRead
      <4>2. CASE len["PATH"] = 0
        <5>1. i = PathAt(connect, len) BY <1>2, <2>2, <4>2
        <5>2. t # "path" BY <4>2 DEF ReadSoFar
        <5>3. c = "/" BY <1>6, <5>2 DEF Server
        <5> QED BY <1>4, <5>1, <5>3
      <4> QED BY <1>2, <4>1, <4>2
    <3>4. i + 1 - 1 = i OBVIOUS
    <3>5. PathRead(more, connect, then)
      BY <1>3, <2>3, <2>6, <2>7, <3>2, <3>3, <3>4 DEF PathRead
    <3>6. \A g \in Field \ Found("path") : then[g] = 0
      BY <2>1 DEF OneMore, Found
    <3>7. then["PATH"] > 0 BY <1>1, <1>2
    <3> QED BY <2>3, <3>5, <3>6, <3>7 DEF ReadSoFar
  <2>8. CASE ~HasServer(connect, len)
    <3>1. len["HOST"] = 0 /\ len["PATH"] > 0 /\ At(more, 0) \in {"/", "*"}
      BY <2>5, <2>8 DEF PathRead
    <3>2. then["PATH"] > 0 /\ then["HOST"] = 0 BY <1>1, <1>2, <3>1
    <3>4. i + 1 - 1 = i OBVIOUS
    <3>5. PathRead(more, connect, then)
      BY <1>3, <2>3, <2>6, <2>8, <3>1, <3>2, <3>4 DEF PathRead
    <3>6. \A g \in Field \ Found("path") : then[g] = 0
      BY <2>1 DEF OneMore, Found
    <3> QED BY <2>3, <3>2, <3>5, <3>6 DEF ReadSoFar
  <2> QED BY <2>7, <2>8
<1> QED BY <1>5, <1>6

\* A path, or a query that begins, stays a path when other lengths change.
LEMMA SamePath ==
  ASSUME NEW url, NEW connect, NEW len \in Lengths, NEW then \in Lengths,
         \A g \in {"SCHEMA", "HOST", "PATH"} : then[g] = len[g]
  PROVE  /\ PathRead(url, connect, len) <=> PathRead(url, connect, then)
         /\ QueryAt(connect, len) = QueryAt(connect, then)
<1>1. /\ then["SCHEMA"] = len["SCHEMA"] /\ then["HOST"] = len["HOST"]
      /\ then["PATH"] = len["PATH"]
  OBVIOUS
<1>2. /\ ServerAt(connect, then) = ServerAt(connect, len)
      /\ HasServer(connect, then) <=> HasServer(connect, len)
      /\ PathAt(connect, then) = PathAt(connect, len)
      /\ QueryAt(connect, then) = QueryAt(connect, len)
  BY <1>1, SamePlaces
<1>3. ServerRead(url, connect, len) <=> ServerRead(url, connect, then)
  BY <1>1, <1>2 DEF ServerRead
<1> QED BY <1>1, <1>2, <1>3 DEF PathRead

\* A query begins.
LEMMA ReadQuestion ==
  ASSUME NEW url, NEW more, NEW i \in Nat, NEW c, Follows(url, more, i, c),
         NEW connect, NEW len \in Lengths, NEW f, NEW t,
         ReadSoFar(t, url, connect, len, f, i),
         t \in Server \cup {"path"}, c = "?"
  PROVE  ReadSoFar("query_string_start", more, connect, len, f, i + 1)
<1>1. /\ i = QueryAt(connect, len) /\ PathRead(url, connect, len)
      /\ \A g \in Field \ {"SCHEMA", "HOST", "PATH"} : len[g] = 0
  BY PathSoFarRead
<1>2. QueryAt(connect, len) <= i BY <1>1
<1>3. PathRead(more, connect, len) BY <1>1, <1>2, PathStays
<1>4. len["QUERY"] = 0 BY <1>1 DEF Field
<1>5. QueryRead(more, connect, len)
  <2>1. At(more, i) = "?" BY DEF Follows
  <2>2. (i + 1)..(i + len["QUERY"]) = {} BY <1>4
  <2> QED BY <1>1, <2>1, <2>2 DEF QueryRead, Only
<1>6. i + 1 = QueryAt(connect, len) + 1 + len["QUERY"] BY <1>1, <1>4
<1>7. \A g \in Field \ Found("query_string_start") : len[g] = 0
  BY <1>1 DEF Found
<1> QED BY <1>3, <1>4, <1>5, <1>6, <1>7 DEF ReadSoFar

\* And has one byte more.
LEMMA ReadQuery ==
  ASSUME NEW url, NEW more, NEW i \in Nat, NEW c, Follows(url, more, i, c),
         NEW connect, NEW len \in Lengths, NEW then \in Lengths, NEW f, NEW h, NEW t,
         ReadSoFar(t, url, connect, len, f, i),
         t \in {"query_string_start", "query_string"}, c \in QueryChar,
         OneMore(len, then, "QUERY")
  PROVE  ReadSoFar("query_string", more, connect, then, h, i + 1)
<1> DEFINE q == QueryAt(connect, len)
           n == len["QUERY"]
<1>a. q \in Nat /\ n \in Nat BY PlacesNat
<1>1. /\ i = q + 1 + n /\ PathRead(url, connect, len) /\ QueryRead(url, connect, len)
  BY DEF ReadSoFar
<1>2. q <= i /\ q + n < i BY <1>a, <1>1
<1>3. PathRead(more, connect, len) /\ QueryRead(more, connect, len)
  BY <1>1, <1>2, PathStays, QueryStays
<1>4. then["QUERY"] = n + 1 /\ \A g \in {"SCHEMA", "HOST", "PATH"} : then[g] = len[g]
  BY OneMoreIs
<1>5. PathRead(more, connect, then) /\ QueryAt(connect, then) = q
  BY <1>3, <1>4, SamePath
<1>6. QueryRead(more, connect, then)
  <2>1. Only(url, (q + 1)..(q + n), QueryChar) BY <1>1 DEF QueryRead, QueryChar
  <2>2. q + n = i - 1 /\ q + (n + 1) = i /\ q + 1 \in Nat BY <1>a, <1>1
  <2> HIDE DEF q, n
  <2>3. Only(more, (q + 1)..i, QueryChar) BY <2>1, <2>2, OnlyMore
  <2>4. At(more, q) = "?" BY <1>3 DEF QueryRead, q
  <2> QED BY <1>4, <1>5, <2>2, <2>3, <2>4 DEF QueryRead, QueryChar
<1>7. i + 1 = q + 1 + then["QUERY"] BY <1>a, <1>1, <1>4
<1>8. \A g \in Field \ Found("query_string") : then[g] = 0
  BY DEF ReadSoFar, Found, OneMore
<1> QED BY <1>5, <1>6, <1>7, <1>8 DEF ReadSoFar

\* A # ends path and query, and may stand before the fragment.
LEMMA ReadHash ==
  ASSUME NEW url, NEW more, NEW i \in Nat, NEW c, Follows(url, more, i, c),
         NEW connect, NEW len \in Lengths, NEW f, NEW t,
         ReadSoFar(t, url, connect, len, f, i),
         t \in {"path", "query_string_start", "query_string", "fragment_start"},
         c = "#"
  PROVE  ReadSoFar("fragment_start", more, connect, len, f, i + 1)
<1> DEFINE q == QueryAt(connect, len)
           n == len["QUERY"]
<1>a. q \in Nat /\ n \in Nat BY PlacesNat
<1>b. i + 1 - 1 = i /\ At(more, i) = "#" BY DEF Follows
<1>1. \A g \in Field \ Found("fragment_start") : len[g] = 0
  BY DEF ReadSoFar, Found
<1>2. len["FRAGMENT"] = 0 BY <1>1 DEF Found, Field
<1>3. CASE t = "path"
  <2>1. i = q /\ PathRead(url, connect, len) BY <1>3 DEF ReadSoFar
  <2>2. n = 0 /\ len["PATH"] > 0 BY <1>3 DEF ReadSoFar, Found, Field
  <2>3. q <= i BY <2>1
  <2>4. PathRead(more, connect, len) BY <2>1, <2>3, PathStays
  <2>5. At(more, q) = "#" BY <1>b, <2>1
  <2>6. HashAt(more, connect, len) = i BY <2>1, <2>5 DEF HashAt
  <2>7. Only(more, i..i, {"#"}) BY <1>b DEF Only
  <2>8. HashesRead(more, connect, len, i + 1)
    BY <1>b, <2>2, <2>4, <2>5, <2>6, <2>7 DEF HashesRead
  <2> QED BY <1>1, <1>2, <2>8 DEF ReadSoFar
<1>4. CASE t \in {"query_string_start", "query_string"}
  <2>1. i = q + 1 + n /\ PathRead(url, connect, len) /\ QueryRead(url, connect, len)
    BY <1>4 DEF ReadSoFar
  <2>2. q <= i /\ q + n < i BY <1>a, <2>1
  <2>3. PathRead(more, connect, len) /\ QueryRead(more, connect, len)
    BY <2>1, <2>2, PathStays, QueryStays
  <2>4. At(more, q) = "?" BY <2>3 DEF QueryRead
  <2>5. HashAt(more, connect, len) = i BY <2>1, <2>4 DEF HashAt
  <2>6. Only(more, i..i, {"#"}) BY <1>b DEF Only
  <2>7. HashesRead(more, connect, len, i + 1)
    BY <1>b, <2>3, <2>4, <2>5, <2>6 DEF HashesRead
  <2> QED BY <1>1, <1>2, <2>7 DEF ReadSoFar
<1>5. CASE t = "fragment_start"
  <2>1. HashesRead(url, connect, len, i) BY <1>5 DEF ReadSoFar
  <2>2. i \in 0..i OBVIOUS
  <2>3. HashesRead(more, connect, len, i) BY <2>1, <2>2, HashesStay
  <2> DEFINE h == HashAt(more, connect, len)
  <2>4. h \in Nat BY <1>a DEF HashAt
  <2>5. h < i /\ Only(more, h..(i - 1), {"#"}) BY <2>3 DEF HashesRead
  <2> HIDE DEF h
  <2>6. Only(more, h..i, {"#"})
    <3>1. \A j \in h..i : j = i \/ j \in h..(i - 1) BY <2>4
    <3> QED BY <1>b, <2>5, <3>1 DEF Only
  <2>7. h < i + 1 BY <2>4, <2>5
  <2>8. HashesRead(more, connect, len, i + 1)
    BY <1>b, <2>3, <2>6, <2>7 DEF HashesRead, h
  <2> QED BY <1>1, <1>2, <2>8 DEF ReadSoFar
<1> QED BY <1>3, <1>4, <1>5

\* What was read before a fragment does not depend on its length.
LEMMA SameHashes ==
  ASSUME NEW url, NEW connect, NEW len \in Lengths, NEW then \in Lengths, NEW i,
         \A g \in {"SCHEMA", "HOST", "PATH", "QUERY"} : then[g] = len[g],
         HashesRead(url, connect, len, i)
  PROVE  HashesRead(url, connect, then, i)
<1>1. PathRead(url, connect, then) /\ QueryAt(connect, len) = QueryAt(connect, then)
  BY SamePath DEF HashesRead
<1>2. then["QUERY"] = len["QUERY"] /\ then["PATH"] = len["PATH"] OBVIOUS
<1>3. HashAt(url, connect, then) = HashAt(url, connect, len)
  BY <1>1, <1>2 DEF HashAt
<1>4. QueryRead(url, connect, len) => QueryRead(url, connect, then)
  BY <1>1, <1>2 DEF QueryRead
<1> QED BY <1>1, <1>2, <1>3, <1>4 DEF HashesRead

\* The fragment begins, or has one byte more.
LEMMA ReadFragment ==
  ASSUME NEW url, NEW more, NEW i \in Nat, NEW c, Follows(url, more, i, c),
         NEW connect, NEW len \in Lengths, NEW then \in Lengths,
         NEW f \in Nat, NEW h \in Nat, NEW t, ReadSoFar(t, url, connect, len, f, i),
         \/ t = "fragment_start" /\ c \in QueryChar
         \/ t = "fragment" /\ c \in FragmentChar,
         h = IF len["FRAGMENT"] > 0 THEN f ELSE i,
         OneMore(len, then, "FRAGMENT")
  PROVE  ReadSoFar("fragment", more, connect, then, h, i + 1)
<1> DEFINE n == len["FRAGMENT"]
<1>a. n \in Nat BY PlacesNat
<1>b. i + 1 - 1 = i /\ At(more, i) = c BY DEF Follows
<1>1. then["FRAGMENT"] = n + 1
      /\ \A g \in {"SCHEMA", "HOST", "PATH", "QUERY"} : then[g] = len[g]
  BY OneMoreIs
<1>2. \A g \in Field \ Found("fragment") : then[g] = 0
  BY DEF ReadSoFar, Found, OneMore
<1>3. CASE t = "fragment_start"
  <2>1. HashesRead(url, connect, len, i) /\ n = 0 BY <1>3 DEF ReadSoFar
  <2>2. h = i /\ i \in 0..i BY <2>1
  <2>3. HashesRead(more, connect, len, i) BY <2>1, <2>2, HashesStay
  <2>4. HashesRead(more, connect, then, i) BY <1>1, <2>3, SameHashes
  <2>5. c \in QueryChar BY <1>3
  <2>6. c # "#" /\ c \in FragmentChar
    BY <2>5 DEF QueryChar, FragmentChar, UrlChar, UserinfoChar, AlphaNum, Alpha, Num
  <2>7. Only(more, i..i, FragmentChar) BY <1>b, <2>6 DEF Only
  <2>8. then["FRAGMENT"] = 1 /\ i + 1 = h + then["FRAGMENT"] BY <1>1, <2>1, <2>2
  <2>9. At(more, h) # "#" /\ HashesRead(more, connect, then, h)
    BY <1>b, <2>2, <2>4, <2>6
  <2>10. Only(more, h..(i + 1 - 1), FragmentChar) BY <1>b, <2>2, <2>7
  <2>11. then["FRAGMENT"] > 0 BY <2>8
  <2> QED BY <1>2, <2>8, <2>9, <2>10, <2>11 DEF ReadSoFar, FragmentChar
<1>4. CASE t = "fragment"
  <2>1. /\ i = f + n /\ n > 0 /\ HashesRead(url, connect, len, f) /\ At(url, f) # "#"
        /\ Only(url, f..(i - 1), FragmentChar)
    BY <1>4 DEF ReadSoFar, FragmentChar
  <2>2. h = f /\ f \in 0..i /\ f \in 0..(i - 1) BY <1>a, <2>1
  <2>3. HashesRead(more, connect, len, f) BY <2>1, <2>2, HashesStay
  <2>4. HashesRead(more, connect, then, f) BY <1>1, <2>3, SameHashes
  <2>5. At(more, f) # "#" BY <2>1, <2>2 DEF Follows
  <2>6. c \in FragmentChar BY <1>4
  <2>7. Only(more, f..i, FragmentChar) BY <2>1, <2>6, OnlyMore
  <2>8. then["FRAGMENT"] > 0 /\ i + 1 = h + then["FRAGMENT"] BY <1>a, <1>1, <2>1, <2>2
  <2> QED BY <1>b, <1>2, <2>2, <2>4, <2>5, <2>7, <2>8 DEF ReadSoFar, FragmentChar
<1> QED BY <1>3, <1>4

\* Delimiters change no length; a byte of a field counts.
LEMMA ReadStep ==
  ASSUME NEW url, NEW more, NEW i \in Nat, NEW c \in UrlByte, Follows(url, more, i, c),
         NEW connect, NEW len \in Lengths, NEW then \in Lengths,
         NEW f \in Nat, NEW h \in Nat, NEW t \in UrlState \ {"dead"},
         ReadSoFar(t, url, connect, len, f, i),
         NEW n, n = ParseUrlChar(t, c), n # "dead",
         IF n \in FieldState
         THEN /\ OneMore(len, then, FieldOf[n])
              /\ n = "fragment" => h = IF len["FRAGMENT"] > 0 THEN f ELSE i
         ELSE then = len
  PROVE  ReadSoFar(n, more, connect, then, h, i + 1)
<1>0. LeadsTo(t, c, n) BY CharTo
<1>1. CASE n \in {"schema_slash", "schema_slash_slash", "server_start"}
  <2>1. then = len BY <1>1 DEF FieldState
  <2>2. \/ n = "schema_slash" /\ t = "schema" /\ c = ":"
        \/ n = "schema_slash_slash" /\ t = "schema_slash" /\ c = "/"
        \/ n = "server_start" /\ t = "schema_slash_slash" /\ c = "/"
    BY <1>0, <1>1 DEF LeadsTo
  <2>3. ReadSoFar(n, more, connect, len, f, i + 1) BY <2>2, ReadColon
  <2> QED BY <1>1, <2>1, <2>3 DEF ReadSoFar
<1>2. CASE n = "query_string_start"
  <2>1. then = len BY <1>2 DEF FieldState
  <2>2. t \in Server \cup {"path"} /\ c = "?" BY <1>0, <1>2 DEF LeadsTo
  <2>3. ReadSoFar("query_string_start", more, connect, len, f, i + 1)
    BY <2>2, ReadQuestion
  <2> QED BY <1>2, <2>1, <2>3 DEF ReadSoFar
<1>3. CASE n = "fragment_start"
  <2>1. then = len BY <1>3 DEF FieldState
  <2>2. t \in {"path", "query_string_start", "query_string", "fragment_start"} /\ c = "#"
    BY <1>0, <1>3 DEF LeadsTo
  <2>3. ReadSoFar("fragment_start", more, connect, len, f, i + 1)
    BY <2>2, ReadHash
  <2> QED BY <1>3, <2>1, <2>3 DEF ReadSoFar
<1>4. CASE n = "schema"
  <2>1. OneMore(len, then, "SCHEMA") BY <1>4 DEF FieldState, FieldOf
  <2>2. t \in {"spaces_before_url", "schema"} /\ c \in Alpha BY <1>0, <1>4 DEF LeadsTo
  <2>3. ReadSoFar("schema", more, connect, then, h, i + 1) BY <2>1, <2>2, ReadSchema
  <2> QED BY <1>4, <2>3
<1>5. CASE n \in {"server", "server_with_at"}
  <2>1. OneMore(len, then, "HOST") BY <1>5 DEF FieldState, FieldOf
  <2>2. t \in Server /\ c \in ServerChar /\ (n = "server_with_at" => c = "@")
    BY <1>0, <1>5 DEF LeadsTo
  <2>3. ASSUME n = "server_with_at"
        PROVE  ReadSoFar("server_with_at", more, connect, then, h, i + 1)
    BY <2>1, <2>2, <2>3, ReadServer
  <2>4. ASSUME n = "server"
        PROVE  ReadSoFar("server", more, connect, then, h, i + 1)
    BY <2>1, <2>2, ReadServer
  <2> QED BY <1>5, <2>3, <2>4
<1>6. CASE n = "path"
  <2>1. OneMore(len, then, "PATH") BY <1>6 DEF FieldState, FieldOf
  <2>2. \/ t = "spaces_before_url" /\ c \in {"/", "*"}
        \/ t \in Server /\ c = "/"
        \/ t = "path" /\ c \in UrlChar
    BY <1>0, <1>6 DEF LeadsTo
  <2>3. ReadSoFar("path", more, connect, then, h, i + 1) BY <2>1, <2>2, ReadPath
  <2> QED BY <1>6, <2>3
<1>7. CASE n = "query_string"
  <2>1. OneMore(len, then, "QUERY") BY <1>7 DEF FieldState, FieldOf
  <2>2. t \in {"query_string_start", "query_string"} /\ c \in QueryChar
    BY <1>0, <1>7 DEF LeadsTo
  <2>3. ReadSoFar("query_string", more, connect, then, h, i + 1) BY <2>1, <2>2, ReadQuery
  <2> QED BY <1>7, <2>3
<1>8. CASE n = "fragment"
  <2>1. OneMore(len, then, "FRAGMENT") /\ h = IF len["FRAGMENT"] > 0 THEN f ELSE i
    BY <1>8 DEF FieldState, FieldOf
  <2>2. \/ t = "fragment_start" /\ c \in QueryChar
        \/ t = "fragment" /\ c \in FragmentChar
    BY <1>0, <1>8 DEF LeadsTo
  <2>3. ReadSoFar("fragment", more, connect, then, h, i + 1) BY <2>1, <2>2, ReadFragment
  <2> QED BY <1>8, <2>3
<1> QED BY <1>0, <1>1, <1>2, <1>3, <1>4, <1>5, <1>6, <1>7, <1>8 DEF LeadsTo

-----------------------------------------------------------------------------
(* What was read are the parts of the grammar.                             *)

\* Bytes that end a part are not of it.
LEMMA BytesApart ==
  /\ ":" \notin Alpha /\ "/" \notin Alpha /\ "*" \notin Alpha /\ "@" \notin Alpha
  /\ "/" \notin ServerChar /\ "?" \notin ServerChar
  /\ "?" \notin UrlChar /\ "#" \notin UrlChar /\ "#" \notin QueryChar
  /\ "bad" \notin ServerChar /\ "bad" \notin FragmentChar
BY DEF Alpha, Num, AlphaNum, UserinfoChar, UrlChar, ServerChar, QueryChar, FragmentChar

\* The server begins behind the slashes that were read.
LEMMA ServerFromIs ==
  ASSUME NEW url \in Seq(UrlByte), NEW connect, NEW n \in Nat,
         SlashesRead(url, connect, n), connect \/ n + 2 < Len(url)
  PROVE  /\ ServerFrom(url, connect) = IF connect THEN 0 ELSE n + 3
         /\ connect \/ Absolute(url)
         /\ SchemaOK(url, connect)
<1>1. CASE connect BY <1>1 DEF ServerFrom, SchemaOK
<1>2. CASE ~connect
  <2>1. /\ n > 0 /\ Only(url, 0..(n - 1), Alpha) /\ At(url, n) = ":"
        /\ At(url, n + 1) = "/" /\ At(url, n + 2) = "/"
    BY <1>2 DEF SlashesRead, SchemaRead
  <2>2. n + 2 < Len(url) /\ Len(url) \in Nat BY <1>2
  <2>3. FirstOf(url, {":"}, 0) = n
    <3>1. 0 \in Nat /\ n \in 0..Len(url) BY <2>2
    <3>2. \A j \in 0..(n - 1) : At(url, j) \notin {":"}
      BY <2>1, BytesApart DEF Only
    <3> QED BY <2>1, <3>1, <3>2, FirstIs
  <2>4. Absolute(url)
    <3>1. 0 \in 0..(n - 1) /\ Len(url) > 0 BY <2>1, <2>2
    <3> QED BY <2>1, <3>1 DEF Absolute, Only
  <2> QED BY <1>2, <2>1, <2>2, <2>3, <2>4 DEF ServerFrom, SchemaOK
<1> QED BY <1>1, <1>2

\* The server ends at the first / or ?, or with the url.
LEMMA ServerEndIs ==
  ASSUME NEW url \in Seq(UrlByte), NEW connect, NEW a \in Nat, NEW e \in a..Len(url),
         connect \/ Absolute(url), ServerFrom(url, connect) = a,
         Only(url, a..(e - 1), ServerChar), e = Len(url) \/ At(url, e) \in {"/", "?"}
  PROVE  ServerEnd(url, connect) = e
<1>1. \A j \in a..(e - 1) : At(url, j) \notin {"/", "?"} BY BytesApart DEF Only
<1>2. FirstOf(url, {"/", "?"}, a) = e BY <1>1, FirstIs
<1> QED BY <1>2 DEF ServerEnd

\* And not before what was read of it.
LEMMA ServerEndAfter ==
  ASSUME NEW url \in Seq(UrlByte), NEW connect, NEW a \in Nat, NEW i \in a..Len(url),
         connect \/ Absolute(url), ServerFrom(url, connect) = a,
         Only(url, a..(i - 1), ServerChar)
  PROVE  /\ ServerEnd(url, connect) \in i..Len(url)
         /\ ServerEnd(url, connect) = Len(url)
              \/ At(url, ServerEnd(url, connect)) \in {"/", "?"}
         /\ \A j \in a..(ServerEnd(url, connect) - 1) : At(url, j) \notin {"/", "?"}
<1> DEFINE e == ServerEnd(url, connect)
<1>1. e = FirstOf(url, {"/", "?"}, a) BY DEF ServerEnd
<1>2. /\ e \in a..Len(url) /\ (e = Len(url) \/ At(url, e) \in {"/", "?"})
      /\ \A j \in a..(e - 1) : At(url, j) \notin {"/", "?"}
  <2>1. a <= Len(url) OBVIOUS
  <2> QED BY <1>1, <2>1, FirstExists
<1> HIDE DEF e
<1>3. ~(e < i)
  <2>1. SUFFICES ASSUME e < i PROVE FALSE OBVIOUS
  <2>2. e \in a..(i - 1) /\ e # Len(url) BY <1>2, <2>1
  <2>3. At(url, e) \in ServerChar BY <2>2 DEF Only
  <2> QED BY <1>2, <2>2, <2>3, BytesApart
<1> QED BY <1>2, <1>3 DEF e

\* From the end of the server at e: a path to q, a query to h, # to f.
TailRead(url, len, e, q, h, f) ==
  /\ e \in Nat /\ q \in e..Len(url) /\ h \in q..Len(url) /\ f \in h..Len(url)
  /\ q = e + len["PATH"] /\ Only(url, e..(q - 1), UrlChar)
  /\ IF q < h THEN /\ At(url, q) = "?" /\ h = q + 1 + len["QUERY"]
                   /\ Only(url, (q + 1)..(h - 1), QueryChar)
     ELSE len["QUERY"] = 0
  /\ h = Len(url) \/ At(url, h) = "#"
  /\ Only(url, h..(f - 1), {"#"})
  /\ f = Len(url) \/ At(url, f) # "#"
  /\ len["FRAGMENT"] = Len(url) - f

\* These are the parts that the grammar says.
LEMMA TailParts ==
  ASSUME NEW url \in Seq(UrlByte), NEW connect, NEW len \in Lengths,
         NEW e, NEW q, NEW h, NEW f, TailRead(url, len, e, q, h, f),
         ServerEnd(url, connect) = e
  PROVE  /\ PathEnd(url, connect) = q /\ QueryEnd(url, connect) = h
         /\ FragmentFrom(url, connect) = f
<1>1. /\ e \in Nat /\ q \in e..Len(url) /\ h \in q..Len(url) /\ f \in h..Len(url)
      /\ Only(url, e..(q - 1), UrlChar)
      /\ q < h => /\ At(url, q) = "?" /\ Only(url, (q + 1)..(h - 1), QueryChar)
      /\ h = Len(url) \/ At(url, h) = "#"
      /\ Only(url, h..(f - 1), {"#"}) /\ (f = Len(url) \/ At(url, f) # "#")
  BY DEF TailRead
<1>2. FirstOf(url, {"?", "#"}, e) = q
  <2>1. \A j \in e..(q - 1) : At(url, j) \notin {"?", "#"} BY <1>1, BytesApart DEF Only
  <2>2. q = Len(url) \/ At(url, q) \in {"?", "#"} BY <1>1
  <2> QED BY <1>1, <2>1, <2>2, FirstIs
<1>3. FirstOf(url, {"#"}, e) = h
  <2>1. ASSUME NEW j \in e..(h - 1) PROVE At(url, j) \notin {"#"}
    <3>1. CASE j \in e..(q - 1) BY <1>1, <3>1, BytesApart DEF Only
    <3>2. CASE j = q BY <1>1, <3>2
    <3>3. CASE j \in (q + 1)..(h - 1)
      <4>1. q < h BY <1>1, <3>3
      <4> QED BY <1>1, <3>3, <4>1, BytesApart DEF Only
    <3> QED BY <1>1, <3>1, <3>2, <3>3
  <2>2. h = Len(url) \/ At(url, h) \in {"#"} BY <1>1
  <2>3. h \in e..Len(url) BY <1>1
  <2> QED BY <1>1, <2>1, <2>2, <2>3, FirstIs
<1>4. FirstOf(url, UrlByte \ {"#"}, h) = f
  <2>1. \A j \in h..(f - 1) : At(url, j) \notin UrlByte \ {"#"} BY <1>1 DEF Only
  <2>2. f = Len(url) \/ At(url, f) \in UrlByte \ {"#"}
    <3>1. f < Len(url) => f + 1 \in 1..Len(url) BY <1>1
    <3>2. f < Len(url) => At(url, f) \in UrlByte BY <3>1 DEF At
    <3> QED BY <1>1, <3>2
  <2>3. h \in Nat BY <1>1
  <2> QED BY <1>1, <2>1, <2>2, <2>3, FirstIs
<1> QED BY <1>2, <1>3, <1>4 DEF PathEnd, QueryEnd, FragmentFrom

\* When the first loop has got to the end of the url, or to one that ends there.
LEMMA TailIs ==
  ASSUME NEW url \in Seq(UrlByte), NEW connect, NEW len \in Lengths,
         NEW f \in Nat, NEW t, ReadSoFar(t, url, connect, len, f, Len(url)),
         t \in Server \cup {"path", "query_string_start", "query_string",
                            "fragment_start", "fragment"}
  PROVE  /\ PathRead(url, connect, len)
         /\ \E h, k \in Nat :
              /\ TailRead(url, len, PathAt(connect, len), QueryAt(connect, len), h, k)
              /\ len["FRAGMENT"] > 0 => k = f
<1> DEFINE e == PathAt(connect, len)
           q == QueryAt(connect, len)
           n == Len(url)
<1>a. /\ e \in Nat /\ q \in Nat /\ n \in Nat /\ q = e + len["PATH"]
      /\ len["PATH"] \in Nat /\ len["QUERY"] \in Nat /\ len["FRAGMENT"] \in Nat
  BY PlacesNat DEF QueryAt
<1>b. \A j \in Int : j..(j - 1) = {} /\ Only(url, {}, {"#"}) BY DEF Only
<1>1. CASE t \in Server \cup {"path"}
  <2>1. /\ n = q /\ PathRead(url, connect, len)
        /\ \A g \in Field \ {"SCHEMA", "HOST", "PATH"} : len[g] = 0
    BY <1>a, <1>1, PathSoFarRead
  <2>2. len["QUERY"] = 0 /\ len["FRAGMENT"] = 0 BY <2>1 DEF Field
  <2>3. Only(url, e..(q - 1), UrlChar) BY <2>1 DEF PathRead
  <2>4. Only(url, n..(n - 1), {"#"}) BY <1>a, <1>b
  <2> HIDE DEF e, q, n
  <2>5. TailRead(url, len, e, q, n, n)
    BY <1>a, <2>1, <2>2, <2>3, <2>4 DEF TailRead, n
  <2> QED BY <1>a, <2>1, <2>2, <2>5 DEF e, q
<1>2. CASE t \in {"query_string_start", "query_string"}
  <2>1. n = q + 1 + len["QUERY"] /\ PathRead(url, connect, len) /\ QueryRead(url, connect, len)
    BY <1>2 DEF ReadSoFar
  <2>2. len["FRAGMENT"] = 0 BY <1>2 DEF ReadSoFar, Found, Field
  <2>3. Only(url, e..(q - 1), UrlChar) BY <2>1 DEF PathRead
  <2>4. Only(url, n..(n - 1), {"#"}) BY <1>a, <1>b
  <2>5. At(url, q) = "?" /\ Only(url, (q + 1)..(q + len["QUERY"]), QueryChar)
    BY <2>1 DEF QueryRead, QueryChar
  <2>6. n - 1 = q + len["QUERY"] BY <1>a, <2>1
  <2> HIDE DEF e, q, n
  <2>7. TailRead(url, len, e, q, n, n)
    <3>1. e \in Nat /\ q \in e..n /\ n \in q..n /\ n \in n..n /\ q < n
      <4>1. e \in Nat /\ q \in Nat /\ n \in Nat /\ q = e + len["PATH"] BY <1>a
      <4>2. len["PATH"] \in Nat /\ len["QUERY"] \in Nat BY <1>a
      <4>3. e <= q BY <4>1, <4>2
      <4>4. n = q + 1 + len["QUERY"] BY <2>1
      <4>5. q < n BY <4>1, <4>2, <4>4
      <4> QED BY <4>1, <4>3, <4>5
    <3>2. /\ At(url, q) = "?" /\ n = q + 1 + len["QUERY"]
          /\ Only(url, (q + 1)..(n - 1), QueryChar)
      BY <2>1, <2>5, <2>6
    <3>3. len["FRAGMENT"] = n - n BY <1>a, <2>2
    <3>4. IF q < n THEN /\ At(url, q) = "?" /\ n = q + 1 + len["QUERY"]
                        /\ Only(url, (q + 1)..(n - 1), QueryChar)
          ELSE len["QUERY"] = 0
      BY <3>1, <3>2
    <3>5. n = Len(url) BY DEF n
    <3>6. q = e + len["PATH"] BY <1>a
    <3> QED BY <2>3, <2>4, <3>1, <3>3, <3>4, <3>5, <3>6 DEF TailRead
  <2> QED BY <1>a, <2>1, <2>2, <2>7 DEF e, q
<1>3. ASSUME NEW k \in 0..n, HashesRead(url, connect, len, k),
             k = n \/ At(url, k) # "#", len["FRAGMENT"] = n - k
      PROVE  /\ PathRead(url, connect, len)
             /\ TailRead(url, len, e, q, HashAt(url, connect, len), k)
  <2> DEFINE h == HashAt(url, connect, len)
  <2>1. /\ PathRead(url, connect, len) /\ h < k /\ Only(url, h..(k - 1), {"#"})
        /\ IF At(url, q) = "?" THEN QueryRead(url, connect, len) ELSE len["QUERY"] = 0
    BY <1>3 DEF HashesRead
  <2>2. h = IF At(url, q) = "?" THEN q + 1 + len["QUERY"] ELSE q BY DEF HashAt
  <2>3. Only(url, e..(q - 1), UrlChar) BY <2>1 DEF PathRead
  <2>4. At(url, q) = "?" => Only(url, (q + 1)..(q + len["QUERY"]), QueryChar)
    BY <2>1 DEF QueryRead, QueryChar
  <2> HIDE DEF e, q, n, h
  <2>a. h \in Nat /\ q <= h
    <3>1. h = q + 1 + len["QUERY"] \/ h = q BY <2>2
    <3> QED BY <1>a, <3>1
  <2>b. k \in 0..n /\ h < k BY <1>3, <2>1
  <2>5. h \in q..n /\ k \in h..n BY <1>a, <2>a, <2>b
  <2>6. At(url, h) = "#"
    <3>1. h \in h..(k - 1) BY <2>1, <2>5, <1>a
    <3> QED BY <2>1, <3>1 DEF Only
  <2>7. q < h <=> At(url, q) = "?" BY <1>a, <2>2
  <2>8. At(url, q) = "?" => h - 1 = q + len["QUERY"] BY <1>a, <2>2
  <2>9. TailRead(url, len, e, q, h, k)
    <3>1. e \in Nat /\ q \in e..Len(url) /\ h \in q..Len(url) /\ k \in h..Len(url)
      BY <1>a, <2>5 DEF n
    <3>2. IF q < h THEN /\ At(url, q) = "?" /\ h = q + 1 + len["QUERY"]
                        /\ Only(url, (q + 1)..(h - 1), QueryChar)
          ELSE len["QUERY"] = 0
      BY <2>1, <2>2, <2>4, <2>7, <2>8
    <3>3. k = Len(url) \/ At(url, k) # "#" BY <1>3 DEF n
    <3>4. len["FRAGMENT"] = Len(url) - k BY <1>3 DEF n
    <3> QED BY <1>a, <2>1, <2>3, <2>6, <3>1, <3>2, <3>3, <3>4 DEF TailRead
  <2> QED BY <2>1, <2>9 DEF h
<1>4. CASE t = "fragment_start"
  <2>1. HashesRead(url, connect, len, n) /\ len["FRAGMENT"] = 0
    BY <1>4 DEF ReadSoFar
  <2>2. n \in 0..n /\ n - n = 0 BY <1>a
  <2>3. /\ PathRead(url, connect, len)
        /\ TailRead(url, len, e, q, HashAt(url, connect, len), n)
    BY <1>3, <2>1, <2>2
  <2>4. HashAt(url, connect, len) \in Nat BY <1>a DEF HashAt
  <2> QED BY <1>a, <2>1, <2>3, <2>4
<1>5. CASE t = "fragment"
  <2>1. /\ n = f + len["FRAGMENT"] /\ len["FRAGMENT"] > 0
        /\ HashesRead(url, connect, len, f) /\ At(url, f) # "#"
    BY <1>5 DEF ReadSoFar
  <2>2. f \in 0..n /\ len["FRAGMENT"] = n - f BY <1>a, <2>1
  <2>3. /\ PathRead(url, connect, len)
        /\ TailRead(url, len, e, q, HashAt(url, connect, len), f)
    BY <1>3, <2>1, <2>2
  <2>4. HashAt(url, connect, len) \in Nat BY <1>a DEF HashAt
  <2> QED BY <2>3, <2>4
<1> QED BY <1>1, <1>2, <1>4, <1>5

\* The parts by their names.
LEMMA PartsIs ==
  ASSUME NEW url, NEW connect
  PROVE  LET parts == Parts(url, connect)
         IN  /\ parts["SCHEMA"] = SchemaPlaces(url, connect)
             /\ parts["HOST"] = IF connect \/ Absolute(url)
                                THEN HostPlaces(url, connect) ELSE {}
             /\ parts["PORT"] = IF connect \/ Absolute(url)
                                THEN PortPlaces(url, connect) ELSE {}
             /\ parts["PATH"] = ServerEnd(url, connect)..(PathEnd(url, connect) - 1)
             /\ parts["QUERY"] = (PathEnd(url, connect) + 1)..(QueryEnd(url, connect) - 1)
             /\ parts["FRAGMENT"] = FragmentFrom(url, connect)..(Len(url) - 1)
             /\ parts["USERINFO"] =
                  IF connect \/ Absolute(url)
                  THEN ServerFrom(url, connect)..(HostFrom(url, connect) - 2) ELSE {}
BY DEF Parts, From

\* The places that a field says it has.
PlacesOf(off, len, f) == IF len[f] > 0 THEN off[f]..(off[f] + len[f] - 1) ELSE {}

\* The fields behind the server have the places of their parts.
LEMMA TailPlaces ==
  ASSUME NEW url \in Seq(UrlByte), NEW connect, NEW len \in Lengths, NEW off \in Lengths,
         NEW e, NEW q, NEW h, NEW k, TailRead(url, len, e, q, h, k),
         ServerEnd(url, connect) = e,
         len["PATH"] > 0 => off["PATH"] = e,
         len["QUERY"] > 0 => off["QUERY"] = q + 1,
         len["FRAGMENT"] > 0 => off["FRAGMENT"] = k
  PROVE  \A f \in TailField : Parts(url, connect)[f] = PlacesOf(off, len, f)
<1>a. /\ len["PATH"] \in Nat /\ len["QUERY"] \in Nat /\ len["FRAGMENT"] \in Nat
      /\ off["PATH"] \in Nat /\ off["QUERY"] \in Nat /\ off["FRAGMENT"] \in Nat
      /\ Len(url) \in Nat
  BY PlacesNat
<1>1. /\ PathEnd(url, connect) = q /\ QueryEnd(url, connect) = h
      /\ FragmentFrom(url, connect) = k
  BY TailParts
<1>2. /\ e \in Nat /\ q \in e..Len(url) /\ h \in q..Len(url) /\ k \in h..Len(url)
      /\ q = e + len["PATH"] /\ len["FRAGMENT"] = Len(url) - k
      /\ IF q < h THEN h = q + 1 + len["QUERY"] ELSE len["QUERY"] = 0
  BY DEF TailRead
<1>3. /\ Parts(url, connect)["PATH"] = e..(q - 1)
      /\ Parts(url, connect)["QUERY"] = (q + 1)..(h - 1)
      /\ Parts(url, connect)["FRAGMENT"] = k..(Len(url) - 1)
  BY <1>1, PartsIs
<1>4. e..(q - 1) = PlacesOf(off, len, "PATH")
  <2>1. CASE len["PATH"] > 0
    <3>1. off["PATH"] = e /\ q = e + len["PATH"] BY <1>2, <2>1
    <3>2. q - 1 = off["PATH"] + len["PATH"] - 1 BY <1>a, <1>2, <3>1
    <3> QED BY <2>1, <3>1, <3>2 DEF PlacesOf
  <2>2. CASE len["PATH"] = 0
    <3>1. q \in Int /\ e \in Int /\ q = e BY <1>a, <1>2, <2>2
    <3>2. e..(q - 1) = {} BY <3>1
    <3> QED BY <2>2, <3>2 DEF PlacesOf
  <2> QED BY <1>a, <2>1, <2>2
<1>5. (q + 1)..(h - 1) = PlacesOf(off, len, "QUERY")
  <2>1. CASE len["QUERY"] > 0
    <3>1. h = q + 1 + len["QUERY"] /\ off["QUERY"] = q + 1 BY <1>2, <2>1
    <3>2. h - 1 = off["QUERY"] + len["QUERY"] - 1 BY <1>a, <1>2, <3>1
    <3> QED BY <2>1, <3>1, <3>2 DEF PlacesOf
  <2>2. CASE len["QUERY"] = 0
    <3>1. h = q \/ h = q + 1 BY <1>a, <1>2, <2>2
    <3>2. q \in Int /\ h \in Int BY <1>2
    <3>3. (q + 1)..(h - 1) = {} BY <3>1, <3>2
    <3> QED BY <2>2, <3>3 DEF PlacesOf
  <2> QED BY <1>a, <2>1, <2>2
<1>6. k..(Len(url) - 1) = PlacesOf(off, len, "FRAGMENT")
  <2>1. CASE len["FRAGMENT"] > 0
    <3>1. Len(url) - 1 = off["FRAGMENT"] + len["FRAGMENT"] - 1 BY <1>a, <1>2, <2>1
    <3> QED BY <2>1, <3>1 DEF PlacesOf
  <2>2. CASE len["FRAGMENT"] = 0
    <3>1. k..(Len(url) - 1) = {} BY <1>a, <1>2, <2>2
    <3> QED BY <2>2, <3>1 DEF PlacesOf
  <2> QED BY <1>a, <2>1, <2>2
<1> QED BY <1>3, <1>4, <1>5, <1>6 DEF TailField

\* States in which a url may end, if the server is not empty.
EndState == Server \cup {"path", "query_string_start", "query_string",
                         "fragment_start", "fragment"}

\* The url is of the grammar but for its server, and these are its parts.
PartsRead(url, connect, len, off) ==
  /\ SchemaOK(url, connect) /\ RestOK(url, connect)
  /\ (connect \/ Absolute(url)) <=> HasServer(connect, len)
  /\ HasServer(connect, len) =>
       /\ ServerFrom(url, connect) = ServerAt(connect, len)
       /\ ServerEnd(url, connect) = PathAt(connect, len)
       /\ Only(url, ServerAt(connect, len)..(PathAt(connect, len) - 1), ServerChar)
  /\ \A f \in {"SCHEMA"} \cup TailField :
       Parts(url, connect)[f] = PlacesOf(off, len, f)

\* The schema and the tail that the first loop found are those of the grammar, and
\* what it takes for the server is the server.
LEMMA ReadIsGrammar ==
  ASSUME NEW url \in Seq(UrlByte), NEW connect, NEW len \in Lengths, NEW off \in Lengths,
         NEW t \in EndState, ReadSoFar(t, url, connect, len, off["FRAGMENT"], Len(url)),
         Placed(connect, off, len), \A i \in 1..Len(url) : url[i] # "bad"
  PROVE  PartsRead(url, connect, len, off)
<1> DEFINE e == PathAt(connect, len)
           a == ServerAt(connect, len)
           n == len["SCHEMA"]
<1>a. /\ len["SCHEMA"] \in Nat /\ len["HOST"] \in Nat /\ len["PATH"] \in Nat
      /\ e \in Nat /\ a \in Nat /\ Len(url) \in Nat
  BY PlacesNat
<1>b. off["FRAGMENT"] \in Nat /\ t # "schema" BY PlacesNat DEF EndState, Server
<1>1. PathRead(url, connect, len) BY <1>b, TailIs DEF EndState
<1>2. PICK h, k \in Nat : /\ TailRead(url, len, e, QueryAt(connect, len), h, k)
                          /\ len["FRAGMENT"] > 0 => k = off["FRAGMENT"]
  BY <1>b, TailIs DEF EndState
<1>3. e <= Len(url) /\ (e < Len(url) => At(url, e) \in UrlChar \cup {"?", "#"})
      /\ (len["PATH"] = 0 => e = Len(url) \/ At(url, e) \in {"?", "#"})
      /\ (len["PATH"] > 0 => e < Len(url))
  <2> DEFINE q == QueryAt(connect, len)
  <2>1. /\ e \in Nat /\ q \in e..Len(url) /\ h \in q..Len(url)
        /\ q = e + len["PATH"] /\ Only(url, e..(q - 1), UrlChar)
        /\ (IF q < h THEN At(url, q) = "?" ELSE TRUE)
        /\ h = Len(url) \/ At(url, h) = "#"
    BY <1>2 DEF TailRead
  <2> HIDE DEF e, q
  <2>2. q = Len(url) \/ At(url, q) \in {"?", "#"}
    <3>1. CASE q < h BY <2>1, <3>1
    <3>2. CASE ~(q < h)
      <4>1. h = q BY <2>1, <3>2
      <4> QED BY <2>1, <4>1
    <3> QED BY <3>1, <3>2
  <2>3. CASE len["PATH"] = 0
    <3>1. q = e BY <1>a, <2>1, <2>3 DEF e
    <3> QED BY <1>a, <2>1, <2>2, <2>3, <3>1
  <2>4. CASE len["PATH"] > 0
    <3>1. e \in e..(q - 1) /\ e < Len(url) BY <1>a, <2>1, <2>4
    <3>2. At(url, e) \in UrlChar BY <2>1, <3>1 DEF Only
    <3> QED BY <1>a, <2>1, <2>4, <3>1, <3>2
  <2> QED BY <1>a, <2>3, <2>4
<1>4. ASSUME HasServer(connect, len)
      PROVE  /\ SchemaOK(url, connect) /\ (connect \/ Absolute(url))
             /\ ServerFrom(url, connect) = a /\ ServerEnd(url, connect) = e
             /\ Only(url, a..(e - 1), ServerChar)
             /\ Parts(url, connect)["SCHEMA"] = PlacesOf(off, len, "SCHEMA")
  <2>1. SlashesRead(url, connect, n) /\ Only(url, a..(e - 1), ServerChar)
        /\ (len["PATH"] > 0 => At(url, e) = "/")
    BY <1>1, <1>4 DEF PathRead, ServerRead
  <2>2. e = a + len["HOST"] BY <1>4 DEF PathAt
  <2>3. connect \/ n + 2 < Len(url)
    <3>1. ~connect => a = n + 3 BY DEF ServerAt
    <3> QED BY <1>a, <1>3, <2>2, <3>1
  <2>4. /\ ServerFrom(url, connect) = IF connect THEN 0 ELSE n + 3
        /\ connect \/ Absolute(url)
        /\ SchemaOK(url, connect)
    BY <1>a, <2>1, <2>3, ServerFromIs
  <2>5. ServerFrom(url, connect) = a BY <2>4 DEF ServerAt
  <2>6. e \in a..Len(url) BY <1>a, <1>3, <2>2
  <2>7. e = Len(url) \/ At(url, e) \in {"/", "?"}
    <3>1. CASE len["PATH"] > 0 BY <2>1, <3>1
    <3>2. CASE len["PATH"] = 0 /\ e < Len(url) /\ At(url, e) = "#"
      <4>1. QueryAt(connect, len) = e BY <1>a, <3>2 DEF QueryAt
      <4>2. t \notin Server
        <5>1. SUFFICES ASSUME t \in Server PROVE FALSE OBVIOUS
        <5>2. Len(url) = e BY <1>a, <5>1, ServerSoFarRead
        <5> QED BY <1>a, <3>2, <5>2
      <4>3. t # "path" BY <3>2 DEF ReadSoFar
      <4>4. t \in {"query_string_start", "query_string"} => At(url, e) = "?"
        BY <4>1 DEF ReadSoFar, QueryRead
      <4>5. t \in {"fragment_start", "fragment"} => At(url, e) = "?"
        BY <3>2, <4>1 DEF ReadSoFar, HashesRead
      <4> QED BY <3>2, <4>2, <4>3, <4>4, <4>5 DEF EndState
    <3> QED BY <1>a, <1>3, <3>1, <3>2
  <2>8. ServerEnd(url, connect) = e
    BY <1>a, <2>1, <2>4, <2>5, <2>6, <2>7, ServerEndIs
  <2>9. Parts(url, connect)["SCHEMA"] = PlacesOf(off, len, "SCHEMA")
    <3>1. CASE connect
      <4>1. n = 0 BY <2>1, <3>1 DEF SlashesRead
      <4>2. PlacesOf(off, len, "SCHEMA") = {} BY <4>1 DEF PlacesOf
      <4>3. SchemaPlaces(url, connect) = {} BY <3>1 DEF SchemaPlaces
      <4> QED BY <4>2, <4>3, PartsIs
    <3>2. CASE ~connect
      <4>1. n > 0 /\ off["SCHEMA"] = 0
        BY <2>1, <3>2 DEF SlashesRead, SchemaRead, Placed
      <4>2. ServerFrom(url, connect) = n + 3 /\ Absolute(url) BY <2>4, <3>2
      <4>3. SchemaPlaces(url, connect) = 0..(ServerFrom(url, connect) - 4)
        BY <3>2, <4>2 DEF SchemaPlaces
      <4>4. ServerFrom(url, connect) - 4 = 0 + n - 1 BY <1>a, <4>2
      <4>5. Parts(url, connect)["SCHEMA"] = 0..(0 + n - 1) BY <4>3, <4>4, PartsIs
      <4> QED BY <4>1, <4>5 DEF PlacesOf
    <3> QED BY <3>1, <3>2
  <2> QED BY <2>1, <2>4, <2>5, <2>8, <2>9
<1>5. ASSUME ~HasServer(connect, len)
      PROVE  /\ SchemaOK(url, connect) /\ ~connect /\ ~Absolute(url)
             /\ ServerEnd(url, connect) = e /\ Len(url) > 0 /\ At(url, 0) \in {"/", "*"}
             /\ Parts(url, connect)["SCHEMA"] = PlacesOf(off, len, "SCHEMA")
  <2>1. ~connect /\ n = 0 /\ e = 0 BY <1>a, <1>5 DEF HasServer, PathAt
  <2>2. len["PATH"] > 0 /\ At(url, 0) \in {"/", "*"}
    BY <1>1, <1>5 DEF PathRead
  <2>3. Len(url) > 0 BY <1>a, <1>3, <2>1, <2>2
  <2>4. ~Absolute(url) BY <2>2, BytesApart DEF Absolute
  <2>5. Parts(url, connect)["SCHEMA"] = PlacesOf(off, len, "SCHEMA")
    BY <2>1, <2>4, PartsIs DEF SchemaPlaces, PlacesOf
  <2> QED BY <2>1, <2>2, <2>3, <2>4, <2>5 DEF SchemaOK, ServerEnd
<1>6. ServerEnd(url, connect) = e BY <1>4, <1>5
<1>7. RestOK(url, connect)
  <2>1. Only(url, e..(Len(url) - 1), UrlByte \ {"bad"})
    <3>1. SUFFICES ASSUME NEW i \in e..(Len(url) - 1) PROVE At(url, i) \in UrlByte \ {"bad"}
      BY DEF Only
    <3>2. i + 1 \in 1..Len(url) BY <1>a
    <3> QED BY <3>2 DEF At
  <2> QED BY <1>4, <1>5, <1>6, <2>1 DEF RestOK, From
<1>8. \A f \in TailField : Parts(url, connect)[f] = PlacesOf(off, len, f)
  <2>1. /\ len["PATH"] > 0 => off["PATH"] = e
        /\ len["QUERY"] > 0 => off["QUERY"] = QueryAt(connect, len) + 1
    BY DEF Placed
  <2> QED BY <1>2, <1>6, <2>1, TailPlaces
<1> QED BY <1>4, <1>5, <1>6, <1>7, <1>8 DEF PartsRead

-----------------------------------------------------------------------------
(* The server of the grammar.                                              *)

\* Where the server lies, if it does.
ServerLies(url, connect) ==
  /\ connect \/ Absolute(url)
  /\ ServerFrom(url, connect) \in Nat /\ ServerEnd(url, connect) \in Nat
  /\ ServerFrom(url, connect) <= ServerEnd(url, connect)
  /\ ServerEnd(url, connect) <= Len(url)

\* The host begins behind a @, or with the server.
LEMMA HostBegins ==
  ASSUME NEW url \in Seq(UrlByte), NEW connect, ServerLies(url, connect)
  PROVE  LET a == ServerFrom(url, connect)
             e == ServerEnd(url, connect)
             h == HostFrom(url, connect)
         IN  /\ h \in a..e
             /\ AtSign(url, connect) = {i \in a..(e - 1) : At(url, i) = "@"}
             /\ AtSign(url, connect) = {} => h = a
             /\ AtSign(url, connect) # {} => h - 1 \in AtSign(url, connect)
<1> DEFINE a == ServerFrom(url, connect)
           e == ServerEnd(url, connect)
           h == HostFrom(url, connect)
<1>1. AtSign(url, connect) = {i \in a..(e - 1) : At(url, i) = "@"}
  BY DEF AtSign, ServerPlaces, ServerLies
<1>2. CASE AtSign(url, connect) = {}
  <2>1. h = a BY <1>2 DEF HostFrom
  <2> QED BY <1>1, <1>2, <2>1 DEF ServerLies
<1>3. CASE AtSign(url, connect) # {}
  <2>1. PICK i \in AtSign(url, connect) : h = i + 1 BY <1>3 DEF HostFrom
  <2>2. i \in a..(e - 1) BY <1>1, <2>1
  <2> HIDE DEF a, e, h
  <2>3. h \in a..e /\ h - 1 = i BY <2>1, <2>2 DEF ServerLies, a, e
  <2> QED BY <1>1, <1>3, <2>1, <2>3 DEF a, e, h
<1> QED BY <1>2, <1>3

\* It ends at its bracket or at the first colon, or with the server.
LEMMA HostEnds ==
  ASSUME NEW url \in Seq(UrlByte), NEW connect, ServerLies(url, connect)
  PROVE  LET e == ServerEnd(url, connect)
             h == HostFrom(url, connect)
             k == HostEnd(url, connect)
             b == IF Bracketed(url, connect) THEN "]" ELSE ":"
         IN  /\ k \in h..e
             /\ k < e => At(url, k) = b
             /\ \A j \in h..(k - 1) : At(url, j) # b
<1> DEFINE e == ServerEnd(url, connect)
           h == HostFrom(url, connect)
           k == HostEnd(url, connect)
           b == IF Bracketed(url, connect) THEN "]" ELSE ":"
           m == FirstOf(url, {b}, h)
<1>1. h \in Nat /\ h <= e /\ e \in Nat /\ e <= Len(url) BY HostBegins DEF ServerLies
<1>2. /\ m \in h..Len(url) /\ (m = Len(url) \/ At(url, m) \in {b})
      /\ \A j \in h..(m - 1) : At(url, j) \notin {b}
  <2>1. h <= Len(url) BY <1>1
  <2> QED BY <1>1, <2>1, FirstExists
<1>3. k = IF m < e THEN m ELSE e
  <2>1. {b} = IF Bracketed(url, connect) THEN {"]"} ELSE {":"} OBVIOUS
  <2> QED BY <2>1 DEF HostEnd
<1> HIDE DEF e, h, k, b, m
<1>4. k \in h..e BY <1>1, <1>2, <1>3
<1>5. k < e => At(url, k) = b BY <1>1, <1>2, <1>3
<1>6. \A j \in h..(k - 1) : At(url, j) # b BY <1>1, <1>2, <1>3
<1> QED BY <1>4, <1>5, <1>6 DEF e, h, k, b, m

\* The bytes of a server that may be taken apart.
LEMMA ServerBytes ==
  ASSUME NEW url \in Seq(UrlByte), NEW connect, NEW max,
         ServerLies(url, connect), ServerOK(url, connect, max)
  PROVE  /\ Only(url, ServerFrom(url, connect)..(ServerEnd(url, connect) - 1), ServerChar)
         /\ \A i, j \in AtSign(url, connect) : i = j
<1> DEFINE a == ServerFrom(url, connect)
           e == ServerEnd(url, connect)
           h == HostFrom(url, connect)
           k == HostEnd(url, connect)
           w == HostClosed(url, connect)
           br == Bracketed(url, connect)
<1>1. /\ \A i, j \in AtSign(url, connect) : i = j
      /\ Only(url, a..(h - 2), UserinfoChar)
      /\ br => k < e /\ AddressOK(url, h + 1, k - 1)
      /\ ~br => Only(url, HostPlaces(url, connect), HostChar)
      /\ w < e => At(url, w) = ":" /\ Only(url, PortPlaces(url, connect), Num)
  BY DEF ServerOK, ServerLies
<1>2. /\ a \in Nat /\ e \in Nat /\ e <= Len(url) /\ h \in a..e /\ k \in h..e
      /\ h = a \/ At(url, h - 1) = "@"
  <2>1. h \in a..e /\ (h = a \/ h - 1 \in AtSign(url, connect)) BY HostBegins
  <2>2. k \in h..e BY HostEnds
  <2> QED BY <2>1, <2>2 DEF ServerLies, AtSign
<1>3. /\ UserinfoChar \subseteq ServerChar /\ "@" \in ServerChar /\ "[" \in ServerChar
      /\ "]" \in ServerChar /\ ":" \in ServerChar /\ "%" \in ServerChar
      /\ HostChar \subseteq ServerChar /\ Num \subseteq ServerChar
      /\ ZoneChar \subseteq ServerChar /\ AddressChar \subseteq ServerChar
  BY DEF ServerChar, UserinfoChar, HostChar, ZoneChar, AddressChar, Hex, AlphaNum, Alpha, Num
<1>4. ASSUME NEW i \in a..(h - 1) PROVE At(url, i) \in ServerChar
  <2>1. CASE i = h - 1
    <3>1. h # a BY <1>2, <2>1
    <3> QED BY <1>2, <1>3, <2>1, <3>1
  <2>2. CASE i # h - 1
    <3>1. i \in a..(h - 2) BY <1>2, <2>2
    <3> QED BY <1>1, <1>3, <3>1 DEF Only
  <2> QED BY <2>1, <2>2
<1>5. ASSUME br, NEW i \in h..k PROVE At(url, i) \in ServerChar
  <2>1. At(url, h) = "[" BY <1>5 DEF Bracketed
  <2>2. k < e /\ At(url, k) = "]"
    <3>1. k < e BY <1>1, <1>5
    <3> QED BY <1>5, <3>1, HostEnds
  <2>3. CASE i = h BY <1>3, <2>1, <2>3
  <2>4. CASE i = k BY <1>3, <2>2, <2>4
  <2>5. CASE i \in (h + 1)..(k - 1)
    <3> DEFINE z == FirstOf(url, {"%", "]"}, h + 1)
    <3>1. /\ Only(url, (h + 1)..(z - 1), AddressChar)
          /\ z <= k - 1 => Only(url, (z + 1)..(k - 1), ZoneChar)
      BY <1>1, <1>5 DEF AddressOK, AddressChar
    <3>2. z \in (h + 1)..Len(url) /\ (z = Len(url) \/ At(url, z) \in {"%", "]"})
      <4>1. h + 1 \in Nat /\ h + 1 <= Len(url) BY <1>2, <2>2
      <4> QED BY <4>1, FirstExists
    <3> HIDE DEF z
    <3>3. CASE i < z
      <4>1. i \in (h + 1)..(z - 1) BY <2>5, <3>2, <3>3
      <4> QED BY <1>3, <3>1, <4>1 DEF Only
    <3>4. CASE i = z
      <4>1. z # Len(url) BY <1>2, <2>2, <2>5, <3>4
      <4> QED BY <1>3, <3>2, <3>4, <4>1
    <3>5. CASE i > z
      <4>1. z <= k - 1 /\ i \in (z + 1)..(k - 1) BY <1>2, <2>5, <3>2, <3>5
      <4> QED BY <1>3, <3>1, <4>1 DEF Only
    <3> QED BY <1>2, <2>5, <3>2, <3>3, <3>4, <3>5
  <2> QED BY <1>2, <2>3, <2>4, <2>5
<1>6. ASSUME ~br, NEW i \in h..(k - 1) PROVE At(url, i) \in ServerChar
  <2>1. HostPlaces(url, connect) = h..(k - 1) BY <1>6 DEF HostPlaces
  <2> QED BY <1>1, <1>3, <1>6, <2>1 DEF Only
<1>7. w = k + (IF br THEN 1 ELSE 0) BY DEF HostClosed
<1>8. ASSUME NEW i \in w..(e - 1) PROVE At(url, i) \in ServerChar
  <2>1. w \in Nat BY <1>2, <1>7
  <2>2. w < e BY <1>2, <1>8, <2>1
  <2>3. CASE i = w BY <1>1, <1>3, <2>2, <2>3
  <2>4. CASE i # w
    <3>1. i \in (w + 1)..(e - 1) BY <1>8, <2>1, <2>4
    <3>2. PortPlaces(url, connect) = (w + 1)..(e - 1) BY DEF PortPlaces
    <3> QED BY <1>1, <1>3, <2>2, <3>1, <3>2 DEF Only
  <2> QED BY <2>3, <2>4
<1>9. ASSUME NEW i \in a..(e - 1) PROVE At(url, i) \in ServerChar
  <2> HIDE DEF a, e, h, k, w, br
  <2>1. i \in a..(h - 1) \/ i \in h..(k - 1) \/ i \in k..(e - 1) BY <1>2
  <2>2. CASE br
    <3>1. w = k + 1 BY <1>7, <2>2
    <3>2. i \in k..(e - 1) => i = k \/ i \in w..(e - 1) BY <1>2, <3>1
    <3>3. i \in h..(k - 1) => i \in h..k BY <1>2
    <3>4. i = k => i \in h..k BY <1>2
    <3> QED BY <1>4, <1>5, <1>8, <2>1, <2>2, <3>2, <3>3, <3>4
  <2>3. CASE ~br
    <3>1. w = k BY <1>2, <1>7, <2>3
    <3> QED BY <1>4, <1>6, <1>8, <2>1, <2>3, <3>1
  <2> QED BY <2>2, <2>3
<1> QED BY <1>1, <1>9 DEF Only

-----------------------------------------------------------------------------
(* What the first loop rejects is not of the grammar.                      *)

\* The schema ends at the first colon, which is not before the letters end.
LEMMA ColonIs ==
  ASSUME NEW url \in Seq(UrlByte), NEW connect, ~connect, NEW n \in Nat, n <= Len(url),
         SchemaRead(url, n), SchemaOK(url, connect)
  PROVE  /\ n + 2 < Len(url) /\ At(url, n) \in Alpha \cup {":"}
         /\ At(url, n) = ":" => At(url, n + 1) = "/" /\ At(url, n + 2) = "/"
<1> DEFINE k == FirstOf(url, {":"}, 0)
<1>1. n > 0 /\ Only(url, 0..(n - 1), Alpha) BY DEF SchemaRead
<1>2. /\ k \in 0..Len(url) /\ (k = Len(url) \/ At(url, k) \in {":"})
      /\ \A j \in 0..(k - 1) : At(url, j) \notin {":"}
  <2>1. 0 \in Nat /\ 0 <= Len(url) OBVIOUS
  <2> QED BY <2>1, FirstExists
<1>3. Absolute(url)
  <2>1. 0 \in 0..(n - 1) /\ Len(url) > 0 BY <1>1
  <2> QED BY <1>1, <2>1 DEF Absolute, Only
<1>4. /\ Only(url, 0..(k - 1), Alpha)
      /\ k + 2 < Len(url) /\ At(url, k + 1) = "/" /\ At(url, k + 2) = "/"
  BY <1>3 DEF SchemaOK
<1> HIDE DEF k
<1>5. n <= k
  <2>1. SUFFICES ASSUME k < n PROVE FALSE BY <1>2
  <2>2. k \in 0..(n - 1) BY <1>2, <2>1
  <2>3. At(url, k) \in Alpha BY <1>1, <2>2 DEF Only
  <2>4. At(url, k) = ":" BY <1>2, <1>4
  <2> QED BY <2>3, <2>4, BytesApart
<1>6. CASE n = k
  <2>1. At(url, n) = ":" BY <1>2, <1>4, <1>6
  <2> QED BY <1>4, <1>6, <2>1
<1>7. CASE n < k
  <2>1. n \in 0..(k - 1) BY <1>2, <1>7
  <2>2. At(url, n) \in Alpha BY <1>4, <2>1 DEF Only
  <2>3. At(url, n) # ":" BY <2>2, BytesApart
  <2>4. n + 2 < Len(url) BY <1>2, <1>4, <1>7
  <2> QED BY <2>2, <2>3, <2>4
<1> QED BY <1>2, <1>5, <1>6, <1>7

\* A url that is not accepted before its server, or ends there.
LEMMA DeadInSchema ==
  ASSUME NEW url \in Seq(UrlByte), NEW connect, NEW len \in Lengths, NEW f, NEW i \in Nat,
         NEW t \in {"spaces_before_url", "schema", "schema_slash", "schema_slash_slash"},
         ReadSoFar(t, url, connect, len, f, i), i <= Len(url), NEW max,
         i < Len(url) => ParseUrlChar(t, At(url, i)) = "dead"
  PROVE  ~WellFormed(url, connect, max)
<1> SUFFICES ASSUME WellFormed(url, connect, max) PROVE FALSE OBVIOUS
<1> DEFINE n == len["SCHEMA"]
<1>a. n \in Nat /\ Len(url) \in Nat BY PlacesNat
<1>b. SchemaOK(url, connect) /\ RestOK(url, connect) BY DEF WellFormed
<1>c. t \in UrlState \ {"dead"} BY DEF UrlState
<1>d. i < Len(url) => At(url, i) \in UrlByte
  <2>1. i < Len(url) => i + 1 \in 1..Len(url) BY <1>a
  <2> QED BY <2>1 DEF At
<1>1. CASE t = "spaces_before_url"
  <2>1. ~connect /\ i = 0 BY <1>1 DEF ReadSoFar
  <2>2. i < Len(url) => At(url, 0) \notin Alpha \cup {"/", "*"}
    BY <1>1, <1>c, <1>d, <2>1, CharDead DEF Server
  <2>3. ~Absolute(url) BY <1>a, <2>1, <2>2 DEF Absolute
  <2>4. Len(url) > 0 /\ At(url, 0) \in {"/", "*"} BY <1>b, <2>1, <2>3 DEF RestOK
  <2> QED BY <2>1, <2>2, <2>4
<1>2. CASE t = "schema"
  <2>1. ~connect /\ i = n /\ SchemaRead(url, n) BY <1>2 DEF ReadSoFar
  <2>2. n + 2 < Len(url) /\ At(url, n) \in Alpha \cup {":"} BY <1>a, <1>b, <2>1, ColonIs
  <2>3. i < Len(url) BY <1>a, <2>1, <2>2
  <2>4. At(url, i) \notin Alpha \cup {":"} BY <1>2, <1>c, <1>d, <2>3, CharDead DEF Server
  <2> QED BY <2>1, <2>2, <2>4
<1>3. CASE t = "schema_slash"
  <2>1. i - 1 = n /\ i = n + 1 /\ n <= Len(url) BY <1>3, <1>a DEF ReadSoFar
  <2>2. ~connect /\ SchemaRead(url, n) /\ At(url, n) = ":" BY <1>3, <2>1 DEF ReadSoFar
  <2>3. n + 2 < Len(url) /\ At(url, n + 1) = "/" BY <1>a, <1>b, <2>1, <2>2, ColonIs
  <2>4. i < Len(url) BY <1>a, <2>1, <2>3
  <2>5. At(url, i) # "/" BY <1>3, <1>c, <1>d, <2>4, CharDead DEF Server
  <2> QED BY <2>1, <2>3, <2>5
<1>4. CASE t = "schema_slash_slash"
  <2>1. i - 2 = n /\ i = n + 2 /\ n <= Len(url) BY <1>4, <1>a DEF ReadSoFar
  <2>2. ~connect /\ SchemaRead(url, n) /\ At(url, n) = ":" BY <1>4, <2>1 DEF ReadSoFar
  <2>3. n + 2 < Len(url) /\ At(url, n + 2) = "/" BY <1>a, <1>b, <2>1, <2>2, ColonIs
  <2>4. i < Len(url) BY <1>a, <2>1, <2>3
  <2>5. At(url, i) # "/" BY <1>4, <1>c, <1>d, <2>4, CharDead DEF Server
  <2> QED BY <2>1, <2>3, <2>5
<1> QED BY <1>1, <1>2, <1>3, <1>4

\* What was read of a server is of the server.
LEMMA ServerReadLies ==
  ASSUME NEW url \in Seq(UrlByte), NEW connect, NEW len \in Lengths,
         ServerRead(url, connect, len), HasServer(connect, len),
         PathAt(connect, len) <= Len(url)
  PROVE  /\ ServerLies(url, connect) /\ ServerFrom(url, connect) = ServerAt(connect, len)
         /\ PathAt(connect, len) <= ServerEnd(url, connect)
         /\ PathAt(connect, len) < Len(url)
              /\ At(url, PathAt(connect, len)) \in {"/", "?"}
              => ServerEnd(url, connect) = PathAt(connect, len)
         /\ PathAt(connect, len) < Len(url)
              /\ At(url, PathAt(connect, len)) \notin {"/", "?"}
              => PathAt(connect, len) < ServerEnd(url, connect)
<1> DEFINE a == ServerAt(connect, len)
           i == PathAt(connect, len)
           n == len["SCHEMA"]
           e == ServerEnd(url, connect)
<1>a. a \in Nat /\ i \in Nat /\ n \in Nat /\ len["HOST"] \in Nat /\ Len(url) \in Nat
  BY PlacesNat
<1>1. i = a + len["HOST"] BY DEF PathAt
<1>2. SlashesRead(url, connect, n) /\ Only(url, a..(i - 1), ServerChar) BY DEF ServerRead
<1>3. connect \/ n + 2 < Len(url)
  <2>1. ~connect => a = n + 3 BY DEF ServerAt
  <2> QED BY <1>a, <1>1, <2>1
<1>4. /\ ServerFrom(url, connect) = IF connect THEN 0 ELSE n + 3
      /\ connect \/ Absolute(url)
  BY <1>a, <1>2, <1>3, ServerFromIs
<1>5. ServerFrom(url, connect) = a BY <1>4 DEF ServerAt
<1>6. i \in a..Len(url) BY <1>a, <1>1
<1>7. /\ e \in i..Len(url) /\ (e = Len(url) \/ At(url, e) \in {"/", "?"})
      /\ \A j \in a..(e - 1) : At(url, j) \notin {"/", "?"}
  BY <1>a, <1>2, <1>4, <1>5, <1>6, ServerEndAfter
<1> HIDE DEF a, i, n, e
<1>8. ServerLies(url, connect)
  <2>1. a <= e /\ e \in Nat /\ e <= Len(url) BY <1>a, <1>6, <1>7
  <2> QED BY <1>a, <1>4, <1>5, <2>1 DEF ServerLies, e
<1>9. i < Len(url) /\ At(url, i) \in {"/", "?"} => e = i
  <2>1. SUFFICES ASSUME At(url, i) \in {"/", "?"}, i < e PROVE FALSE BY <1>a, <1>7
  <2>2. i \in a..(e - 1) BY <1>6, <1>7, <2>1
  <2> QED BY <1>7, <2>1, <2>2
<1>10. i < Len(url) /\ At(url, i) \notin {"/", "?"} => i < e
  <2>1. SUFFICES ASSUME i < Len(url), At(url, i) \notin {"/", "?"}, e = i PROVE FALSE
    BY <1>a, <1>7
  <2> QED BY <1>7, <2>1
<1> QED BY <1>5, <1>7, <1>8, <1>9, <1>10 DEF a, i, e

\* One that is not accepted in its server.
LEMMA DeadInServer ==
  ASSUME NEW url \in Seq(UrlByte), NEW connect, NEW len \in Lengths, NEW f, NEW i \in Nat,
         NEW t, t \in Server, ReadSoFar(t, url, connect, len, f, i), i < Len(url), NEW max,
         ParseUrlChar(t, At(url, i)) = "dead"
  PROVE  ~WellFormed(url, connect, max)
<1> SUFFICES ASSUME WellFormed(url, connect, max) PROVE FALSE OBVIOUS
<1> DEFINE a == ServerAt(connect, len)
           e == ServerEnd(url, connect)
<1>a. /\ a \in Nat /\ len["HOST"] \in Nat /\ Len(url) \in Nat
      /\ t \in UrlState \ {"dead"}
  BY PlacesNat DEF Server, UrlState
<1>b. At(url, i) \in UrlByte
  <2>1. i + 1 \in 1..Len(url) OBVIOUS
  <2> QED BY <2>1 DEF At
<1>1. /\ i = PathAt(connect, len) /\ ServerRead(url, connect, len)
      /\ HasServer(connect, len) /\ i = ServerAt(connect, len) + len["HOST"]
      /\ \A g \in Field \ {"SCHEMA", "HOST"} : len[g] = 0
  BY ServerSoFarRead
<1>2. \/ At(url, i) \notin ServerChar \cup {"/", "?"}
      \/ t = "server_with_at" /\ At(url, i) = "@"
  <2> DEFINE c == At(url, i)
  <2>1. /\ t \notin {"spaces_before_url", "schema", "schema_slash", "schema_slash_slash"}
        /\ t \in Server
    BY DEF Server
  <2>2. \/ t = "spaces_before_url" /\ c \notin Alpha \cup {"/", "*"}
        \/ t = "schema" /\ c \notin Alpha \cup {":"}
        \/ t \in {"schema_slash", "schema_slash_slash"} /\ c # "/"
        \/ t \in Server /\ c \notin ServerChar \cup {"/", "?"}
        \/ t = "server_with_at" /\ c = "@"
        \/ t \notin Server \cup {"spaces_before_url", "schema", "schema_slash",
                                 "schema_slash_slash"} /\ c = "bad"
    BY <1>a, <1>b, CharDead
  <2> HIDE DEF c
  <2>3. c \notin ServerChar \cup {"/", "?"} \/ (t = "server_with_at" /\ c = "@")
    BY <2>1, <2>2
  <2> QED BY <2>3 DEF c
<1>3. At(url, i) \notin {"/", "?"} BY <1>2
<1>4. ServerLies(url, connect) /\ ServerFrom(url, connect) = a /\ i < e
  <2>1. PathAt(connect, len) <= Len(url) BY <1>a, <1>1
  <2> QED BY <1>1, <1>3, <2>1, ServerReadLies
<1>5. /\ Only(url, a..(e - 1), ServerChar)
      /\ \A j, k \in AtSign(url, connect) : j = k
  <2>1. ServerOK(url, connect, max) BY DEF WellFormed
  <2> QED BY <1>4, <2>1, ServerBytes
<1>6. i \in a..(e - 1) /\ e \in Nat BY <1>a, <1>1, <1>4 DEF ServerLies
<1>7. At(url, i) \in ServerChar BY <1>5, <1>6 DEF Only
<1>8. t = "server_with_at" /\ At(url, i) = "@" BY <1>2, <1>7
<1>9. At(url, i - 1) = "@" /\ len["HOST"] > 0 BY <1>8 DEF ReadSoFar
<1>10. i - 1 \in a..(e - 1) BY <1>a, <1>1, <1>6, <1>9
<1>11. i \in AtSign(url, connect) /\ i - 1 \in AtSign(url, connect)
  BY <1>4, <1>6, <1>8, <1>9, <1>10, HostBegins
<1>12. i = i - 1 BY <1>5, <1>11
<1> QED BY <1>12

\* One that is not accepted behind it.
LEMMA DeadInTail ==
  ASSUME NEW url \in Seq(UrlByte), NEW connect, NEW len \in Lengths, NEW f \in Nat,
         NEW i \in Nat, NEW t, t \in EndState \ Server,
         ReadSoFar(t, url, connect, len, f, i), i < Len(url), NEW max,
         ParseUrlChar(t, At(url, i)) = "dead"
  PROVE  ~WellFormed(url, connect, max)
<1> DEFINE e == PathAt(connect, len)
           q == QueryAt(connect, len)
<1>a. /\ e \in Nat /\ q \in Nat /\ q = e + len["PATH"] /\ len["PATH"] \in Nat
      /\ len["QUERY"] \in Nat /\ len["FRAGMENT"] \in Nat
      /\ Len(url) \in Nat /\ t \in UrlState \ {"dead"}
  BY PlacesNat DEF EndState, UrlState, QueryAt
<1>b. At(url, i) \in UrlByte
  <2>1. i + 1 \in 1..Len(url) OBVIOUS
  <2> QED BY <2>1 DEF At
<1>1. At(url, i) = "bad" BY <1>a, <1>b, CharDead DEF EndState, Server
<1>2. /\ PathRead(url, connect, len) /\ q <= i
      /\ len["PATH"] > 0 \/ (q < i /\ At(url, q) = "?")
  <2>1. CASE t = "path" BY <1>a, <2>1 DEF ReadSoFar
  <2>2. CASE t \in {"query_string_start", "query_string"}
    <3>1. /\ i = q + 1 + len["QUERY"] /\ PathRead(url, connect, len)
          /\ QueryRead(url, connect, len)
      BY <2>2 DEF ReadSoFar
    <3>2. At(url, q) = "?" BY <3>1 DEF QueryRead
    <3>3. q < i BY <1>a, <3>1
    <3> QED BY <1>a, <3>1, <3>2, <3>3
  <2>3. ASSUME NEW k \in Nat, k <= i, HashesRead(url, connect, len, k)
        PROVE  /\ PathRead(url, connect, len) /\ q < i
               /\ len["PATH"] > 0 \/ At(url, q) = "?"
    <3> DEFINE h == HashAt(url, connect, len)
    <3>1. PathRead(url, connect, len) /\ h < k /\ (len["PATH"] > 0 \/ At(url, q) = "?")
      BY <2>3 DEF HashesRead
    <3>2. h = q + 1 + len["QUERY"] \/ h = q BY DEF HashAt
    <3>3. q < i BY <1>a, <2>3, <3>1, <3>2
    <3> QED BY <3>1, <3>3
  <2>4. CASE t = "fragment_start"
    <3>1. HashesRead(url, connect, len, i) /\ i <= i BY <2>4 DEF ReadSoFar
    <3>2. /\ PathRead(url, connect, len) /\ q < i
          /\ len["PATH"] > 0 \/ At(url, q) = "?"
      BY <2>3, <3>1
    <3> QED BY <1>a, <3>2
  <2>5. CASE t = "fragment"
    <3>1. i = f + len["FRAGMENT"] /\ HashesRead(url, connect, len, f)
      BY <2>5 DEF ReadSoFar
    <3>2. f <= i BY <1>a, <3>1
    <3>3. /\ PathRead(url, connect, len) /\ q < i
          /\ len["PATH"] > 0 \/ At(url, q) = "?"
      BY <2>3, <3>1, <3>2
    <3> QED BY <1>a, <3>3
  <2> QED BY <2>1, <2>2, <2>4, <2>5 DEF EndState
<1>3. ServerEnd(url, connect) \in Nat /\ ServerEnd(url, connect) <= i
  <2>1. CASE HasServer(connect, len)
    <3>1. ServerRead(url, connect, len) /\ (len["PATH"] > 0 => At(url, e) = "/")
      BY <1>2, <2>1 DEF PathRead
    <3>2. e < Len(url) /\ e <= i BY <1>a, <1>2
    <3>3. At(url, e) \in {"/", "?"}
      <4>1. CASE len["PATH"] > 0 BY <3>1, <4>1
      <4>2. CASE len["PATH"] = 0
        <5>1. q = e /\ At(url, q) = "?" BY <1>a, <1>2, <4>2
        <5> QED BY <5>1
      <4> QED BY <1>a, <4>1, <4>2
    <3>4. ServerEnd(url, connect) = e
      <4>1. e <= Len(url) BY <1>a, <3>2
      <4> QED BY <2>1, <3>1, <3>2, <3>3, <4>1, ServerReadLies
    <3> QED BY <1>a, <3>2, <3>4
  <2>2. CASE ~HasServer(connect, len)
    <3>1. ~connect /\ At(url, 0) \in {"/", "*"} BY <1>2, <2>2 DEF PathRead, HasServer
    <3>2. ~Absolute(url) BY <3>1, BytesApart DEF Absolute
    <3>3. ServerEnd(url, connect) = 0 BY <3>1, <3>2 DEF ServerEnd
    <3> QED BY <3>3
  <2> QED BY <2>1, <2>2
<1>4. ~RestOK(url, connect)
  <2>1. i \in ServerEnd(url, connect)..(Len(url) - 1) BY <1>a, <1>3
  <2> QED BY <1>1, <2>1 DEF RestOK, From, Only
<1> QED BY <1>4 DEF WellFormed

\* A url that is not accepted to its end.
LEMMA ReadDead ==
  ASSUME NEW url \in Seq(UrlByte), NEW connect, NEW len \in Lengths, NEW f \in Nat,
         NEW i \in Nat, NEW t \in UrlState \ {"dead"},
         ReadSoFar(t, url, connect, len, f, i), i < Len(url), NEW max,
         ParseUrlChar(t, At(url, i)) = "dead"
  PROVE  ~WellFormed(url, connect, max)
<1>a. i <= Len(url) OBVIOUS
<1>1. CASE t \in {"spaces_before_url", "schema", "schema_slash", "schema_slash_slash"}
  BY <1>a, <1>1, DeadInSchema
<1>2. CASE t \in Server BY <1>2, DeadInServer
<1>3. CASE t \in EndState \ Server BY <1>3, DeadInTail
<1> QED BY <1>1, <1>2, <1>3 DEF UrlState, EndState, Server

\* A url that ends before its server begins, or without one.
LEMMA ReadStops ==
  ASSUME NEW url \in Seq(UrlByte), NEW connect, NEW len \in Lengths, NEW off \in Lengths,
         NEW t \in UrlState \ {"dead"}, NEW max,
         ReadSoFar(t, url, connect, len, off["FRAGMENT"], Len(url)),
         Placed(connect, off, len), \A i \in 1..Len(url) : url[i] # "bad",
         t \notin EndState \/ (HasServer(connect, len) /\ len["HOST"] = 0)
  PROVE  ~WellFormed(url, connect, max)
<1>a. Len(url) \in Nat OBVIOUS
<1>1. CASE t \notin EndState
  <2>1. t \in {"spaces_before_url", "schema", "schema_slash", "schema_slash_slash"}
    BY <1>1 DEF UrlState, EndState, Server
  <2>2. Len(url) <= Len(url) /\ ~(Len(url) < Len(url)) BY <1>a
  <2> QED BY <1>a, <2>1, <2>2, DeadInSchema
<1>2. CASE t \in EndState /\ HasServer(connect, len) /\ len["HOST"] = 0
  <2> DEFINE a == ServerAt(connect, len)
             h == HostFrom(url, connect)
             k == HostEnd(url, connect)
  <2>1. /\ connect \/ Absolute(url)
        /\ ServerFrom(url, connect) = ServerAt(connect, len)
        /\ ServerEnd(url, connect) = PathAt(connect, len)
    BY <1>2, ReadIsGrammar DEF PartsRead
  <2>2. a \in Nat /\ PathAt(connect, len) \in Nat BY PlacesNat
  <2>3. PathAt(connect, len) = a BY <1>2, <2>2 DEF PathAt
  <2>4. PathAt(connect, len) <= Len(url)
    <3>1. PICK m, j \in Nat :
            TailRead(url, len, PathAt(connect, len), QueryAt(connect, len), m, j)
      <4>1. off["FRAGMENT"] \in Nat BY PlacesNat
      <4> QED BY <1>2, <4>1, TailIs DEF EndState
    <3>2. QueryAt(connect, len) \in PathAt(connect, len)..Len(url) BY <3>1 DEF TailRead
    <3> QED BY <2>2, <3>2
  <2>5. ServerLies(url, connect) BY <2>1, <2>2, <2>3, <2>4 DEF ServerLies
  <2>6. h \in a..a BY <2>1, <2>3, <2>5, HostBegins
  <2>7. k \in h..a BY <2>1, <2>3, <2>5, HostEnds
  <2>8. ~Bracketed(url, connect) BY <2>1, <2>2, <2>3, <2>6 DEF Bracketed
  <2>9. HostPlaces(url, connect) = {}
    <3>1. HostPlaces(url, connect) = h..(k - 1) BY <2>8 DEF HostPlaces
    <3> HIDE DEF a, h, k
    <3>2. h..(k - 1) = {} BY <2>2, <2>6, <2>7 DEF a
    <3> QED BY <3>1, <3>2
  <2>10. ~ServerOK(url, connect, max) BY <2>1, <2>9 DEF ServerOK
  <2> QED BY <2>10 DEF WellFormed
<1> QED BY <1>1, <1>2

-----------------------------------------------------------------------------
(* The loop over the server reads by the grammar.                          *)

\* Which bytes of a server lead where.
HostLeadsTo(t, c, n) ==
  \/ n = "host_start" /\ t \in {"userinfo_start", "userinfo"} /\ c = "@"
  \/ n = "userinfo" /\ t \in {"userinfo_start", "userinfo"} /\ c \in UserinfoChar
  \/ n = "host_v6_start" /\ t = "host_start" /\ c = "["
  \/ n = "host" /\ t \in {"host_start", "host"} /\ c \in HostChar
  \/ n = "host_v6" /\ t \in {"host_v6_start", "host_v6"} /\ c \in AddressChar
  \/ n = "host_v6_zone_start" /\ t = "host_v6" /\ c = "%"
  \/ /\ n = "host_v6_zone" /\ t \in {"host_v6_zone_start", "host_v6_zone"}
     /\ c \in ZoneChar
  \/ n = "host_v6_end" /\ t \in {"host_v6", "host_v6_zone"} /\ c = "]"
  \/ n = "host_port_start" /\ t \in {"host", "host_v6_end"} /\ c = ":"
  \/ n = "host_port" /\ t \in {"host_port_start", "host_port"} /\ c \in Num

\* The table is that of http_parse_host_char.
LEMMA HostCharTo ==
  ASSUME NEW t \in HostState \ {"host_dead"}, NEW c, NEW n,
         n = ParseHostChar(t, c), n # "host_dead"
  PROVE  HostLeadsTo(t, c, n)
BY DEF ParseHostChar, HostLeadsTo, AddressChar

\* And which nowhere.
HostLeadsNowhere(t, c) ==
  \/ t \in {"userinfo_start", "userinfo"} /\ c \notin UserinfoChar \cup {"@"}
  \/ t = "host_start" /\ c \notin HostChar \cup {"["}
  \/ t = "host" /\ c \notin HostChar \cup {":"}
  \/ t = "host_v6_start" /\ c \notin AddressChar
  \/ t = "host_v6" /\ c \notin AddressChar \cup {"%", "]"}
  \/ t = "host_v6_zone_start" /\ c \notin ZoneChar
  \/ t = "host_v6_zone" /\ c \notin ZoneChar \cup {"]"}
  \/ t = "host_v6_end" /\ c # ":"
  \/ t \in {"host_port_start", "host_port"} /\ c \notin Num

\* It leads to host_dead with no other.
LEMMA HostCharDead ==
  ASSUME NEW t \in HostState \ {"host_dead"}, NEW c, ParseHostChar(t, c) = "host_dead"
  PROVE  HostLeadsNowhere(t, c)
BY DEF ParseHostChar, HostLeadsNowhere, AddressChar, HostState

\* Bytes that end a part of the server are not of it.
LEMMA HostBytesApart ==
  /\ "@" \notin UserinfoChar /\ "@" \notin HostChar /\ "@" \notin AddressChar
  /\ "@" \notin ZoneChar /\ "@" \notin Num
  /\ "[" \notin HostChar /\ ":" \notin HostChar
  /\ "]" \notin AddressChar /\ "%" \notin AddressChar /\ "]" \notin ZoneChar
BY DEF UserinfoChar, HostChar, AddressChar, ZoneChar, Hex, AlphaNum, Alpha, Num

\* A byte more.
LEMMA OnlyLonger ==
  ASSUME NEW url, NEW a \in Int, NEW i \in Int, NEW bytes,
         Only(url, a..(i - 1), bytes), At(url, i) \in bytes
  PROVE  Only(url, a..i, bytes)
BY DEF Only

\* What the lengths of the parts before them say of the host and the port.
LEMMA SameServer ==
  ASSUME NEW url, NEW found, NEW first, NEW len, NEW then
  PROVE  /\ then["USERINFO"] = len["USERINFO"] =>
              HostAt(first, found, then) = HostAt(first, found, len)
         /\ then["HOST"] = len["HOST"] =>
              \A h : /\ ClosedAt(url, h, then) = ClosedAt(url, h, len)
                     /\ HostRead(url, h, len) => HostRead(url, h, then)
BY DEF HostAt, ClosedAt, HostRead

\* A field of the server has one byte more.
LEMMA HostOneMore ==
  ASSUME NEW len \in Lengths, NEW then \in Lengths, NEW f, OneMore(len, then, f)
  PROVE  \A g \in {"USERINFO", "HOST", "PORT"} :
           then[g] = IF g = f THEN len[g] + 1 ELSE len[g]
BY DEF OneMore, Field

\* What was read in the user information.
LEMMA InIs ==
  ASSUME NEW url, NEW found, NEW first, NEW i, NEW len, NEW t, t \in InUserinfo,
         ServerSoFar(t, url, found, len, first, i)
  PROVE  /\ found /\ i = first + len["USERINFO"]
         /\ Only(url, first..(i - 1), UserinfoChar)
         /\ len["HOST"] = 0 /\ len["PORT"] = 0
         /\ t = "userinfo_start" => len["USERINFO"] = 0
<1>1. \A g \in ServerField \ HostFieldsOf(t) : len[g] = 0 BY DEF ServerSoFar
<1>2. len["HOST"] = 0 /\ len["PORT"] = 0 /\ (t = "userinfo_start" => len["USERINFO"] = 0)
  BY <1>1 DEF HostFieldsOf, ServerField, InUserinfo
<1> QED BY <1>2 DEF ServerSoFar, InUserinfo

\* User information that was read stays.
LEMMA SamePast ==
  ASSUME NEW url, NEW found, NEW first, NEW len, NEW then,
         then["USERINFO"] = len["USERINFO"], PastUserinfo(url, found, len, first)
  PROVE  PastUserinfo(url, found, then, first)
BY DEF PastUserinfo, HostAt

\* A byte goes to the field of the state that it leads to.
Counted(len, then, n) ==
  IF FieldOfHost(n) = NoField THEN then = len ELSE OneMore(len, then, FieldOfHost(n))

\* What a byte changes of the lengths in the server, and what is still zero.
LEMMA CountedZero ==
  ASSUME NEW len \in Lengths, NEW then \in Lengths, NEW t, NEW n, NEW c,
         Counted(len, then, n), HostLeadsTo(t, c, n),
         \A g \in ServerField \ HostFieldsOf(t) : len[g] = 0
  PROVE  /\ \A g \in ServerField \ HostFieldsOf(n) : then[g] = 0
         /\ n = "userinfo" \/ then["USERINFO"] = len["USERINFO"]
         /\ n \in {"host", "host_v6", "host_v6_zone_start", "host_v6_zone"} =>
              then["HOST"] = len["HOST"] + 1
         /\ n \in {"host_v6_end", "host_port_start", "host_port"} =>
              then["HOST"] = len["HOST"]
         /\ t \in {"host_start", "host_v6_start"} => len["HOST"] = 0
         /\ n = "host_port" => then["PORT"] = len["PORT"] + 1
         /\ t = "host_port_start" => len["PORT"] = 0
         /\ n = "userinfo" => then["USERINFO"] = len["USERINFO"] + 1
<1>1. /\ HostFieldsOf(t) \subseteq HostFieldsOf(n)
      /\ FieldOfHost(n) # NoField => FieldOfHost(n) \in HostFieldsOf(n) \cap ServerField
      /\ HostFieldsOf(n) \subseteq ServerField
  BY DEF HostLeadsTo, HostFieldsOf, FieldOfHost, ServerField, NoField
<1>2. \A g \in ServerField \ HostFieldsOf(n) : then[g] = 0
  <2>1. CASE FieldOfHost(n) = NoField
    <3>1. then = len BY <2>1 DEF Counted
    <3> QED BY <1>1, <3>1
  <2>2. CASE FieldOfHost(n) # NoField
    <3>1. OneMore(len, then, FieldOfHost(n)) BY <2>2 DEF Counted
    <3>2. ServerField \subseteq Field BY DEF ServerField, Field
    <3> QED BY <1>1, <2>2, <3>1, <3>2 DEF OneMore
  <2> QED BY <2>1, <2>2
<1>3. FieldOfHost(n) # NoField => OneMore(len, then, FieldOfHost(n)) BY DEF Counted
<1>4. /\ FieldOfHost(n) = NoField => then = len
      /\ FieldOfHost(n) # NoField => \A g \in {"USERINFO", "HOST", "PORT"} :
           then[g] = IF g = FieldOfHost(n) THEN len[g] + 1 ELSE len[g]
  BY <1>3, HostOneMore DEF Counted
<1>5. /\ n \in {"host", "host_v6", "host_v6_zone_start", "host_v6_zone"} <=>
           FieldOfHost(n) = "HOST"
      /\ n = "host_port" <=> FieldOfHost(n) = "PORT"
      /\ n = "userinfo" <=> FieldOfHost(n) = "USERINFO"
      /\ "HOST" # NoField /\ "PORT" # NoField /\ "USERINFO" # NoField
  BY DEF FieldOfHost, NoField
<1>6. n = "userinfo" \/ then["USERINFO"] = len["USERINFO"] BY <1>4, <1>5
<1>7. n \in {"host", "host_v6", "host_v6_zone_start", "host_v6_zone"} =>
        then["HOST"] = len["HOST"] + 1
  BY <1>4, <1>5
<1>8. n \in {"host_v6_end", "host_port_start", "host_port"} => then["HOST"] = len["HOST"]
  BY <1>4, <1>5
<1>9. n = "host_port" => then["PORT"] = len["PORT"] + 1 BY <1>4, <1>5
<1>10. n = "userinfo" => then["USERINFO"] = len["USERINFO"] + 1 BY <1>4, <1>5
<1>11. t \in {"host_start", "host_v6_start"} => len["HOST"] = 0
  <2>1. t \in {"host_start", "host_v6_start"} => "HOST" \in ServerField \ HostFieldsOf(t)
    BY DEF HostFieldsOf, ServerField
  <2> QED BY <2>1
<1>12. t = "host_port_start" => len["PORT"] = 0
  <2>1. t = "host_port_start" => "PORT" \in ServerField \ HostFieldsOf(t)
    BY DEF HostFieldsOf, ServerField
  <2> QED BY <2>1
<1> QED BY <1>2, <1>6, <1>7, <1>8, <1>9, <1>10, <1>11, <1>12

\* The loop goes on with what was read of the server by the grammar.
LEMMA HostSoFarStep ==
  ASSUME NEW url, NEW h \in Nat, NEW i \in Nat, NEW len \in Lengths, NEW then \in Lengths,
         NEW t, NEW n, NEW c, c = At(url, i), n \notin InUserinfo \cup {"host_start"},
         HostLeadsTo(t, c, n), Counted(len, then, n),
         \A g \in ServerField \ HostFieldsOf(t) : len[g] = 0,
         HostSoFar(t, url, h, len, i)
  PROVE  HostSoFar(n, url, h, then, i + 1)
<1> DEFINE m == len["HOST"]
<1>a. m \in Nat /\ len["PORT"] \in Nat /\ (i + 1) - 1 = i /\ (i + 1) - 2 = i - 1
  BY PlacesNat
<1>b. /\ n \in {"host", "host_v6", "host_v6_zone_start", "host_v6_zone"} =>
           then["HOST"] = len["HOST"] + 1
      /\ n \in {"host_v6_end", "host_port_start", "host_port"} =>
           then["HOST"] = len["HOST"]
      /\ t \in {"host_start", "host_v6_start"} => len["HOST"] = 0
      /\ n = "host_port" => then["PORT"] = len["PORT"] + 1
      /\ t = "host_port_start" => len["PORT"] = 0
  BY CountedZero
<1>c. n \in {"host_v6_end", "host_port_start", "host_port"} =>
        /\ ClosedAt(url, h, then) = ClosedAt(url, h, len)
        /\ HostRead(url, h, len) => HostRead(url, h, then)
  BY <1>b, SameServer
<1>d. ClosedAt(url, h, len) = h + m + IF At(url, h) = "[" THEN 2 ELSE 0 BY DEF ClosedAt
<1>e. ClosedAt(url, h, len) \in Nat BY <1>a, <1>d
<1>1. CASE n = "host_v6_start"
  <2>1. t = "host_start" /\ c = "[" BY <1>1 DEF HostLeadsTo
  <2>2. i = h BY <2>1 DEF HostSoFar
  <2> QED BY <1>1, <2>1, <2>2 DEF HostSoFar
<1>2. CASE n = "host"
  <2>1. t \in {"host_start", "host"} /\ c \in HostChar BY <1>2 DEF HostLeadsTo
  <2>2. i = h + m /\ Only(url, h..(i - 1), HostChar)
    <3>1. CASE t = "host_start"
      <4>1. i = h /\ m = 0 BY <1>b, <3>1 DEF HostSoFar
      <4>2. h..(i - 1) = {} BY <4>1
      <4> QED BY <4>1, <4>2 DEF Only
    <3>2. CASE t = "host" BY <3>2 DEF HostSoFar
    <3> QED BY <2>1, <3>1, <3>2
  <2>3. Only(url, h..i, HostChar) BY <2>1, <2>2, OnlyLonger
  <2>4. i + 1 = h + then["HOST"] /\ then["HOST"] > 0 BY <1>2, <1>a, <1>b, <2>2
  <2> QED BY <1>2, <1>a, <2>3, <2>4 DEF HostSoFar
<1>3. CASE n = "host_v6"
  <2>1. t \in {"host_v6_start", "host_v6"} /\ c \in AddressChar BY <1>3 DEF HostLeadsTo
  <2>2. i = h + 1 + m /\ At(url, h) = "[" /\ Only(url, (h + 1)..(i - 1), AddressChar)
    <3>1. CASE t = "host_v6_start"
      <4>1. i = h + 1 /\ m = 0 /\ At(url, h) = "[" BY <1>b, <3>1 DEF HostSoFar
      <4>2. (h + 1)..(i - 1) = {} BY <4>1
      <4> QED BY <4>1, <4>2 DEF Only
    <3>2. CASE t = "host_v6" BY <3>2 DEF HostSoFar
    <3> QED BY <2>1, <3>1, <3>2
  <2>3. Only(url, (h + 1)..i, AddressChar)
    <3>1. h + 1 \in Int OBVIOUS
    <3> QED BY <2>1, <2>2, <3>1, OnlyLonger
  <2>4. i + 1 = h + 1 + then["HOST"] /\ then["HOST"] > 0 BY <1>3, <1>a, <1>b, <2>2
  <2> QED BY <1>3, <1>a, <2>2, <2>3, <2>4 DEF HostSoFar
<1>4. CASE n = "host_v6_zone_start"
  <2>1. t = "host_v6" /\ c = "%" BY <1>4 DEF HostLeadsTo
  <2>2. /\ i = h + 1 + m /\ m > 0 /\ At(url, h) = "["
        /\ Only(url, (h + 1)..(i - 1), AddressChar)
    BY <2>1 DEF HostSoFar
  <2>3. ZoneRead(url, h + 1, i, i)
    <3>1. h + 1 < i /\ i <= i BY <1>a, <2>2
    <3>2. (i + 1)..i = {} OBVIOUS
    <3>3. Only(url, (i + 1)..i, ZoneChar) BY <3>2 DEF Only
    <3> QED BY <2>1, <2>2, <3>1, <3>3 DEF ZoneRead
  <2>4. i + 1 = h + 1 + then["HOST"] BY <1>4, <1>a, <1>b, <2>2
  <2> QED BY <1>4, <1>a, <2>2, <2>3, <2>4 DEF HostSoFar
<1>5. CASE n = "host_v6_zone"
  <2>1. t \in {"host_v6_zone_start", "host_v6_zone"} /\ c \in ZoneChar
    BY <1>5 DEF HostLeadsTo
  <2>2. /\ i = h + 1 + m /\ At(url, h) = "["
        /\ \E k \in (h + 2)..(i - 1) : ZoneRead(url, h + 1, k, i - 1)
    <3>1. CASE t = "host_v6_zone_start"
      <4>1. i = h + 1 + m /\ At(url, h) = "[" /\ ZoneRead(url, h + 1, i - 1, i - 1)
        BY <3>1 DEF HostSoFar
      <4>2. i - 1 \in (h + 2)..(i - 1) BY <4>1 DEF ZoneRead
      <4> QED BY <4>1, <4>2
    <3>2. CASE t = "host_v6_zone"
      <4>1. /\ i = h + 1 + m /\ At(url, h) = "["
            /\ \E k \in (h + 2)..(i - 2) : ZoneRead(url, h + 1, k, i - 1)
        BY <3>2 DEF HostSoFar
      <4>2. (h + 2)..(i - 2) \subseteq (h + 2)..(i - 1) OBVIOUS
      <4> QED BY <4>1, <4>2
    <3> QED BY <2>1, <3>1, <3>2
  <2>3. PICK k \in (h + 2)..(i - 1) : ZoneRead(url, h + 1, k, i - 1) BY <2>2
  <2>4. ZoneRead(url, h + 1, k, i)
    <3>1. /\ h + 1 < k /\ k <= i - 1 /\ Only(url, (h + 1)..(k - 1), AddressChar)
          /\ At(url, k) = "%" /\ Only(url, (k + 1)..(i - 1), ZoneChar)
      BY <2>3 DEF ZoneRead
    <3>2. Only(url, (k + 1)..i, ZoneChar)
      <4>1. k + 1 \in Int OBVIOUS
      <4> QED BY <2>1, <3>1, <4>1, OnlyLonger
    <3>3. k <= i OBVIOUS
    <3> QED BY <3>1, <3>2, <3>3 DEF ZoneRead
  <2>5. i + 1 = h + 1 + then["HOST"] BY <1>5, <1>a, <1>b, <2>2
  <2> QED BY <1>5, <1>a, <2>2, <2>4, <2>5 DEF HostSoFar
<1>6. CASE n = "host_v6_end"
  <2>1. t \in {"host_v6", "host_v6_zone"} /\ c = "]" BY <1>6 DEF HostLeadsTo
  <2>2. /\ i = h + 1 + m /\ At(url, h) = "[" /\ m > 0
        /\ \/ Only(url, (h + 1)..(i - 1), AddressChar)
           \/ \E k \in (h + 2)..(i - 2) : ZoneRead(url, h + 1, k, i - 1)
    <3>1. CASE t = "host_v6" BY <3>1 DEF HostSoFar
    <3>2. CASE t = "host_v6_zone"
      <4>1. /\ i = h + 1 + m /\ At(url, h) = "["
            /\ \E k \in (h + 2)..(i - 2) : ZoneRead(url, h + 1, k, i - 1)
        BY <3>2 DEF HostSoFar
      <4>2. m > 0 BY <1>a, <4>1
      <4> QED BY <4>1, <4>2
    <3> QED BY <2>1, <3>1, <3>2
  <2>3. i - 1 = h + m /\ i - 2 = h + m - 1 /\ i = h + m + 1 BY <1>a, <2>2
  <2>4. HostRead(url, h, len) BY <2>1, <2>2, <2>3 DEF HostRead
  <2>5. i + 1 = ClosedAt(url, h, len) BY <1>a, <1>d, <2>2
  <2> QED BY <1>6, <1>c, <2>2, <2>4, <2>5 DEF HostSoFar
<1>7. CASE n = "host_port_start"
  <2>1. t \in {"host", "host_v6_end"} /\ c = ":" BY <1>7 DEF HostLeadsTo
  <2>2. i = ClosedAt(url, h, len) /\ HostRead(url, h, len)
    <3>1. CASE t = "host"
      <4>1. i = h + m /\ m > 0 /\ Only(url, h..(i - 1), HostChar)
        BY <3>1 DEF HostSoFar
      <4>2. h \in h..(i - 1) BY <1>a, <4>1
      <4>3. At(url, h) # "[" BY <4>1, <4>2, HostBytesApart DEF Only
      <4>4. i - 1 = h + m - 1 /\ i = ClosedAt(url, h, len) BY <1>a, <1>d, <4>1, <4>3
      <4> QED BY <4>1, <4>3, <4>4 DEF HostRead
    <3>2. CASE t = "host_v6_end" BY <3>2 DEF HostSoFar
    <3> QED BY <2>1, <3>1, <3>2
  <2> QED BY <1>7, <1>c, <2>1, <2>2 DEF HostSoFar
<1>8. CASE n = "host_port"
  <2> DEFINE e == ClosedAt(url, h, len)
  <2>1. t \in {"host_port_start", "host_port"} /\ c \in Num BY <1>8 DEF HostLeadsTo
  <2>2. /\ i = e + 1 + len["PORT"] /\ At(url, e) = ":" /\ HostRead(url, h, len)
        /\ Only(url, (e + 1)..(i - 1), Num)
    <3>1. CASE t = "host_port_start"
      <4>1. i = e + 1 /\ At(url, e) = ":" /\ HostRead(url, h, len) /\ len["PORT"] = 0
        BY <1>b, <3>1 DEF HostSoFar
      <4> HIDE DEF e
      <4>2. (e + 1)..(i - 1) = {} BY <1>e, <4>1 DEF e
      <4>3. Only(url, (e + 1)..(i - 1), Num) BY <4>2 DEF Only
      <4>4. i = e + 1 + len["PORT"] BY <1>e, <4>1 DEF e
      <4> QED BY <4>1, <4>3, <4>4 DEF e
    <3>2. CASE t = "host_port" BY <3>2 DEF HostSoFar
    <3> QED BY <2>1, <3>1, <3>2
  <2> HIDE DEF e
  <2>3. Only(url, (e + 1)..i, Num)
    <3>1. e + 1 \in Int BY <1>e DEF e
    <3> QED BY <2>1, <2>2, <3>1, OnlyLonger
  <2>4. i + 1 = e + 1 + then["PORT"] /\ then["PORT"] > 0
    BY <1>8, <1>a, <1>b, <1>e, <2>2 DEF e
  <2>5. ClosedAt(url, h, then) = e /\ HostRead(url, h, then) BY <1>8, <1>c, <2>2 DEF e
  <2> QED BY <1>8, <1>a, <2>2, <2>3, <2>4, <2>5 DEF HostSoFar
<1> QED BY <1>1, <1>2, <1>3, <1>4, <1>5, <1>6, <1>7, <1>8 DEF HostLeadsTo, InUserinfo

\* So it does from the user information on.
LEMMA ServerSoFarStep ==
  ASSUME NEW url, NEW found, NEW first \in Nat, NEW i \in Nat,
         NEW len \in Lengths, NEW then \in Lengths, NEW t, NEW n, NEW c, c = At(url, i),
         HostLeadsTo(t, c, n), Counted(len, then, n),
         ServerSoFar(t, url, found, len, first, i)
  PROVE  ServerSoFar(n, url, found, then, first, i + 1)
<1> DEFINE h == HostAt(first, found, len)
<1>a. len["USERINFO"] \in Nat /\ (i + 1) - 1 = i BY PlacesNat
<1>b. \A g \in ServerField \ HostFieldsOf(t) : len[g] = 0 BY DEF ServerSoFar
<1>c. /\ \A g \in ServerField \ HostFieldsOf(n) : then[g] = 0
      /\ n = "userinfo" \/ then["USERINFO"] = len["USERINFO"]
      /\ n = "userinfo" => then["USERINFO"] = len["USERINFO"] + 1
  BY <1>b, CountedZero
<1>d. h = IF found THEN first + len["USERINFO"] + 1 ELSE first BY DEF HostAt
<1>e. h \in Nat BY <1>a, <1>d
<1>1. CASE n = "userinfo"
  <2>1. t \in InUserinfo /\ c \in UserinfoChar BY <1>1 DEF HostLeadsTo, InUserinfo
  <2>2. found /\ i = first + len["USERINFO"] /\ Only(url, first..(i - 1), UserinfoChar)
    BY <2>1, InIs
  <2>3. Only(url, first..i, UserinfoChar) BY <2>1, <2>2, OnlyLonger
  <2>4. i + 1 = first + then["USERINFO"] BY <1>1, <1>a, <1>c, <2>2
  <2> QED BY <1>1, <1>a, <1>c, <2>2, <2>3, <2>4 DEF ServerSoFar, InUserinfo
<1>2. CASE n = "host_start"
  <2>1. t \in InUserinfo /\ c = "@" BY <1>2 DEF HostLeadsTo, InUserinfo
  <2>2. found /\ i = first + len["USERINFO"] /\ Only(url, first..(i - 1), UserinfoChar)
    BY <2>1, InIs
  <2>3. h = i + 1 /\ h - 1 = i BY <1>a, <1>d, <2>2
  <2>4. PastUserinfo(url, found, len, first)
    <3>1. first + len["USERINFO"] - 1 = i - 1 BY <1>a, <2>2
    <3> HIDE DEF h
    <3> QED BY <2>1, <2>2, <2>3, <3>1 DEF PastUserinfo, h
  <2>5. PastUserinfo(url, found, then, first) /\ HostAt(first, found, then) = h
    BY <1>2, <1>c, <2>4, SamePast, SameServer
  <2>6. HostSoFar(n, url, h, then, i + 1) BY <1>2, <2>3 DEF HostSoFar
  <2>7. n \notin InUserinfo BY <1>2 DEF InUserinfo
  <2> QED BY <1>c, <2>5, <2>6, <2>7 DEF ServerSoFar
<1>3. CASE n \notin {"userinfo", "host_start"}
  <2>1. t \notin InUserinfo /\ n \notin InUserinfo \cup {"host_start"}
    BY <1>3 DEF HostLeadsTo, InUserinfo
  <2>2. PastUserinfo(url, found, len, first) /\ HostSoFar(t, url, h, len, i)
    BY <2>1 DEF ServerSoFar
  <2>3. PastUserinfo(url, found, then, first) /\ HostAt(first, found, then) = h
    BY <1>3, <1>c, <2>2, SamePast, SameServer
  <2>4. HostSoFar(n, url, h, then, i + 1)
    <3> HIDE DEF h
    <3> QED BY <1>b, <1>e, <2>1, <2>2, HostSoFarStep
  <2> QED BY <1>c, <2>1, <2>3, <2>4 DEF ServerSoFar
<1> QED BY <1>1, <1>2, <1>3

\* The host does not begin behind what was read of it.
LEMMA HostSoFarFrom ==
  ASSUME NEW url, NEW h \in Nat, NEW i \in Nat, NEW len \in Lengths, NEW t,
         HostSoFar(t, url, h, len, i)
  PROVE  h <= i
<1>a. len["HOST"] \in Nat /\ len["PORT"] \in Nat BY PlacesNat
<1>b. ClosedAt(url, h, len) \in Nat /\ h <= ClosedAt(url, h, len) BY <1>a DEF ClosedAt
<1>1. CASE t \in {"host_start", "host_v6_start", "host", "host_v6", "host_v6_zone_start",
                  "host_v6_zone"}
  BY <1>a, <1>1 DEF HostSoFar
<1>2. CASE t \in {"host_v6_end", "host_port_start", "host_port"}
  <2> DEFINE e == ClosedAt(url, h, len)
  <2>1. i = e \/ i = e + 1 \/ i = e + 1 + len["PORT"] BY <1>2 DEF HostSoFar
  <2> HIDE DEF e
  <2> QED BY <1>a, <1>b, <2>1 DEF e
<1> QED BY <1>1, <1>2 DEF HostSoFar

\* The host of the grammar begins where the loop says.
LEMMA HostFromIs ==
  ASSUME NEW url \in Seq(UrlByte), NEW connect, ServerLies(url, connect),
         NEW found, found <=> AtSign(url, connect) # {},
         NEW i \in Nat, i <= ServerEnd(url, connect), NEW len \in Lengths, NEW t,
         t \notin InUserinfo,
         ServerSoFar(t, url, found, len, ServerFrom(url, connect), i),
         \A j, k \in AtSign(url, connect) : j = k
  PROVE  HostFrom(url, connect) = HostAt(ServerFrom(url, connect), found, len)
<1> DEFINE a == ServerFrom(url, connect)
           e == ServerEnd(url, connect)
           h == HostAt(a, found, len)
<1>a. a \in Nat /\ e \in Nat /\ len["USERINFO"] \in Nat BY PlacesNat DEF ServerLies
<1>b. PastUserinfo(url, found, len, a) /\ HostSoFar(t, url, h, len, i) BY DEF ServerSoFar
<1>1. CASE found
  <2>1. h = a + len["USERINFO"] + 1 BY <1>1 DEF HostAt
  <2>2. h \in Nat BY <1>a, <2>1
  <2>3. h <= i
    <3> HIDE DEF h
    <3> QED BY <1>b, <2>2, HostSoFarFrom
  <2>4. h - 1 \in a..(e - 1) BY <1>a, <2>1, <2>3
  <2>5. At(url, h - 1) = "@" BY <1>1, <1>b DEF PastUserinfo
  <2>6. h - 1 \in AtSign(url, connect) /\ HostFrom(url, connect) - 1 \in AtSign(url, connect)
    BY <1>1, <2>4, <2>5, HostBegins
  <2>7. HostFrom(url, connect) \in a..e BY HostBegins
  <2>8. HostFrom(url, connect) - 1 = h - 1 BY <2>6
  <2> HIDE DEF a, e, h
  <2>9. HostFrom(url, connect) = h BY <1>a, <2>2, <2>7, <2>8
  <2> QED BY <2>9 DEF a, h
<1>2. CASE ~found
  <2>1. HostFrom(url, connect) = a BY <1>2, HostBegins
  <2> QED BY <1>2, <2>1 DEF HostAt
<1> QED BY <1>1, <1>2

\* A host that was read is the host of the grammar, if it ends where a server or
\* its port begins to.
LEMMA HostReadIs ==
  ASSUME NEW url \in Seq(UrlByte), NEW connect, ServerLies(url, connect),
         NEW len \in Lengths, NEW h, h = HostFrom(url, connect), HostRead(url, h, len),
         NEW x, x = ClosedAt(url, h, len), x <= ServerEnd(url, connect),
         x = ServerEnd(url, connect) \/ At(url, x) = ":" \/ At(url, h) = "["
  PROVE  /\ HostClosed(url, connect) = x
         /\ HostPlaces(url, connect) # {}
         /\ LET b == h + IF At(url, h) = "[" THEN 1 ELSE 0
            IN  HostPlaces(url, connect) = b..(b + len["HOST"] - 1)
         /\ IF Bracketed(url, connect)
            THEN /\ HostEnd(url, connect) < ServerEnd(url, connect)
                 /\ AddressOK(url, h + 1, HostEnd(url, connect) - 1)
            ELSE Only(url, HostPlaces(url, connect), HostChar)
<1> DEFINE a == ServerFrom(url, connect)
           e == ServerEnd(url, connect)
           k == HostEnd(url, connect)
           n == len["HOST"]
<1>a. a \in Nat /\ e \in Nat /\ e <= Len(url) /\ Len(url) \in Nat /\ h \in Nat /\ n \in Nat
  BY PlacesNat, HostBegins DEF ServerLies
<1>b. x = h + n + IF At(url, h) = "[" THEN 2 ELSE 0 BY DEF ClosedAt
<1>c. n > 0 BY DEF HostRead
<1>d. h < e BY <1>a, <1>b, <1>c
<1>e. Bracketed(url, connect) <=> At(url, h) = "[" BY <1>d DEF Bracketed
<1>f. k \in h..e BY HostEnds
<1>1. CASE At(url, h) = "["
  <2>1. /\ At(url, h + n + 1) = "]"
        /\ \/ Only(url, (h + 1)..(h + n), AddressChar)
           \/ \E j \in (h + 2)..(h + n - 1) : ZoneRead(url, h + 1, j, h + n)
    BY <1>1 DEF HostRead
  <2>2. h + n + 1 < e BY <1>1, <1>a, <1>b
  <2>3. ASSUME NEW j \in h..(h + n) PROVE At(url, j) # "]"
    <3>1. CASE j = h BY <1>1, <3>1
    <3>2. CASE j # h
      <4>1. j \in (h + 1)..(h + n) BY <1>a, <3>2
      <4>2. CASE Only(url, (h + 1)..(h + n), AddressChar)
        BY <4>1, <4>2, HostBytesApart DEF Only
      <4>3. ASSUME NEW q \in (h + 2)..(h + n - 1), ZoneRead(url, h + 1, q, h + n)
            PROVE  At(url, j) # "]"
        <5>1. j \in (h + 1)..(q - 1) \/ j = q \/ j \in (q + 1)..(h + n) BY <1>a, <4>1
        <5>2. /\ Only(url, (h + 1)..(q - 1), AddressChar) /\ At(url, q) = "%"
              /\ Only(url, (q + 1)..(h + n), ZoneChar)
          BY <4>3 DEF ZoneRead
        <5> QED BY <5>1, <5>2, HostBytesApart DEF Only
      <4> QED BY <2>1, <4>2, <4>3
    <3> QED BY <3>1, <3>2
  <2>4. k = h + n + 1
    <3>1. /\ k < e => At(url, k) = "]"
          /\ \A j \in h..(k - 1) : At(url, j) # "]"
      BY <1>1, <1>e, HostEnds
    <3> HIDE DEF k, e, n
    <3>2. ~(h + n + 1 < k)
      <4>1. SUFFICES ASSUME h + n + 1 < k PROVE FALSE OBVIOUS
      <4>2. h + n + 1 \in h..(k - 1) BY <1>a, <1>f, <4>1
      <4> QED BY <2>1, <3>1, <4>2
    <3>3. ~(k < h + n + 1)
      <4>1. SUFFICES ASSUME k < h + n + 1 PROVE FALSE OBVIOUS
      <4>2. k \in h..(h + n) /\ k < e BY <1>a, <1>f, <2>2, <4>1
      <4> QED BY <2>3, <3>1, <4>2
    <3> QED BY <1>a, <1>f, <3>2, <3>3
  <2>5. AddressOK(url, h + 1, h + n)
    <3> DEFINE m == FirstOf(url, {"%", "]"}, h + 1)
    <3>1. h + 1 \in Nat /\ h + n + 1 \in (h + 1)..Len(url) BY <1>a, <2>2
    <3>2. CASE Only(url, (h + 1)..(h + n), AddressChar)
      <4>1. (h + n + 1) - 1 = h + n BY <1>a
      <4>2. \A j \in (h + 1)..((h + n + 1) - 1) : At(url, j) \notin {"%", "]"}
        BY <3>2, <4>1, HostBytesApart DEF Only
      <4>3. h + n + 1 = Len(url) \/ At(url, h + n + 1) \in {"%", "]"} BY <2>1
      <4>4. m = h + n + 1 BY <3>1, <4>2, <4>3, FirstIs
      <4> HIDE DEF m, n
      <4>5. h + 1 < m /\ ~(m <= h + n) /\ m - 1 = h + n BY <1>a, <1>c, <4>4
      <4>6. Only(url, (h + 1)..(m - 1), AddressChar) BY <3>2, <4>5
      <4> QED BY <4>5, <4>6 DEF AddressOK, AddressChar, m
    <3>3. ASSUME NEW q \in (h + 2)..(h + n - 1), ZoneRead(url, h + 1, q, h + n)
          PROVE  AddressOK(url, h + 1, h + n)
      <4>1. /\ Only(url, (h + 1)..(q - 1), AddressChar) /\ At(url, q) = "%"
            /\ Only(url, (q + 1)..(h + n), ZoneChar)
        BY <3>3 DEF ZoneRead
      <4>2. \A j \in (h + 1)..(q - 1) : At(url, j) \notin {"%", "]"}
        BY <4>1, HostBytesApart DEF Only
      <4>3. q \in (h + 1)..Len(url) BY <1>a, <3>1
      <4>4. q = Len(url) \/ At(url, q) \in {"%", "]"} BY <4>1
      <4>5. m = q BY <3>1, <4>2, <4>3, <4>4, FirstIs
      <4> HIDE DEF m, n
      <4>6. h + 1 < m /\ m < h + n BY <1>a, <4>5
      <4>7. Only(url, (h + 1)..(m - 1), AddressChar) /\ Only(url, (m + 1)..(h + n), ZoneChar)
        BY <4>1, <4>5
      <4> QED BY <4>6, <4>7 DEF AddressOK, AddressChar, m
    <3> QED BY <2>1, <3>2, <3>3
  <2>6. HostClosed(url, connect) = x
    <3>1. HostClosed(url, connect) = k + 1 BY <1>1, <1>e DEF HostClosed
    <3> HIDE DEF k, n
    <3> QED BY <1>1, <1>a, <1>b, <2>4, <3>1 DEF n
  <2>7. HostPlaces(url, connect) = (h + 1)..((h + 1) + n - 1)
    <3>1. HostPlaces(url, connect) = (h + 1)..(k - 1) BY <1>1, <1>e DEF HostPlaces
    <3> HIDE DEF k, n
    <3>2. k - 1 = (h + 1) + n - 1 BY <1>a, <2>4
    <3> QED BY <3>1, <3>2
  <2>8. h + 1 \in (h + 1)..((h + 1) + n - 1) BY <1>a, <1>c
  <2>9. k - 1 = h + n /\ k < e
    <3> HIDE DEF k, n, e
    <3> QED BY <1>a, <2>2, <2>4
  <2>10. AddressOK(url, h + 1, k - 1) BY <2>5, <2>9
  <2> HIDE DEF a, e, k
  <2> QED BY <1>1, <1>e, <2>6, <2>7, <2>8, <2>9, <2>10 DEF e, k
<1>2. CASE At(url, h) # "["
  <2>1. Only(url, h..(h + n - 1), HostChar) BY <1>2 DEF HostRead
  <2>2. x = h + n /\ (x = e \/ At(url, x) = ":") BY <1>2, <1>a, <1>b
  <2>3. k = x
    <3>1. /\ k < e => At(url, k) = ":"
          /\ \A j \in h..(k - 1) : At(url, j) # ":"
      BY <1>2, <1>e, HostEnds
    <3> HIDE DEF k, e, n
    <3>2. ~(x < k)
      <4>1. SUFFICES ASSUME x < k PROVE FALSE OBVIOUS
      <4>2. x \in h..(k - 1) /\ x # e BY <1>a, <1>f, <2>2, <4>1
      <4> QED BY <2>2, <3>1, <4>2
    <3>3. ~(k < x)
      <4>1. SUFFICES ASSUME k < x PROVE FALSE OBVIOUS
      <4>2. k \in h..(h + n - 1) /\ k < e BY <1>a, <1>f, <2>2, <4>1 DEF e
      <4>3. At(url, k) \in HostChar BY <2>1, <4>2 DEF Only
      <4> QED BY <3>1, <4>2, <4>3, HostBytesApart
    <3> QED BY <1>a, <1>f, <2>2, <3>2, <3>3
  <2>4. HostClosed(url, connect) = x
    <3>1. HostClosed(url, connect) = k + 0 BY <1>2, <1>e DEF HostClosed
    <3> HIDE DEF k
    <3> QED BY <1>a, <1>f, <2>3, <3>1
  <2>5. HostPlaces(url, connect) = (h + 0)..((h + 0) + n - 1)
    <3>1. HostPlaces(url, connect) = h..(k - 1) BY <1>2, <1>e DEF HostPlaces
    <3> HIDE DEF k, n
    <3>2. k - 1 = (h + 0) + n - 1 /\ h = h + 0 BY <1>a, <2>2, <2>3
    <3> QED BY <3>1, <3>2
  <2>6. h \in h..(h + n - 1) /\ h + 0 = h BY <1>a, <1>c
  <2>7. Only(url, HostPlaces(url, connect), HostChar) BY <2>1, <2>5, <2>6
  <2> QED BY <1>2, <1>e, <2>4, <2>5, <2>6, <2>7
<1> QED BY <1>1, <1>2

\* What ServerOK says, if there is a server.
LEMMA ServerOKSays ==
  ASSUME NEW url \in Seq(UrlByte), NEW connect, NEW max, ServerLies(url, connect),
         ServerOK(url, connect, max)
  PROVE  /\ \A i, j \in AtSign(url, connect) : i = j
         /\ Only(url, ServerFrom(url, connect)..(HostFrom(url, connect) - 2), UserinfoChar)
         /\ HostPlaces(url, connect) # {}
         /\ Bracketed(url, connect) =>
              /\ HostEnd(url, connect) < ServerEnd(url, connect)
              /\ AddressOK(url, HostFrom(url, connect) + 1, HostEnd(url, connect) - 1)
         /\ ~Bracketed(url, connect) =>
              Only(url, HostFrom(url, connect)..(HostEnd(url, connect) - 1), HostChar)
         /\ HostClosed(url, connect) < ServerEnd(url, connect) =>
              /\ At(url, HostClosed(url, connect)) = ":"
              /\ PortPlaces(url, connect) # {}
              /\ Only(url, PortPlaces(url, connect), Num)
BY DEF ServerOK, ServerLies, HostPlaces

\* Before the @ is user information.
LEMMA UserinfoEnds ==
  ASSUME NEW url \in Seq(UrlByte), NEW connect, NEW max, ServerLies(url, connect),
         ServerOK(url, connect, max), AtSign(url, connect) # {},
         NEW i \in Nat, ServerFrom(url, connect) <= i, i <= ServerEnd(url, connect),
         Only(url, ServerFrom(url, connect)..(i - 1), UserinfoChar)
  PROVE  i < ServerEnd(url, connect) /\ At(url, i) \in UserinfoChar \cup {"@"}
<1> DEFINE a == ServerFrom(url, connect)
           e == ServerEnd(url, connect)
           h == HostFrom(url, connect)
<1>1. a \in Nat /\ e \in Nat /\ h \in a..e BY HostBegins DEF ServerLies
<1>2. h - 1 \in AtSign(url, connect) BY HostBegins
<1>3. At(url, h - 1) = "@" /\ h - 1 \in a..(e - 1)
  BY <1>2, HostBegins
<1>4. Only(url, a..(h - 2), UserinfoChar) BY ServerOKSays
<1> HIDE DEF a, e, h
<1>5. i <= h - 1
  <2>1. SUFFICES ASSUME h - 1 < i PROVE FALSE BY <1>1
  <2>2. h - 1 \in a..(i - 1) BY <1>1, <1>3, <2>1
  <2>3. At(url, h - 1) \in UserinfoChar BY <2>2 DEF Only, a
  <2> QED BY <1>3, <2>3, HostBytesApart
<1>6. i < e BY <1>1, <1>3, <1>5
<1>7. CASE i = h - 1 BY <1>3, <1>6, <1>7 DEF e
<1>8. CASE i # h - 1
  <2>1. i \in a..(h - 2) BY <1>1, <1>5, <1>8 DEF a
  <2>2. At(url, i) \in UserinfoChar BY <1>4, <2>1 DEF Only
  <2> QED BY <1>6, <2>2 DEF e
<1> QED BY <1>7, <1>8

\* An address that was read goes on, or is closed.
LEMMA AddressGoesOn ==
  ASSUME NEW url \in Seq(UrlByte), NEW connect, NEW max, ServerLies(url, connect),
         ServerOK(url, connect, max), NEW h, h = HostFrom(url, connect),
         At(url, h) = "[", NEW i \in Nat, h < i, i <= ServerEnd(url, connect)
  PROVE  /\ i = h + 1 => i < ServerEnd(url, connect) /\ At(url, i) \in AddressChar
         /\ Only(url, (h + 1)..(i - 1), AddressChar) =>
              i < ServerEnd(url, connect) /\ At(url, i) \in AddressChar \cup {"%", "]"}
         /\ \A k \in Nat : ZoneRead(url, h + 1, k, i - 1) =>
              /\ i < ServerEnd(url, connect) /\ At(url, i) \in ZoneChar \cup {"]"}
              /\ k = i - 1 => At(url, i) \in ZoneChar
<1> DEFINE a == ServerFrom(url, connect)
           e == ServerEnd(url, connect)
           z == HostEnd(url, connect)
           m == FirstOf(url, {"%", "]"}, h + 1)
<1>1. a \in Nat /\ e \in Nat /\ h \in a..e /\ e <= Len(url) /\ Len(url) \in Nat
  BY HostBegins DEF ServerLies
<1>2. h < e BY <1>1
<1>3. Bracketed(url, connect) BY <1>2 DEF Bracketed
<1>4. z < e /\ AddressOK(url, h + 1, z - 1) BY <1>3, ServerOKSays
<1>5. z \in h..e /\ At(url, z) = "]" /\ \A j \in h..(z - 1) : At(url, j) # "]"
  BY <1>3, <1>4, HostEnds
<1>6. z # h BY <1>5
<1>7. /\ m \in (h + 1)..Len(url) /\ (m = Len(url) \/ At(url, m) \in {"%", "]"})
      /\ \A j \in (h + 1)..(m - 1) : At(url, j) \notin {"%", "]"}
  <2>1. h + 1 \in Nat /\ h + 1 <= Len(url) BY <1>1, <1>2
  <2> QED BY <2>1, FirstExists
<1>8. /\ h + 1 < m /\ Only(url, (h + 1)..(m - 1), AddressChar)
      /\ m <= z - 1 => m < z - 1 /\ Only(url, (m + 1)..(z - 1), ZoneChar)
  BY <1>4 DEF AddressOK, AddressChar
<1> HIDE DEF a, e, z, m
<1>9. z \in Nat /\ m \in Nat /\ h \in Nat BY <1>1, <1>5, <1>7
<1>10. m <= z
  <2>1. SUFFICES ASSUME z < m PROVE FALSE BY <1>9
  <2>2. z \in (h + 1)..(m - 1) BY <1>5, <1>6, <1>9, <2>1
  <2> QED BY <1>5, <1>7, <2>2
<1>11. ASSUME i = h + 1 PROVE i < e /\ At(url, i) \in AddressChar
  <2>1. i \in (h + 1)..(m - 1) /\ i < e BY <1>4, <1>8, <1>9, <1>10, <1>1, <1>11
  <2> QED BY <1>8, <2>1 DEF Only
<1>12. ASSUME Only(url, (h + 1)..(i - 1), AddressChar)
       PROVE  i < e /\ At(url, i) \in AddressChar \cup {"%", "]"}
  <2>1. i <= m
    <3>1. SUFFICES ASSUME m < i PROVE FALSE BY <1>9
    <3>2. m \in (h + 1)..(i - 1) /\ m # Len(url) BY <1>1, <1>7, <1>9, <3>1 DEF e
    <3>3. At(url, m) \in AddressChar BY <1>12, <3>2 DEF Only
    <3> QED BY <1>7, <3>2, <3>3, HostBytesApart
  <2>2. i < e BY <1>1, <1>4, <1>9, <1>10, <2>1
  <2>3. CASE i = m
    <3>1. m # Len(url) BY <1>1, <2>2, <2>3
    <3> QED BY <1>7, <2>2, <2>3, <3>1
  <2>4. CASE i # m
    <3>1. i \in (h + 1)..(m - 1) BY <1>9, <2>1, <2>4
    <3> QED BY <1>8, <2>2, <3>1 DEF Only
  <2> QED BY <2>3, <2>4
<1>13. ASSUME NEW k \in Nat, ZoneRead(url, h + 1, k, i - 1)
       PROVE  /\ i < e /\ At(url, i) \in ZoneChar \cup {"]"}
              /\ k = i - 1 => At(url, i) \in ZoneChar
  <2>1. /\ h + 1 < k /\ k <= i - 1 /\ Only(url, (h + 1)..(k - 1), AddressChar)
        /\ At(url, k) = "%" /\ Only(url, (k + 1)..(i - 1), ZoneChar)
    BY <1>13 DEF ZoneRead
  <2>2. m = k
    <3>1. k \in (h + 1)..Len(url) /\ h + 1 \in Nat BY <1>1, <1>9, <2>1 DEF e
    <3>2. \A j \in (h + 1)..(k - 1) : At(url, j) \notin {"%", "]"}
      BY <2>1, HostBytesApart DEF Only
    <3>3. k = Len(url) \/ At(url, k) \in {"%", "]"} BY <2>1
    <3> QED BY <3>1, <3>2, <3>3, FirstIs DEF m
  <2>3. k # z BY <1>5, <2>1
  <2>4. k < z - 1 /\ Only(url, (k + 1)..(z - 1), ZoneChar)
    <3>1. m <= z - 1 BY <1>9, <1>10, <2>2, <2>3
    <3> QED BY <1>8, <2>2, <3>1
  <2>5. i <= z
    <3>1. SUFFICES ASSUME z < i PROVE FALSE BY <1>9
    <3>2. z \in (k + 1)..(i - 1) BY <1>9, <2>4, <3>1
    <3> QED BY <1>5, <2>1, <3>2, HostBytesApart DEF Only
  <2>6. i < e BY <1>1, <1>4, <1>9, <2>5
  <2>7. CASE i = z
    <3>1. k # i - 1 BY <1>9, <2>4, <2>7
    <3> QED BY <1>5, <2>6, <2>7, <3>1
  <2>8. CASE i # z
    <3>1. i \in (k + 1)..(z - 1) BY <1>9, <2>1, <2>5, <2>8
    <3> QED BY <2>4, <2>6, <3>1 DEF Only
  <2> QED BY <2>7, <2>8
<1> QED BY <1>11, <1>12, <1>13 DEF e

\* And what was read of it was read from there.
LEMMA SoFarStays ==
  ASSUME NEW url \in Seq(UrlByte), NEW connect, NEW max, ServerLies(url, connect),
         ServerOK(url, connect, max), NEW found, found <=> AtSign(url, connect) # {},
         NEW i \in Nat, i <= ServerEnd(url, connect), NEW len \in Lengths, NEW t,
         ServerSoFar(t, url, found, len, ServerFrom(url, connect), i), t \notin InUserinfo
  PROVE  /\ HostAt(ServerFrom(url, connect), found, len) = HostFrom(url, connect)
         /\ HostSoFar(t, url, HostFrom(url, connect), len, i)
         /\ HostFrom(url, connect) \in Nat
<1>1. \A j, k \in AtSign(url, connect) : j = k BY ServerOKSays
<1>2. HostAt(ServerFrom(url, connect), found, len) = HostFrom(url, connect)
  BY <1>1, HostFromIs
<1>3. HostSoFar(t, url, HostFrom(url, connect), len, i) BY <1>2 DEF ServerSoFar
<1>4. HostFrom(url, connect) \in Nat BY HostBegins DEF ServerLies
<1> QED BY <1>2, <1>3, <1>4

\* The states of the loop inside an address.
InAddress == {"host_v6_start", "host_v6", "host_v6_zone_start", "host_v6_zone"}

\* What was read inside an address.
LEMMA AddressSoFar ==
  ASSUME NEW url, NEW h \in Nat, NEW i \in Nat, NEW len \in Lengths,
         NEW t, t \in InAddress, HostSoFar(t, url, h, len, i)
  PROVE  /\ At(url, h) = "[" /\ h < i
         /\ t = "host_v6_start" => i = h + 1
         /\ t = "host_v6" => Only(url, (h + 1)..(i - 1), AddressChar)
         /\ t = "host_v6_zone_start" => ZoneRead(url, h + 1, i - 1, i - 1)
         /\ t = "host_v6_zone" => \E k \in Nat : ZoneRead(url, h + 1, k, i - 1)
<1>a. len["HOST"] \in Nat BY PlacesNat
<1>1. CASE t = "host_v6_start" BY <1>1 DEF HostSoFar
<1>2. CASE t = "host_v6" BY <1>a, <1>2 DEF HostSoFar
<1>3. CASE t = "host_v6_zone_start" BY <1>a, <1>3 DEF HostSoFar
<1>4. CASE t = "host_v6_zone"
  <2>1. /\ i = h + 1 + len["HOST"] /\ At(url, h) = "["
        /\ \E k \in (h + 2)..(i - 2) : ZoneRead(url, h + 1, k, i - 1)
    BY <1>4 DEF HostSoFar
  <2>2. (h + 2)..(i - 2) \subseteq Nat OBVIOUS
  <2>3. \E k \in Nat : ZoneRead(url, h + 1, k, i - 1) BY <2>1, <2>2
  <2> QED BY <1>a, <1>4, <2>1, <2>3
<1> QED BY <1>1, <1>2, <1>3, <1>4 DEF InAddress

\* A server whose bytes are rejected, or that ends too early, is not of the grammar.
LEMMA AddressDead ==
  ASSUME NEW url \in Seq(UrlByte), NEW connect, NEW max, ServerLies(url, connect),
         ServerOK(url, connect, max), NEW i \in Nat, i <= ServerEnd(url, connect),
         NEW len \in Lengths, NEW t, t \in InAddress,
         HostSoFar(t, url, HostFrom(url, connect), len, i)
  PROVE  i < ServerEnd(url, connect) /\ ~HostLeadsNowhere(t, At(url, i))
<1> DEFINE h == HostFrom(url, connect)
<1>1. h \in Nat BY HostBegins DEF ServerLies
<1>2. /\ At(url, h) = "[" /\ h < i
      /\ t = "host_v6_start" => i = h + 1
      /\ t = "host_v6" => Only(url, (h + 1)..(i - 1), AddressChar)
      /\ t = "host_v6_zone_start" => ZoneRead(url, h + 1, i - 1, i - 1)
      /\ t = "host_v6_zone" => \E k \in Nat : ZoneRead(url, h + 1, k, i - 1)
  BY <1>1, AddressSoFar
<1>3. /\ i = h + 1 => i < ServerEnd(url, connect) /\ At(url, i) \in AddressChar
      /\ Only(url, (h + 1)..(i - 1), AddressChar) =>
           i < ServerEnd(url, connect) /\ At(url, i) \in AddressChar \cup {"%", "]"}
      /\ \A k \in Nat : ZoneRead(url, h + 1, k, i - 1) =>
           /\ i < ServerEnd(url, connect) /\ At(url, i) \in ZoneChar \cup {"]"}
           /\ k = i - 1 => At(url, i) \in ZoneChar
  BY <1>2, AddressGoesOn
<1> HIDE DEF h
<1>4. CASE t = "host_v6_start" BY <1>2, <1>3, <1>4 DEF HostLeadsNowhere
<1>5. CASE t = "host_v6" BY <1>2, <1>3, <1>5 DEF HostLeadsNowhere
<1>6. CASE t = "host_v6_zone_start"
  <2>1. i - 1 \in Nat BY <1>1, <1>2
  <2>2. i < ServerEnd(url, connect) /\ At(url, i) \in ZoneChar BY <1>2, <1>3, <1>6, <2>1
  <2> QED BY <1>6, <2>2 DEF HostLeadsNowhere
<1>7. CASE t = "host_v6_zone"
  <2>1. i < ServerEnd(url, connect) /\ At(url, i) \in ZoneChar \cup {"]"}
    BY <1>2, <1>3, <1>7
  <2> QED BY <1>7, <2>1 DEF HostLeadsNowhere
<1> QED BY <1>4, <1>5, <1>6, <1>7 DEF InAddress

\* Outside of an address a byte that the grammar accepts is accepted.
LEMMA HostGoesOn ==
  ASSUME NEW url \in Seq(UrlByte), NEW connect, NEW max, ServerLies(url, connect),
         ServerOK(url, connect, max), NEW i \in Nat, i <= ServerEnd(url, connect),
         NEW len \in Lengths, NEW t,
         t \in {"host_start", "host", "host_v6_end", "host_port_start", "host_port"},
         HostSoFar(t, url, HostFrom(url, connect), len, i)
  PROVE  /\ i < ServerEnd(url, connect) => ~HostLeadsNowhere(t, At(url, i))
         /\ t \in {"host_start", "host_port_start"} => i < ServerEnd(url, connect)
<1> DEFINE a == ServerFrom(url, connect)
           e == ServerEnd(url, connect)
           h == HostFrom(url, connect)
           k == HostEnd(url, connect)
           x == ClosedAt(url, h, len)
           n == len["HOST"]
<1>a. a \in Nat /\ e \in Nat /\ h \in a..e /\ k \in h..e /\ h \in Nat /\ n \in Nat
      /\ len["PORT"] \in Nat
  BY HostBegins, HostEnds, PlacesNat DEF ServerLies
<1>b. /\ HostPlaces(url, connect) # {}
      /\ ~Bracketed(url, connect) => Only(url, h..(k - 1), HostChar)
      /\ HostClosed(url, connect) < e =>
           /\ At(url, HostClosed(url, connect)) = ":"
           /\ PortPlaces(url, connect) # {}
           /\ Only(url, PortPlaces(url, connect), Num)
  BY ServerOKSays
<1>c. x \in Nat /\ h <= x BY <1>a DEF ClosedAt
<1>1. CASE t = "host_start"
  <2>1. i = h BY <1>1 DEF HostSoFar
  <2>2. At(url, h) # "[" \/ h = e => h <= k - 1 /\ ~Bracketed(url, connect)
    <3>1. SUFFICES ASSUME At(url, h) # "[" \/ h = e
                   PROVE  h <= k - 1 /\ ~Bracketed(url, connect)
      OBVIOUS
    <3>2. ~Bracketed(url, connect) BY <1>a, <3>1 DEF Bracketed
    <3>3. HostPlaces(url, connect) = h..(k - 1) BY <3>2 DEF HostPlaces
    <3>4. h..(k - 1) # {} BY <1>b, <3>3
    <3> HIDE DEF h, k
    <3>5. h <= k - 1 BY <3>4, <1>a
    <3> QED BY <3>2, <3>5
  <2>3. i < e BY <1>a, <2>1, <2>2
  <2>4. At(url, i) \in HostChar \cup {"["}
    <3>1. SUFFICES ASSUME At(url, h) # "[" PROVE At(url, h) \in HostChar BY <2>1
    <3>2. h \in h..(k - 1) BY <1>a, <2>2, <3>1
    <3> QED BY <1>b, <2>2, <3>1, <3>2 DEF Only
  <2> QED BY <1>1, <2>3, <2>4 DEF HostLeadsNowhere
<1>2. CASE t = "host"
  <2>1. i = h + n /\ n > 0 /\ Only(url, h..(i - 1), HostChar) BY <1>2 DEF HostSoFar
  <2>2. ASSUME i < e PROVE At(url, i) \in HostChar \cup {":"}
    <3>1. h \in h..(i - 1) BY <1>a, <2>1
    <3>2. At(url, h) # "[" BY <2>1, <3>1, HostBytesApart DEF Only
    <3>3. ~Bracketed(url, connect) BY <3>2 DEF Bracketed
    <3>4. k < e => At(url, k) = ":" BY <3>3, HostEnds
    <3> HIDE DEF h, k, e, n
    <3>5. ~(k < i)
      <4>1. SUFFICES ASSUME k < i PROVE FALSE OBVIOUS
      <4>2. k \in h..(i - 1) /\ k < e BY <1>a, <2>2, <4>1
      <4>3. At(url, k) \in HostChar BY <2>1, <4>2 DEF Only
      <4> QED BY <3>4, <4>2, <4>3, HostBytesApart
    <3>6. CASE k = i BY <2>2, <3>4, <3>6
    <3>7. CASE i < k
      <4>1. i \in h..(k - 1) BY <1>a, <2>1, <3>7
      <4> QED BY <1>b, <3>3, <4>1 DEF Only
    <3> QED BY <1>a, <3>5, <3>6, <3>7
  <2> QED BY <1>2, <2>2 DEF HostLeadsNowhere
<1>3. CASE t = "host_v6_end"
  <2>1. i = x /\ At(url, h) = "[" /\ HostRead(url, h, len) BY <1>3 DEF HostSoFar
  <2>2. HostClosed(url, connect) = x
    <3>1. x <= e BY <2>1
    <3> QED BY <2>1, <3>1, HostReadIs
  <2>3. i < e => At(url, i) = ":" BY <1>b, <2>1, <2>2
  <2> QED BY <1>3, <2>3 DEF HostLeadsNowhere
<1>4. CASE t \in {"host_port_start", "host_port"}
  <2>1. /\ i = x + 1 \/ (t = "host_port" /\ i = x + 1 + len["PORT"])
        /\ At(url, x) = ":" /\ HostRead(url, h, len)
    BY <1>4 DEF HostSoFar
  <2> HIDE DEF x, h, e, n, k
  <2>2. x < e /\ x < i BY <1>a, <1>c, <2>1 DEF e
  <2>3. HostClosed(url, connect) = x
    <3>1. x <= e BY <1>a, <1>c, <2>2
    <3> QED BY <2>1, <3>1, HostReadIs DEF x, h, e
  <2>4. PortPlaces(url, connect) = (x + 1)..(e - 1) BY <2>3 DEF PortPlaces, e
  <2>5. /\ (x + 1)..(e - 1) # {} /\ Only(url, (x + 1)..(e - 1), Num)
    BY <1>b, <2>2, <2>3, <2>4
  <2>6. x + 1 < e BY <1>a, <1>c, <2>5
  <2>7. i < e => At(url, i) \in Num
    <3>1. i < e => i \in (x + 1)..(e - 1) BY <1>a, <1>c, <2>2
    <3> QED BY <2>5, <3>1 DEF Only
  <2>8. t = "host_port_start" => i < e
    <3>1. t = "host_port_start" => i = x + 1 BY <2>1
    <3> QED BY <2>6, <3>1
  <2> QED BY <1>4, <2>7, <2>8 DEF HostLeadsNowhere, e
<1> QED BY <1>1, <1>2, <1>3, <1>4

\* The loop over a server rejects only what is not of the grammar.
LEMMA HostDead ==
  ASSUME NEW url \in Seq(UrlByte), NEW connect, NEW max, ServerLies(url, connect),
         NEW found, found <=> AtSign(url, connect) # {},
         NEW i \in Nat, i <= ServerEnd(url, connect), NEW len \in Lengths,
         NEW t \in HostState \ {"host_dead"},
         ServerSoFar(t, url, found, len, ServerFrom(url, connect), i),
         IF i = ServerEnd(url, connect) THEN t \in HostEndsNowhere
         ELSE HostLeadsNowhere(t, At(url, i))
  PROVE  ~ServerOK(url, connect, max)
<1> SUFFICES ASSUME ServerOK(url, connect, max) PROVE FALSE OBVIOUS
<1> DEFINE a == ServerFrom(url, connect)
           e == ServerEnd(url, connect)
<1>a. a \in Nat /\ e \in Nat /\ len["USERINFO"] \in Nat BY PlacesNat DEF ServerLies
<1>b. i < e \/ i = e BY <1>a
<1>1. CASE t \in InUserinfo
  <2>1. found /\ i = a + len["USERINFO"] /\ Only(url, a..(i - 1), UserinfoChar)
    BY <1>1, InIs
  <2>2. a <= i BY <1>a, <2>1
  <2>3. i < e /\ At(url, i) \in UserinfoChar \cup {"@"} BY <2>1, <2>2, UserinfoEnds
  <2>4. HostLeadsNowhere(t, At(url, i)) BY <1>a, <2>3
  <2> QED BY <1>1, <2>3, <2>4 DEF HostLeadsNowhere, InUserinfo
<1>2. CASE t \notin InUserinfo
  <2>1. HostSoFar(t, url, HostFrom(url, connect), len, i) BY <1>2, SoFarStays
  <2>2. CASE t \in InAddress
    <3>1. i < e /\ ~HostLeadsNowhere(t, At(url, i)) BY <2>1, <2>2, AddressDead
    <3> QED BY <1>a, <3>1
  <2>3. CASE t \notin InAddress
    <3>1. t \in {"host_start", "host", "host_v6_end", "host_port_start", "host_port"}
      BY <1>2, <2>3 DEF HostState, InUserinfo, InAddress
    <3>2. /\ i < e => ~HostLeadsNowhere(t, At(url, i))
          /\ t \in {"host_start", "host_port_start"} => i < e
      BY <2>1, <3>1, HostGoesOn
    <3>3. t \in HostEndsNowhere => t \in {"host_start", "host_port_start"}
      BY <3>1 DEF HostEndsNowhere
    <3> HIDE DEF e
    <3>4. i # e => i < e BY <1>b
    <3>5. i < e => i # e BY <1>a
    <3> QED BY <3>2, <3>3, <3>4, <3>5 DEF e
  <2> QED BY <2>2, <2>3
<1> QED BY <1>1, <1>2

\* No @ is in a host that was read.
LEMMA HostHasNoAt ==
  ASSUME NEW url, NEW h \in Nat, NEW len \in Lengths, HostRead(url, h, len)
  PROVE  \A j \in h..(ClosedAt(url, h, len) - 1) : At(url, j) # "@"
<1> DEFINE n == len["HOST"]
<1>a. n \in Nat BY PlacesNat
<1>1. CASE At(url, h) = "["
  <2>1. /\ At(url, h + n + 1) = "]"
        /\ \/ Only(url, (h + 1)..(h + n), AddressChar)
           \/ \E k \in (h + 2)..(h + n - 1) : ZoneRead(url, h + 1, k, h + n)
    BY <1>1 DEF HostRead
  <2>2. ClosedAt(url, h, len) = h + n + 2 BY <1>1 DEF ClosedAt
  <2>3. ASSUME NEW j \in (h + 1)..(h + n) PROVE At(url, j) # "@"
    <3>1. CASE Only(url, (h + 1)..(h + n), AddressChar)
      BY <3>1, HostBytesApart DEF Only
    <3>2. ASSUME NEW k \in (h + 2)..(h + n - 1), ZoneRead(url, h + 1, k, h + n)
          PROVE  At(url, j) # "@"
      <4>1. j \in (h + 1)..(k - 1) \/ j = k \/ j \in (k + 1)..(h + n) BY <1>a
      <4>2. /\ Only(url, (h + 1)..(k - 1), AddressChar) /\ At(url, k) = "%"
            /\ Only(url, (k + 1)..(h + n), ZoneChar)
        BY <3>2 DEF ZoneRead
      <4> QED BY <4>1, <4>2, HostBytesApart DEF Only
    <3> QED BY <2>1, <3>1, <3>2
  <2>4. ASSUME NEW j \in h..(h + n + 1) PROVE At(url, j) # "@"
    <3>1. j = h \/ j \in (h + 1)..(h + n) \/ j = h + n + 1 BY <1>a
    <3> QED BY <1>1, <2>1, <2>3, <3>1
  <2>5. ClosedAt(url, h, len) - 1 = h + n + 1 BY <1>a, <2>2
  <2> QED BY <2>4, <2>5
<1>2. CASE At(url, h) # "["
  <2>1. Only(url, h..(h + n - 1), HostChar) BY <1>2 DEF HostRead
  <2>2. ClosedAt(url, h, len) = h + n + 0 BY <1>2 DEF ClosedAt
  <2>3. ClosedAt(url, h, len) - 1 = h + n - 1 BY <1>a, <2>2
  <2> QED BY <2>1, <2>3, HostBytesApart DEF Only
<1> QED BY <1>1, <1>2

\* The states that a server may end in.
ServerEnds == {"host", "host_v6_end", "host_port"}

\* What was read of a server that may end here.
LEMMA ServerIsRead ==
  ASSUME NEW url \in Seq(UrlByte), NEW h \in Nat, NEW i \in Nat, NEW len \in Lengths,
         NEW t, t \in ServerEnds, HostSoFar(t, url, h, len, i)
  PROVE  LET x == ClosedAt(url, h, len)
         IN  /\ HostRead(url, h, len) /\ x \in Nat /\ h < x /\ x <= i
             /\ x = i \/ (At(url, x) = ":" /\ x + 1 < i)
             /\ Only(url, (x + 1)..(i - 1), Num)
             /\ t = "host_port" => i = x + 1 + len["PORT"] /\ len["PORT"] > 0
             /\ t # "host_port" => x = i
<1> DEFINE x == ClosedAt(url, h, len)
           n == len["HOST"]
<1>a. n \in Nat /\ len["PORT"] \in Nat BY PlacesNat
<1>b. x = h + n + IF At(url, h) = "[" THEN 2 ELSE 0 BY DEF ClosedAt
<1>c. x \in Nat BY <1>a, <1>b
<1>1. CASE t = "host"
  <2>1. i = h + n /\ n > 0 /\ Only(url, h..(i - 1), HostChar)
    BY <1>1 DEF HostSoFar
  <2>2. h \in h..(i - 1) BY <1>a, <2>1
  <2>3. At(url, h) # "[" BY <2>1, <2>2, HostBytesApart DEF Only
  <2>4. i - 1 = h + n - 1 /\ i = x BY <1>a, <1>b, <2>1, <2>3
  <2>5. HostRead(url, h, len) BY <2>1, <2>3, <2>4 DEF HostRead
  <2>6. h < x BY <1>a, <2>1, <2>4
  <2> HIDE DEF x
  <2>7. (x + 1)..(i - 1) = {} BY <2>4
  <2>8. Only(url, (x + 1)..(i - 1), Num) BY <2>7 DEF Only
  <2> QED BY <1>1, <1>c, <2>4, <2>5, <2>6, <2>8 DEF x
<1>2. CASE t \in {"host_v6_end", "host_port"}
  <2>1. HostRead(url, h, len)
    <3>1. CASE t = "host_v6_end" BY <3>1 DEF HostSoFar
    <3>2. CASE t = "host_port" BY <3>2 DEF HostSoFar
    <3> QED BY <1>2, <3>1, <3>2
  <2>2. n > 0 BY <2>1 DEF HostRead
  <2>3. h < x BY <1>a, <1>b, <2>2
  <2>4. CASE t = "host_v6_end"
    <3>1. i = x BY <2>4 DEF HostSoFar
    <3> HIDE DEF x
    <3>2. (x + 1)..(i - 1) = {} BY <3>1
    <3>3. Only(url, (x + 1)..(i - 1), Num) BY <3>2 DEF Only
    <3> QED BY <1>c, <2>1, <2>3, <2>4, <3>1, <3>3 DEF x
  <2>5. CASE t = "host_port"
    <3>1. /\ i = x + 1 + len["PORT"] /\ len["PORT"] > 0 /\ At(url, x) = ":"
          /\ Only(url, (x + 1)..(i - 1), Num)
      BY <2>5 DEF HostSoFar
    <3> HIDE DEF x
    <3>2. x + 1 < i /\ x <= i BY <1>a, <1>c, <3>1
    <3> QED BY <1>c, <2>1, <2>3, <2>5, <3>1, <3>2 DEF x
  <2> QED BY <1>2, <2>4, <2>5
<1> QED BY <1>1, <1>2 DEF ServerEnds

\* The server that the loop has come to the end of is that of the grammar.
LEMMA HostIsGrammar ==
  ASSUME NEW url \in Seq(UrlByte), NEW connect, NEW max \in Nat, ServerLies(url, connect),
         NEW found, found <=> AtSign(url, connect) # {},
         NEW i, i = ServerEnd(url, connect), NEW len \in Lengths, NEW off \in Lengths,
         NEW t, t \in ServerEnds,
         ServerSoFar(t, url, found, len, ServerFrom(url, connect), i),
         ServerPlaced(url, found, off, len, ServerFrom(url, connect))
  PROVE  /\ ServerOK(url, connect, max) <=>
              PortValue(url, Parts(url, connect)["PORT"]) <= max
         /\ \A f \in ServerField : Parts(url, connect)[f] = PlacesOf(off, len, f)
<1> DEFINE a == ServerFrom(url, connect)
           e == ServerEnd(url, connect)
           h == HostAt(a, found, len)
           x == ClosedAt(url, h, len)
           n == len["HOST"]
           w == len["USERINFO"]
           m == len["PORT"]
<1>a. a \in Nat /\ e \in Nat /\ n \in Nat /\ w \in Nat /\ m \in Nat
  BY PlacesNat DEF ServerLies
<1>b. t \notin InUserinfo BY DEF ServerEnds, InUserinfo
<1>c. PastUserinfo(url, found, len, a) /\ HostSoFar(t, url, h, len, e)
  BY <1>b DEF ServerSoFar
<1>d. h = IF found THEN a + w + 1 ELSE a BY DEF HostAt
<1>e. h \in Nat /\ a <= h BY <1>a, <1>d
<1>f. /\ HostRead(url, h, len) /\ x \in Nat /\ h < x /\ x <= e
      /\ x = e \/ (At(url, x) = ":" /\ x + 1 < e)
      /\ Only(url, (x + 1)..(e - 1), Num)
      /\ t = "host_port" => e = x + 1 + m /\ m > 0
      /\ t # "host_port" => x = e
  <2> HIDE DEF h
  <2> QED BY <1>a, <1>c, <1>e, ServerIsRead
<1>i. x = e \/ At(url, x) = ":" BY <1>f
<1>j. x = e \/ x + 1 < e BY <1>f
<1>k. /\ w > 0 => off["USERINFO"] = a
      /\ n > 0 => off["HOST"] = h + IF At(url, h) = "[" THEN 1 ELSE 0
      /\ m > 0 => off["PORT"] = x + 1
  BY DEF ServerPlaced
<1>g. /\ Only(url, a..(a + w - 1), UserinfoChar)
      /\ found => At(url, h - 1) = "@"
      /\ ~found => w = 0
  BY <1>c DEF PastUserinfo
<1>h. t # "host_port" => m = 0
  <2>1. \A g \in ServerField \ HostFieldsOf(t) : len[g] = 0 BY DEF ServerSoFar
  <2>2. t # "host_port" => "PORT" \in ServerField \ HostFieldsOf(t)
    BY DEF HostFieldsOf, ServerField, ServerEnds
  <2> QED BY <2>1, <2>2
<1>1. ASSUME NEW j \in AtSign(url, connect) PROVE found /\ j = h - 1
  <2>1. j \in a..(e - 1) /\ At(url, j) = "@" /\ found BY HostBegins
  <2>2. h = a + w + 1 BY <1>d, <2>1
  <2>3. j \in a..(a + w - 1) \/ j = h - 1 \/ j \in h..(x - 1) \/ j = x \/ j \in (x + 1)..(e - 1)
    <3> HIDE DEF a, e, h, x, w
    <3> QED BY <1>a, <1>f, <2>1, <2>2
  <2>4. j \notin a..(a + w - 1) BY <1>g, <2>1, HostBytesApart DEF Only
  <2>5. j \notin h..(x - 1)
    <3> HIDE DEF h
    <3> QED BY <1>e, <1>f, <2>1, HostHasNoAt
  <2>6. j \notin (x + 1)..(e - 1) BY <1>f, <2>1, HostBytesApart DEF Only
  <2>7. j # x
    <3>1. x = e => j # x
      <4>1. j \in a..(e - 1) BY <2>1
      <4>2. e \in Nat BY <1>a
      <4> HIDE DEF a, e, x
      <4> QED BY <4>1, <4>2
    <3>2. At(url, x) = ":" => j # x BY <2>1
    <3> QED BY <1>i, <3>1, <3>2
  <2> QED BY <2>1, <2>3, <2>4, <2>5, <2>6, <2>7
<1>2. \A j, k \in AtSign(url, connect) : j = k BY <1>1
<1>3. HostFrom(url, connect) = h
  <2>1. i \in Nat /\ i <= ServerEnd(url, connect) BY <1>a
  <2> QED BY <1>b, <1>2, <2>1, HostFromIs
<1>4. /\ HostClosed(url, connect) = x
      /\ HostPlaces(url, connect) # {}
      /\ LET b == h + IF At(url, h) = "[" THEN 1 ELSE 0
         IN  HostPlaces(url, connect) = b..(b + n - 1)
      /\ IF Bracketed(url, connect)
         THEN /\ HostEnd(url, connect) < e
              /\ AddressOK(url, h + 1, HostEnd(url, connect) - 1)
         ELSE Only(url, HostPlaces(url, connect), HostChar)
  <2>1. x = e \/ At(url, x) = ":" \/ At(url, h) = "[" BY <1>i
  <2> HIDE DEF h
  <2> QED BY <1>3, <1>f, <2>1, HostReadIs
<1>5. /\ a..(h - 2) = IF w > 0 THEN a..(a + w - 1) ELSE {}
      /\ Only(url, a..(h - 2), UserinfoChar)
  <2>1. CASE found
    <3>1. h - 2 = a + w - 1 BY <1>a, <1>d, <2>1
    <3>2. ~(w > 0) => a..(a + w - 1) = {} BY <1>a
    <3> QED BY <1>g, <3>1, <3>2
  <2>2. CASE ~found
    <3>1. a..(h - 2) = {} /\ ~(w > 0)
      <4>1. w = 0 /\ h = a BY <1>d, <1>g, <2>2
      <4> HIDE DEF h, a
      <4> QED BY <1>a, <4>1
    <3> QED BY <3>1 DEF Only
  <2> QED BY <2>1, <2>2
<1>6. PortPlaces(url, connect) = (x + 1)..(e - 1) BY <1>4 DEF PortPlaces
<1> HIDE DEF a, e, h, x, n, w, m
<1>7. x < e => (x + 1)..(e - 1) # {}
  <2>1. SUFFICES ASSUME x < e PROVE x + 1 \in (x + 1)..(e - 1) OBVIOUS
  <2>2. x \in Nat BY <1>f
  <2>3. x + 1 < e BY <1>a, <1>j, <2>1, <2>2
  <2> QED BY <1>a, <2>2, <2>3
<1>8. x = e => PortValue(url, PortPlaces(url, connect)) = 0
  <2>1. x = e => (x + 1)..(e - 1) = {} BY <1>a
  <2> QED BY <1>6, <2>1, PortNone
<1>9. connect \/ Absolute(url) BY DEF ServerLies
<1>10. Parts(url, connect)["PORT"] = PortPlaces(url, connect) BY <1>9, PartsIs
<1>11. ServerOK(url, connect, max) <=> PortValue(url, Parts(url, connect)["PORT"]) <= max
  <2>1. CASE x < e
    <3>1. At(url, x) = ":" BY <1>a, <1>f, <2>1
    <3> QED BY <1>2, <1>3, <1>4, <1>5, <1>6, <1>7, <1>9, <1>10, <1>f, <2>1, <3>1
            DEF ServerOK, a, e
  <2>2. CASE x = e
    <3>1. ServerOK(url, connect, max)
      <4>1. ~(HostClosed(url, connect) < ServerEnd(url, connect)) BY <1>a, <1>4, <2>2 DEF e
      <4> QED BY <1>2, <1>3, <1>4, <1>5, <4>1 DEF ServerOK, a, e
    <3>2. PortValue(url, Parts(url, connect)["PORT"]) <= max BY <1>8, <1>10, <2>2
    <3> QED BY <3>1, <3>2
  <2> QED BY <1>a, <1>f, <2>1, <2>2
<1>12. Parts(url, connect)["USERINFO"] = PlacesOf(off, len, "USERINFO")
  <2>1. Parts(url, connect)["USERINFO"] = a..(h - 2) BY <1>3, <1>9, PartsIs DEF a
  <2>2. w > 0 => off["USERINFO"] = a BY <1>k
  <2>3. CASE w > 0 BY <1>5, <2>1, <2>2, <2>3 DEF PlacesOf, w
  <2>4. CASE ~(w > 0) BY <1>5, <2>1, <2>4 DEF PlacesOf, w
  <2> QED BY <2>3, <2>4
<1>13. Parts(url, connect)["HOST"] = PlacesOf(off, len, "HOST")
  <2>1. n > 0 BY <1>f DEF HostRead, n
  <2>2. off["HOST"] = h + IF At(url, h) = "[" THEN 1 ELSE 0
    BY <1>k, <2>1
  <2>3. Parts(url, connect)["HOST"] = HostPlaces(url, connect) BY <1>9, PartsIs
  <2> QED BY <1>4, <2>1, <2>2, <2>3 DEF PlacesOf, n
<1>14. Parts(url, connect)["PORT"] = PlacesOf(off, len, "PORT")
  <2>1. CASE t = "host_port"
    <3>1. m > 0 /\ e = x + 1 + m BY <1>f, <2>1
    <3>2. off["PORT"] = x + 1 BY <1>k, <3>1
    <3>3. e - 1 = x + 1 + m - 1
      <4>1. x \in Nat BY <1>f
      <4> QED BY <1>a, <3>1, <4>1
    <3> QED BY <1>6, <1>10, <3>1, <3>2, <3>3 DEF PlacesOf, m
  <2>2. CASE t # "host_port"
    <3>1. x = e /\ m = 0 BY <1>f, <1>h, <2>2
    <3>2. (x + 1)..(e - 1) = {} BY <1>a, <3>1
    <3> QED BY <1>6, <1>10, <3>1, <3>2 DEF PlacesOf, m
  <2> QED BY <2>1, <2>2
<1> QED BY <1>11, <1>12, <1>13, <1>14 DEF ServerField

-----------------------------------------------------------------------------
(* The first loop keeps its account of the url.                            *)

\* What was read is the same in a url that goes on differently.
LEMMA ReadStays ==
  ASSUME NEW url, NEW more, NEW i \in Nat, NEW c, Follows(url, more, i, c),
         NEW connect, NEW len \in Lengths, NEW f \in Nat,
         NEW t \in UrlState \ {"dead"}, ReadSoFar(t, url, connect, len, f, i)
  PROVE  ReadSoFar(t, more, connect, len, f, i)
<1> DEFINE n == len["SCHEMA"]
           q == QueryAt(connect, len)
<1>a. /\ n \in Nat /\ q \in Nat /\ len["HOST"] \in Nat /\ len["PATH"] \in Nat
      /\ len["QUERY"] \in Nat /\ len["FRAGMENT"] \in Nat
      /\ PathAt(connect, len) \in Nat /\ ServerAt(connect, len) \in Nat
      /\ q = PathAt(connect, len) + len["PATH"]
  BY PlacesNat DEF QueryAt
<1>b. \A g \in Field \ Found(t) : len[g] = 0 BY DEF ReadSoFar
<1>c. \A j \in 0..(i - 1) : At(more, j) = At(url, j) BY DEF Follows
<1>1. CASE t = "spaces_before_url" BY <1>b, <1>1 DEF ReadSoFar
<1>2. ASSUME NEW k \in Nat, k <= i, SchemaRead(url, k) PROVE SchemaRead(more, k)
  <2>1. k - 1 \in Int /\ k - 1 < i BY <1>2
  <2> QED BY <1>2, <2>1, OnlyStays DEF SchemaRead
<1>3. CASE t = "schema"
  <2>1. ~connect /\ i = n /\ SchemaRead(url, i) BY <1>3 DEF ReadSoFar
  <2>2. SchemaRead(more, i) BY <1>2, <2>1
  <2> QED BY <1>b, <1>3, <2>1, <2>2 DEF ReadSoFar
<1>4. CASE t = "schema_slash"
  <2>1. ~connect /\ i = n + 1 /\ SchemaRead(url, i - 1) /\ At(url, i - 1) = ":"
    BY <1>4 DEF ReadSoFar
  <2>2. i - 1 \in Nat /\ i - 1 <= i /\ i - 1 \in 0..(i - 1) BY <1>a, <2>1
  <2>3. SchemaRead(more, i - 1) /\ At(more, i - 1) = ":" BY <1>2, <1>c, <2>1, <2>2
  <2> QED BY <1>b, <1>4, <2>1, <2>3 DEF ReadSoFar
<1>5. CASE t = "schema_slash_slash"
  <2>1. /\ ~connect /\ i = n + 2 /\ SchemaRead(url, i - 2)
        /\ At(url, i - 2) = ":" /\ At(url, i - 1) = "/"
    BY <1>5 DEF ReadSoFar
  <2>2. /\ i - 2 \in Nat /\ i - 2 <= i /\ i - 2 \in 0..(i - 1) /\ i - 1 \in 0..(i - 1)
    BY <1>a, <2>1
  <2>3. SchemaRead(more, i - 2) /\ At(more, i - 2) = ":" /\ At(more, i - 1) = "/"
    BY <1>2, <1>c, <2>1, <2>2
  <2> QED BY <1>b, <1>5, <2>1, <2>3 DEF ReadSoFar
<1>6. CASE t = "server_start"
  <2>1. i = ServerAt(connect, len) /\ SlashesRead(url, connect, n)
    BY <1>6 DEF ReadSoFar
  <2>2. n + 2 < i \/ connect BY <1>a, <2>1 DEF ServerAt
  <2>3. SlashesRead(more, connect, n) BY <1>a, <2>1, <2>2, SlashesStay
  <2> QED BY <1>b, <1>6, <2>1, <2>3 DEF ReadSoFar
<1>7. CASE t \in {"server", "server_with_at"}
  <2>1. /\ i = PathAt(connect, len) /\ len["HOST"] > 0 /\ ServerRead(url, connect, len)
        /\ t = "server_with_at" => At(url, i - 1) = "@"
    BY <1>7 DEF ReadSoFar
  <2>2. HasServer(connect, len)
    <3>1. t \in Server BY <1>7 DEF Server
    <3> QED BY <3>1, ServerSoFarRead
  <2>3. PathAt(connect, len) <= i BY <2>1
  <2>4. ServerRead(more, connect, len) BY <2>1, <2>2, <2>3, ServerStays
  <2>5. i - 1 \in 0..(i - 1)
    <3>1. PathAt(connect, len) = ServerAt(connect, len) + len["HOST"] BY <2>2 DEF PathAt
    <3> QED BY <1>a, <2>1, <3>1
  <2>6. t = "server_with_at" => At(more, i - 1) = "@" BY <1>c, <2>1, <2>5
  <2> QED BY <1>b, <1>7, <2>1, <2>4, <2>6 DEF ReadSoFar
<1>8. CASE t = "path"
  <2>1. i = q /\ len["PATH"] > 0 /\ PathRead(url, connect, len) BY <1>8 DEF ReadSoFar
  <2>2. q <= i BY <2>1
  <2>3. PathRead(more, connect, len) BY <2>1, <2>2, PathStays
  <2> QED BY <1>b, <1>8, <2>1, <2>3 DEF ReadSoFar
<1>9. CASE t \in {"query_string_start", "query_string"}
  <2>1. /\ i = q + 1 + len["QUERY"]
        /\ t = "query_string_start" => len["QUERY"] = 0
        /\ PathRead(url, connect, len) /\ QueryRead(url, connect, len)
    BY <1>9 DEF ReadSoFar
  <2>2. q <= i /\ q + len["QUERY"] < i BY <1>a, <2>1
  <2>3. PathRead(more, connect, len) /\ QueryRead(more, connect, len)
    BY <2>1, <2>2, PathStays, QueryStays
  <2> QED BY <1>b, <1>9, <2>1, <2>3 DEF ReadSoFar
<1>10. CASE t = "fragment_start"
  <2>1. HashesRead(url, connect, len, i) /\ len["FRAGMENT"] = 0 /\ i \in 0..i
    BY <1>10 DEF ReadSoFar
  <2>2. HashesRead(more, connect, len, i) BY <2>1, HashesStay
  <2> QED BY <1>b, <1>10, <2>1, <2>2 DEF ReadSoFar
<1>11. CASE t = "fragment"
  <2>1. /\ i = f + len["FRAGMENT"] /\ len["FRAGMENT"] > 0
        /\ HashesRead(url, connect, len, f) /\ At(url, f) # "#"
        /\ Only(url, f..(i - 1), FragmentChar)
    BY <1>11 DEF ReadSoFar, FragmentChar
  <2>2. f \in 0..i /\ f \in 0..(i - 1) BY <1>a, <2>1
  <2>3. HashesRead(more, connect, len, f) /\ At(more, f) # "#"
    BY <1>c, <2>1, <2>2, HashesStay
  <2>4. Only(more, f..(i - 1), FragmentChar)
    <3>1. i - 1 \in Int /\ i - 1 < i OBVIOUS
    <3> QED BY <2>1, <3>1, OnlyStays
  <2> QED BY <1>b, <1>11, <2>1, <2>3, <2>4 DEF ReadSoFar, FragmentChar
<1> QED BY <1>1, <1>3, <1>4, <1>5, <1>6, <1>7, <1>8, <1>9, <1>10, <1>11 DEF UrlState

\* The path does not begin behind what was read, if there is something of a server.
LEMMA PathBehind ==
  ASSUME NEW url, NEW i \in Nat, NEW connect, NEW len \in Lengths, NEW f \in Nat,
         NEW t \in UrlState \ {"dead"}, ReadSoFar(t, url, connect, len, f, i),
         len["HOST"] > 0
  PROVE  PathAt(connect, len) <= i /\ HasServer(connect, len)
<1> DEFINE e == PathAt(connect, len)
           q == QueryAt(connect, len)
<1>a. /\ e \in Nat /\ q \in Nat /\ len["PATH"] \in Nat /\ len["QUERY"] \in Nat
      /\ len["FRAGMENT"] \in Nat /\ q = e + len["PATH"]
  BY PlacesNat DEF QueryAt
<1>1. PathRead(url, connect, len) => HasServer(connect, len) BY DEF PathRead
<1>2. ASSUME NEW k \in Nat, k <= i, HashesRead(url, connect, len, k)
      PROVE  PathRead(url, connect, len) /\ q <= i
  <2>1. HashAt(url, connect, len) < k /\ PathRead(url, connect, len)
    BY <1>2 DEF HashesRead
  <2>2. HashAt(url, connect, len) = q + 1 + len["QUERY"] \/ HashAt(url, connect, len) = q
    BY DEF HashAt
  <2>3. q <= i BY <1>a, <1>2, <2>1, <2>2
  <2> QED BY <2>1, <2>3
<1>3. CASE t \in Server
  <2>1. i = e BY <1>3, ServerSoFarRead
  <2>2. HasServer(connect, len) BY <1>3, ServerSoFarRead
  <2> QED BY <1>a, <2>1, <2>2
<1>4. CASE t = "path"
  <2>1. i = q /\ PathRead(url, connect, len) BY <1>4 DEF ReadSoFar
  <2> QED BY <1>a, <1>1, <2>1
<1>5. CASE t \in {"query_string_start", "query_string"}
  <2>1. i = q + 1 + len["QUERY"] /\ PathRead(url, connect, len) BY <1>5 DEF ReadSoFar
  <2>2. e <= i BY <1>a, <2>1
  <2> QED BY <1>1, <2>1, <2>2
<1>6. CASE t = "fragment_start"
  <2>1. HashesRead(url, connect, len, i) /\ i <= i BY <1>6 DEF ReadSoFar
  <2>2. PathRead(url, connect, len) /\ q <= i BY <1>2, <2>1
  <2> QED BY <1>a, <1>1, <2>2
<1>7. CASE t = "fragment"
  <2>1. i = f + len["FRAGMENT"] /\ HashesRead(url, connect, len, f)
    BY <1>7 DEF ReadSoFar
  <2>2. f <= i BY <1>a, <2>1
  <2>3. PathRead(url, connect, len) /\ q <= i BY <1>2, <2>1, <2>2
  <2> QED BY <1>a, <1>1, <2>3
<1>8. CASE t \in {"spaces_before_url", "schema", "schema_slash", "schema_slash_slash"}
  <2>1. "HOST" \in Field \ Found(t) BY <1>8 DEF Found, Field
  <2>2. len["HOST"] = 0 BY <2>1 DEF ReadSoFar
  <2> QED BY <2>2
<1> QED BY <1>3, <1>4, <1>5, <1>6, <1>7, <1>8 DEF UrlState, Server

\* A byte of the state n counts for its field.
Counts(len, then, n) ==
  IF n \in FieldState THEN OneMore(len, then, FieldOf[n]) ELSE then = len

\* The fields of the states.
LEMMA FieldOfIs ==
  /\ FieldOf["schema"] = "SCHEMA" /\ FieldOf["server"] = "HOST"
  /\ FieldOf["server_with_at"] = "HOST" /\ FieldOf["path"] = "PATH"
  /\ FieldOf["query_string"] = "QUERY" /\ FieldOf["fragment"] = "FRAGMENT"
BY DEF FieldOf

\* The lengths after it.
LEMMA CountsIs ==
  ASSUME NEW len \in Lengths, NEW then \in Lengths, NEW n, Counts(len, then, n)
  PROVE  \A g \in {"SCHEMA", "HOST", "PATH", "QUERY", "FRAGMENT"} :
           then[g] = IF n \in FieldState /\ g = FieldOf[n] THEN len[g] + 1 ELSE len[g]
<1>1. CASE n \in FieldState
  <2>1. OneMore(len, then, FieldOf[n]) BY <1>1 DEF Counts
  <2> QED BY <1>1, <2>1, OneMoreIs
<1>2. CASE n \notin FieldState
  <2>1. then = len BY <1>2 DEF Counts
  <2> QED BY <1>2, <2>1
<1> QED BY <1>1, <1>2

\* An empty server has no @.
LEMMA NoHostNoAt ==
  ASSUME NEW url, NEW connect, NEW len \in Lengths, len["HOST"] = 0
  PROVE  ~HasAt(url, connect, len)
<1> DEFINE a == ServerAt(connect, len)
           e == PathAt(connect, len)
<1>1. a \in Nat /\ (e = a \/ e = 0)
  <2>1. a \in Nat BY PlacesNat
  <2>2. e = a + 0 \/ e = 0 BY DEF PathAt
  <2> HIDE DEF a, e
  <2> QED BY <2>1, <2>2
<1> HIDE DEF a, e
<1>2. a..(e - 1) = {} BY <1>1
<1> QED BY <1>2 DEF HasAt, a, e

\* The loop sees a @ in a server when it reads it.
LEMMA HasAtStep ==
  ASSUME NEW url, NEW more, NEW i \in Nat, NEW c, Follows(url, more, i, c),
         NEW connect, NEW len \in Lengths, NEW then \in Lengths, NEW f \in Nat,
         NEW t \in UrlState \ {"dead"}, ReadSoFar(t, url, connect, len, f, i),
         NEW n, LeadsTo(t, c, n), Counts(len, then, n)
  PROVE  HasAt(more, connect, then) <=> HasAt(url, connect, len) \/ n = "server_with_at"
<1> DEFINE a == ServerAt(connect, len)
           e == PathAt(connect, len)
<1>a. /\ a \in Nat /\ e \in Nat /\ len["HOST"] \in Nat
      /\ At(more, i) = c /\ \A j \in 0..(i - 1) : At(more, j) = At(url, j)
  BY PlacesNat DEF Follows
<1>b. \A g \in {"SCHEMA", "HOST", "PATH", "QUERY", "FRAGMENT"} :
        then[g] = IF n \in FieldState /\ g = FieldOf[n] THEN len[g] + 1 ELSE len[g]
  BY CountsIs
<1>1. CASE n \in {"server", "server_with_at"}
  <2>1. t \in Server /\ (n = "server_with_at" <=> c = "@") BY <1>1 DEF LeadsTo
  <2>2. /\ i = PathAt(connect, len) /\ ServerRead(url, connect, len)
        /\ HasServer(connect, len) /\ i = ServerAt(connect, len) + len["HOST"]
        /\ \A g \in Field \ {"SCHEMA", "HOST"} : len[g] = 0
    BY <2>1, ServerSoFarRead
  <2>3. FieldOf[n] = "HOST" /\ n \in FieldState BY <1>1, FieldOfIs DEF FieldState
  <2>4. then["SCHEMA"] = len["SCHEMA"] /\ then["HOST"] = len["HOST"] + 1 BY <1>b, <2>3
  <2>5. ServerAt(connect, then) = a /\ HasServer(connect, then)
    BY <2>2, <2>4, SamePlaces
  <2>6. PathAt(connect, then) = i + 1
    <3>1. PathAt(connect, then) = a + then["HOST"] BY <2>5 DEF PathAt
    <3> QED BY <1>a, <2>2, <2>4, <3>1
  <2> HIDE DEF a, e
  <2>7. /\ PathAt(connect, then) - 1 = i /\ a..i = a..(i - 1) \cup {i}
        /\ \A j \in a..(i - 1) : j \in 0..(i - 1)
    BY <1>a, <2>2, <2>6 DEF a
  <2>8. HasAt(more, connect, then) <=> \E j \in a..(i - 1) \cup {i} : At(more, j) = "@"
    BY <2>5, <2>7 DEF HasAt
  <2>9. HasAt(url, connect, len) <=> \E j \in a..(i - 1) : At(more, j) = "@"
    <3>1. HasAt(url, connect, len) <=> \E j \in a..(i - 1) : At(url, j) = "@"
      BY <2>2 DEF HasAt, a
    <3> QED BY <1>a, <2>7, <3>1
  <2> QED BY <1>a, <2>1, <2>8, <2>9
<1>2. CASE n = "schema"
  <2>1. "HOST" \in Field \ Found(t) BY <1>2 DEF LeadsTo, Found, Field
  <2>2. len["HOST"] = 0 BY <2>1 DEF ReadSoFar
  <2>3. then["HOST"] = 0 BY <1>2, <1>b, <2>2, FieldOfIs
  <2> QED BY <1>2, <2>2, <2>3, NoHostNoAt
<1>3. CASE n \notin {"server", "server_with_at", "schema"}
  <2>1. n \in FieldState => FieldOf[n] \notin {"SCHEMA", "HOST"}
    BY <1>3, FieldOfIs DEF FieldState
  <2>2. then["SCHEMA"] = len["SCHEMA"] /\ then["HOST"] = len["HOST"] BY <1>b, <2>1
  <2>3. ServerAt(connect, then) = a /\ PathAt(connect, then) = e BY <2>2, SamePlaces
  <2>4. CASE len["HOST"] = 0 BY <1>3, <2>2, <2>4, NoHostNoAt
  <2>5. CASE len["HOST"] # 0
    <3>1. e <= i BY <1>a, <2>5, PathBehind
    <3> HIDE DEF a, e
    <3>2. \A j \in a..(e - 1) : j \in 0..(i - 1) BY <1>a, <3>1
    <3> QED BY <1>3, <1>a, <2>3, <3>2 DEF HasAt, a, e
  <2> QED BY <2>4, <2>5
<1> QED BY <1>1, <1>2, <1>3

\* A field begins where what is before it ends.
LEMMA PlacedStep ==
  ASSUME NEW url, NEW i \in Nat, NEW c,
         NEW connect, NEW len \in Lengths, NEW then \in Lengths, NEW f \in Nat,
         NEW t \in UrlState \ {"dead"}, ReadSoFar(t, url, connect, len, f, i),
         NEW n, LeadsTo(t, c, n), Counts(len, then, n), n \in FieldState,
         NEW off, NEW new,
         \A g \in Field : new[g] = IF g = FieldOf[n] /\ len[g] = 0 THEN i ELSE off[g],
         Placed(connect, off, len)
  PROVE  Placed(connect, new, then)
<1>a. \A g \in {"SCHEMA", "HOST", "PATH", "QUERY"} :
        /\ len[g] \in Nat
        /\ then[g] = IF g = FieldOf[n] THEN len[g] + 1 ELSE len[g]
        /\ new[g] = IF g = FieldOf[n] /\ len[g] = 0 THEN i ELSE off[g]
  BY PlacesNat, CountsIs DEF Field
<1>z. \A g \in Field \ Found(t) : len[g] = 0 BY DEF ReadSoFar
<1>p. /\ len["SCHEMA"] > 0 => off["SCHEMA"] = 0
      /\ len["HOST"] > 0 => off["HOST"] = ServerAt(connect, len)
      /\ len["PATH"] > 0 => off["PATH"] = PathAt(connect, len)
      /\ len["QUERY"] > 0 => off["QUERY"] = QueryAt(connect, len) + 1
  BY DEF Placed
<1>1. CASE n = "schema"
  <2>1. t \in {"spaces_before_url", "schema"} BY <1>1 DEF LeadsTo
  <2>2. \A g \in {"HOST", "PATH", "QUERY"} : g \in Field \ Found(t)
    BY <2>1 DEF Found, Field
  <2>3. \A g \in {"HOST", "PATH", "QUERY"} : then[g] = 0 BY <1>1, <1>a, <1>z, <2>2, FieldOfIs
  <2>4. len["SCHEMA"] = 0 => i = 0
    <3>1. CASE t = "spaces_before_url" BY <3>1 DEF ReadSoFar
    <3>2. CASE t = "schema" BY <3>2 DEF ReadSoFar
    <3> QED BY <2>1, <3>1, <3>2
  <2>5. new["SCHEMA"] = 0 BY <1>1, <1>a, <1>p, <2>4, FieldOfIs
  <2> QED BY <2>3, <2>5 DEF Placed
<1>2. CASE n \in {"server", "server_with_at"}
  <2>1. t \in Server BY <1>2 DEF LeadsTo
  <2>2. /\ i = PathAt(connect, len) /\ ServerRead(url, connect, len)
        /\ HasServer(connect, len) /\ i = ServerAt(connect, len) + len["HOST"]
        /\ \A g \in Field \ {"SCHEMA", "HOST"} : len[g] = 0
    BY <2>1, ServerSoFarRead
  <2>3. FieldOf[n] = "HOST" BY <1>2, FieldOfIs
  <2>4. len["PATH"] = 0 /\ len["QUERY"] = 0 BY <2>2 DEF Field
  <2>5. then["SCHEMA"] = len["SCHEMA"] /\ then["PATH"] = 0 /\ then["QUERY"] = 0
        /\ new["SCHEMA"] = off["SCHEMA"]
    BY <1>a, <2>3, <2>4
  <2>6. ServerAt(connect, then) = ServerAt(connect, len) /\ ServerAt(connect, len) \in Nat
    BY <2>5, SamePlaces, PlacesNat
  <2>7. new["HOST"] = ServerAt(connect, len)
    <3>1. CASE len["HOST"] = 0
      <4>1. new["HOST"] = i BY <1>a, <2>3, <3>1
      <4> QED BY <2>2, <2>6, <3>1, <4>1
    <3>2. CASE len["HOST"] # 0
      <4>1. new["HOST"] = off["HOST"] /\ len["HOST"] > 0 BY <1>a, <3>2
      <4> QED BY <1>p, <4>1
    <3> QED BY <3>1, <3>2
  <2> QED BY <1>p, <2>5, <2>6, <2>7 DEF Placed
<1>3. CASE n = "path"
  <2>1. t \in {"spaces_before_url", "path"} \cup Server BY <1>3 DEF LeadsTo
  <2>2. "QUERY" \in Field \ Found(t) BY <2>1 DEF Found, Field, Server
  <2>3. /\ then["SCHEMA"] = len["SCHEMA"] /\ then["HOST"] = len["HOST"]
        /\ new["SCHEMA"] = off["SCHEMA"] /\ new["HOST"] = off["HOST"]
        /\ then["QUERY"] = 0
    BY <1>3, <1>a, <1>z, <2>2, FieldOfIs
  <2>4. /\ ServerAt(connect, then) = ServerAt(connect, len)
        /\ PathAt(connect, then) = PathAt(connect, len)
        /\ PathAt(connect, len) \in Nat
    BY <2>3, SamePlaces, PlacesNat
  <2>5. new["PATH"] = PathAt(connect, len)
    <3>1. CASE len["PATH"] = 0
      <4>1. new["PATH"] = i BY <1>3, <1>a, <3>1, FieldOfIs
      <4>2. i = PathAt(connect, len)
        <5>1. CASE t = "spaces_before_url"
          <6>1. ~connect /\ i = 0 BY <5>1 DEF ReadSoFar
          <6>2. "SCHEMA" \in Field \ Found(t) BY <5>1 DEF Found, Field
          <6>3. len["SCHEMA"] = 0 BY <1>z, <6>2
          <6> QED BY <6>1, <6>3 DEF PathAt, HasServer
        <5>2. CASE t \in Server BY <5>2, ServerSoFarRead
        <5>3. CASE t = "path" BY <3>1, <5>3 DEF ReadSoFar
        <5> QED BY <2>1, <5>1, <5>2, <5>3
      <4> QED BY <4>1, <4>2
    <3>2. CASE len["PATH"] # 0
      <4>1. new["PATH"] = off["PATH"] /\ len["PATH"] > 0 BY <1>a, <3>2
      <4> QED BY <1>p, <4>1
    <3> QED BY <3>1, <3>2
  <2> QED BY <1>p, <2>3, <2>4, <2>5 DEF Placed
<1>4. CASE n \in {"query_string", "fragment"}
  <2>1. FieldOf[n] \in {"QUERY", "FRAGMENT"} BY <1>4, FieldOfIs
  <2>2. \A g \in {"SCHEMA", "HOST", "PATH"} : then[g] = len[g] /\ new[g] = off[g]
    BY <1>a, <2>1
  <2>3. /\ ServerAt(connect, then) = ServerAt(connect, len)
        /\ PathAt(connect, then) = PathAt(connect, len)
        /\ QueryAt(connect, then) = QueryAt(connect, len) /\ QueryAt(connect, len) \in Nat
    BY <2>2, SamePlaces, PlacesNat
  <2>4. then["QUERY"] > 0 => new["QUERY"] = QueryAt(connect, len) + 1
    <3>1. CASE n = "query_string"
      <4>1. t \in {"query_string_start", "query_string"} BY <3>1 DEF LeadsTo
      <4>2. i = QueryAt(connect, len) + 1 + len["QUERY"] BY <4>1 DEF ReadSoFar
      <4>3. CASE len["QUERY"] = 0
        <5>1. new["QUERY"] = i BY <1>a, <3>1, <4>3, FieldOfIs
        <5> QED BY <2>3, <4>2, <4>3, <5>1
      <4>4. CASE len["QUERY"] # 0
        <5>1. new["QUERY"] = off["QUERY"] /\ len["QUERY"] > 0 BY <1>a, <4>4
        <5> QED BY <1>p, <5>1
      <4> QED BY <4>3, <4>4
    <3>2. CASE n = "fragment"
      <4>1. then["QUERY"] = len["QUERY"] /\ new["QUERY"] = off["QUERY"]
        BY <1>a, <3>2, FieldOfIs
      <4> QED BY <1>p, <4>1
    <3> QED BY <1>4, <3>1, <3>2
  <2> QED BY <1>p, <2>2, <2>3, <2>4 DEF Placed
<1> QED BY <1>1, <1>2, <1>3, <1>4 DEF FieldState

\* Offsets and lengths are numbers.
LEMMA UrlLengths ==
  ASSUME Safe PROVE u.len \in Lengths /\ u.off \in Lengths
BY UrlAssumption DEF Safe, TypeOK, Lengths

\* Nothing was read when the call begins.
LEMMA ParsedInit == Init => Parsed
<1> SUFFICES ASSUME Init PROVE Parsed OBVIOUS
<1>1. /\ pc = "fields" /\ p = 0 /\ u = NoUrl /\ found_at = FALSE /\ v = 0
      /\ s = IF is_connect THEN "server_start" ELSE "spaces_before_url"
      /\ is_connect \in BOOLEAN
  BY DEF Init
<1>2. /\ u.len = [f \in Field |-> 0] /\ u.set = {} /\ u.port = 0 BY <1>1 DEF NoUrl
<1>3. \A f \in {"SCHEMA", "HOST", "PATH", "QUERY", "FRAGMENT", "PORT", "USERINFO"} :
        f \in Field /\ u.len[f] = 0
  BY <1>2 DEF Field
<1>4. \A f \in Field : f \in u.set <=> u.len[f] > 0 BY <1>2
<1>5. u.len \in Lengths BY <1>2 DEF Lengths
<1>6. ReadSoFar(s, buf, is_connect, u.len, u.off["FRAGMENT"], p)
  <2>1. \A g \in Field : u.len[g] = 0 BY <1>2
  <2>2. CASE is_connect
    <3>1. s = "server_start" BY <1>1, <2>2
    <3>2. p = ServerAt(is_connect, u.len) BY <1>1, <2>2 DEF ServerAt
    <3>3. SlashesRead(buf, is_connect, u.len["SCHEMA"]) BY <1>3, <2>2 DEF SlashesRead
    <3> QED BY <2>1, <3>1, <3>2, <3>3 DEF ReadSoFar
  <2>3. CASE ~is_connect
    <3>1. s = "spaces_before_url" BY <1>1, <2>3
    <3> QED BY <1>1, <2>1, <2>3, <3>1 DEF ReadSoFar
  <2> QED BY <2>2, <2>3
<1>7. Placed(is_connect, u.off, u.len) BY <1>3 DEF Placed
<1>8. found_at <=> HasAt(buf, is_connect, u.len) BY <1>1, <1>3, <1>5, NoHostNoAt
<1>9. FieldsRead BY <1>4, <1>6, <1>7, <1>8 DEF FieldsRead
<1> QED BY <1>1, <1>2, <1>9 DEF Parsed, ResultIsTheGrammar

\* The byte at p is read from the url that is known after it.
LEMMA ReadsFollows ==
  ASSUME Safe, p <= Len(buf), NEW c \in UrlByte, Reads(c)
  PROVE  Follows(buf, buf', p, c)
<1>1. /\ buf'[p + 1] = c /\ \A i \in 1..Len(buf) : buf'[i] = buf[i]
      /\ p \in Nat /\ Len(buf) \in Nat
  BY ReadsByte, SafeFacts
<1>2. At(buf', p) = c BY <1>1 DEF At
<1>3. ASSUME NEW j \in 0..(p - 1) PROVE At(buf', j) = At(buf, j)
  <2>1. j + 1 \in 1..Len(buf) BY <1>1
  <2> QED BY <1>1, <2>1 DEF At
<1> QED BY <1>2, <1>3 DEF Follows

\* A byte that the first loop rejects is one that the grammar rejects.
LEMMA FieldsDeadParsed ==
  ASSUME IInv, Parsed, NEW c \in UrlByte, FieldsDead(c), Safe' PROVE Parsed'
<1>a. Safe BY DEF IInv
<1>c. /\ Fits' => Fits /\ Len(buf) <= Len(buf')
      /\ \A i \in 1..Len(buf) : buf'[i] = buf[i]
  <2>1. [Next]_vars BY DEF Next
  <2> QED BY <1>a, <2>1, BufGrows
<1>b. /\ p \in Nat /\ Len(buf) \in Nat /\ Len(buf') \in Nat /\ buf' \in Seq(UrlByte)
      /\ u.len \in Lengths /\ u.off["FRAGMENT"] \in Nat
  <2>1. buf' \in Seq(UrlByte) BY DEF Safe, TypeOK
  <2>2. Len(buf') \in Nat BY <2>1
  <2>3. u.len \in Lengths BY <1>a, UrlLengths
  <2>4. p \in Nat /\ Len(buf) \in Nat /\ u.off["FRAGMENT"] \in Nat
    BY <1>a, SafeFacts DEF Field
  <2> QED BY <2>1, <2>2, <2>3, <2>4
<1>1. /\ pc = "fields" /\ pc' = "done" /\ ret' = 1 /\ ParseUrlChar(s, c) = "dead"
      /\ UNCHANGED <<is_connect, u, v>>
  BY DEF FieldsDead, Returns
<1>2. s \in UrlState \ {"dead"} /\ p <= Len(buf)
  BY <1>1, <1>a DEF Safe, StatesFit, InsideUrl
<1>3. SUFFICES ASSUME Fits' PROVE ~WellFormed(buf', is_connect, MaxPort)
  BY <1>1 DEF Parsed, ResultIsTheGrammar
<1>4. FieldsRead BY <1>1, <1>3, <1>c DEF Parsed
<1>5. p < Len(buf') /\ At(buf', p) = c
  <2>1. CASE p < Len(buf) /\ At(buf, p) = c /\ UNCHANGED buf BY <2>1
  <2>2. CASE p = Len(buf) /\ \E rest \in Rests : buf' = Append(buf, c) \o rest
    <3>1. PICK rest \in Rests : buf' = Append(buf, c) \o rest BY <2>2
    <3>2. rest \in Seq(UrlByte) /\ buf \in Seq(UrlByte)
      BY <1>a, SafeFacts, UrlAssumption
    <3>3. p + 1 <= Len(buf') /\ buf'[p + 1] = c BY <2>2, <3>1, <3>2
    <3> QED BY <1>b, <3>3 DEF At
  <2> QED BY <2>1, <2>2 DEF FieldsDead
<1>6. Follows(buf, buf', p, c)
  <2>1. ASSUME NEW j \in 0..(p - 1) PROVE At(buf', j) = At(buf, j)
    <3>1. j + 1 \in 1..Len(buf) BY <1>b, <1>2
    <3> QED BY <1>c, <3>1 DEF At
  <2> QED BY <1>5, <2>1 DEF Follows
<1>7. ReadSoFar(s, buf, is_connect, u.len, u.off["FRAGMENT"], p) BY <1>4 DEF FieldsRead
<1>8. ReadSoFar(s, buf', is_connect, u.len, u.off["FRAGMENT"], p)
  BY <1>b, <1>2, <1>6, <1>7, ReadStays
<1>9. ParseUrlChar(s, At(buf', p)) = "dead" BY <1>1, <1>5
<1> QED BY <1>b, <1>2, <1>5, <1>8, <1>9, ReadDead

\* What the loop has accepted it has read by the grammar.
LEMMA FieldsReadStep ==
  ASSUME IInv, FieldsRead, pc = "fields", NEW c \in UrlByte, Reads(c), Safe',
         s' = ParseUrlChar(s, c), s' # "dead", p' = p + 1, UNCHANGED is_connect,
         Counts(u.len, u'.len, s'),
         IF s' \in FieldState
         THEN \A g \in Field :
                /\ u'.off[g] = IF g = FieldOf[s'] /\ u.len[g] = 0 THEN p ELSE u.off[g]
                /\ g \in u'.set <=> g \in u.set \cup {FieldOf[s']}
         ELSE UNCHANGED u,
         found_at' = (found_at \/ s' = "server_with_at")
  PROVE  FieldsRead'
<1>a. Safe BY DEF IInv
<1>b. /\ p \in Nat /\ u.len \in Lengths /\ u'.len \in Lengths
      /\ u.off["FRAGMENT"] \in Nat /\ u'.off["FRAGMENT"] \in Nat
  <2>1. u.len \in Lengths BY <1>a, UrlLengths
  <2>2. u'.len \in Lengths /\ u'.off \in Lengths
    BY UrlAssumption DEF Safe, TypeOK, Lengths
  <2>3. u'.off["FRAGMENT"] \in Nat BY <2>2 DEF Lengths, Field
  <2> QED BY <1>a, <2>1, <2>2, <2>3, SafeFacts DEF Field
<1>1. s \in UrlState \ {"dead"} /\ p <= Len(buf) BY <1>a DEF Safe, StatesFit, InsideUrl
<1>2. Follows(buf, buf', p, c) BY <1>a, <1>1, ReadsFollows
<1>3. LeadsTo(s, c, s') BY <1>1, CharTo
<1>4. ReadSoFar(s, buf, is_connect, u.len, u.off["FRAGMENT"], p) BY DEF FieldsRead
<1> DEFINE f == u.off["FRAGMENT"]
           h == u'.off["FRAGMENT"]
           n == s'
<1>5. s' = "fragment" => h = IF u.len["FRAGMENT"] > 0 THEN f ELSE p
  <2>1. s' = "fragment" => s' \in FieldState /\ FieldOf[s'] = "FRAGMENT"
    BY FieldOfIs DEF FieldState
  <2>2. s' = "fragment" => h = IF u.len["FRAGMENT"] = 0 THEN p ELSE f
    BY <2>1 DEF Field
  <2>3. u.len["FRAGMENT"] \in Nat BY <1>b, PlacesNat
  <2> QED BY <2>2, <2>3
<1>6. IF s' \in FieldState
      THEN /\ OneMore(u.len, u'.len, FieldOf[s'])
           /\ s' = "fragment" => h = IF u.len["FRAGMENT"] > 0 THEN f ELSE p
      ELSE u'.len = u.len
  BY <1>5 DEF Counts
<1>7. ReadSoFar(s', buf', is_connect, u'.len, h, p + 1)
  <2> HIDE DEF f, h
  <2>1. f \in Nat /\ h \in Nat BY <1>b DEF f, h
  <2>2. ReadSoFar(s, buf, is_connect, u.len, f, p) BY <1>4 DEF f
  <2> QED BY <1>b, <1>1, <1>2, <1>6, <2>1, <2>2, ReadStep
<1>8. HasAt(buf', is_connect, u'.len) <=> HasAt(buf, is_connect, u.len) \/ s' = "server_with_at"
  BY <1>b, <1>1, <1>2, <1>3, <1>4, HasAtStep
<1>9. found_at' <=> HasAt(buf', is_connect, u'.len)
  <2>1. found_at <=> HasAt(buf, is_connect, u.len) BY DEF FieldsRead
  <2> QED BY <1>8, <2>1
<1>10. Placed(is_connect, u'.off, u'.len)
  <2>1. CASE s' \in FieldState
    <3>1. \A g \in Field :
            u'.off[g] = IF g = FieldOf[s'] /\ u.len[g] = 0 THEN p ELSE u.off[g]
      BY <2>1
    <3>2. Placed(is_connect, u.off, u.len) BY DEF FieldsRead
    <3> QED BY <1>b, <1>1, <1>3, <1>4, <2>1, <3>1, <3>2, PlacedStep
  <2>2. CASE s' \notin FieldState BY <2>2 DEF FieldsRead
  <2> QED BY <2>1, <2>2
<1>11. ASSUME NEW g \in Field PROVE g \in u'.set <=> u'.len[g] > 0
  <2>1. g \in u.set <=> u.len[g] > 0 BY DEF FieldsRead
  <2>2. CASE s' \notin FieldState BY <2>1, <2>2
  <2>3. CASE s' \in FieldState
    <3>1. OneMore(u.len, u'.len, FieldOf[s']) BY <2>3 DEF Counts
    <3>2. g \in u'.set <=> g \in u.set \cup {FieldOf[s']} BY <2>3
    <3>3. CASE g = FieldOf[s']
      <4>1. u'.len[g] = u.len[g] + 1 BY <3>1, <3>3 DEF OneMore
      <4>2. u.len[g] \in Nat BY <1>b DEF Lengths
      <4> QED BY <3>2, <3>3, <4>1, <4>2
    <3>4. CASE g # FieldOf[s']
      <4>1. u'.len[g] = u.len[g] BY <3>1, <3>4 DEF OneMore
      <4> QED BY <2>1, <3>2, <3>4, <4>1
    <3> QED BY <3>3, <3>4
  <2> QED BY <2>2, <2>3
<1>12. ReadSoFar(s, buf, is_connect, u.len, u.off["FRAGMENT"], p)' BY <1>7
<1>13. Placed(is_connect, u.off, u.len)' BY <1>10
<1>14. (found_at <=> HasAt(buf, is_connect, u.len))' BY <1>9
<1> QED BY <1>11, <1>12, <1>13, <1>14 DEF FieldsRead

\* A byte of the schema that is part of no field keeps the account.
LEMMA FieldsDelimiterParsed ==
  ASSUME IInv, Parsed, NEW c \in UrlByte, FieldsDelimiter(c), Fits' => Fits, Safe'
  PROVE  Parsed'
<1>1. /\ pc = "fields" /\ pc' = "fields" /\ Reads(c) /\ s' = ParseUrlChar(s, c)
      /\ s' \in Delimiter /\ p' = p + 1
      /\ UNCHANGED <<is_connect, u, found_at, v>>
  BY DEF FieldsDelimiter
<1>2. s' # "dead" /\ s' \notin FieldState /\ s' # "server_with_at"
  BY <1>1 DEF Delimiter, FieldState
<1>3. SUFFICES ASSUME Fits' PROVE FieldsRead' /\ u.port = 0 /\ v = 0
  BY <1>1 DEF Parsed, ResultIsTheGrammar
<1>4. FieldsRead /\ u.port = 0 /\ v = 0 BY <1>1, <1>3 DEF Parsed
<1>5. Counts(u.len, u'.len, s') BY <1>1, <1>2 DEF Counts
<1>6. FieldsRead'
  <2>1. found_at' = (found_at \/ s' = "server_with_at")
    <3>1. found_at \in BOOLEAN BY DEF IInv, Safe, TypeOK
    <3> QED BY <1>1, <1>2, <3>1
  <2> QED BY <1>1, <1>2, <1>4, <1>5, <2>1, FieldsReadStep
<1> QED BY <1>4, <1>6

\* A byte that the first loop reads keeps the account.
LEMMA FieldsByteParsed ==
  ASSUME IInv, Parsed, NEW c \in UrlByte, FieldsByte(c), Fits' => Fits, Safe'
  PROVE  Parsed'
<1>a. Safe BY DEF IInv
<1>b. u \in URecord /\ u.set \subseteq Field /\ p \in Nat BY <1>a, SafeFacts
<1>1. /\ pc = "fields" /\ pc' = "fields" /\ Reads(c) /\ s' = ParseUrlChar(s, c)
      /\ s' \in DOMAIN FieldOf /\ p' = p + 1 /\ UNCHANGED <<is_connect, v>>
      /\ found_at' = (found_at \/ s' = "server_with_at")
  BY DEF FieldsByte
<1>2. s \in UrlState \ {"dead"} /\ s' # "dead" /\ s' \in FieldState
  BY <1>1, <1>a, FieldOfDomain DEF Safe, StatesFit, FieldState
<1>3. PICK f \in Field : f = FieldOf[s'] BY <1>1, FieldOfDomain
<1>4. /\ u' = IF f = old_uf THEN More(u, f) ELSE Begin(u, f, p)
      /\ f # NoField
  BY <1>3 DEF FieldsByte, NoField, Field
<1>5. f \notin Found(s) \/ (s \in DOMAIN FieldOf /\ FieldOf[s] = f)
  BY <1>1, <1>2, <1>3, CharField
<1>6. SUFFICES ASSUME Fits' PROVE FieldsRead' /\ u'.port = 0 /\ v' = 0
  BY <1>1 DEF Parsed, ResultIsTheGrammar
<1>7. FieldsLaid /\ FieldsRead /\ u.port = 0 /\ v = 0
  BY <1>1, <1>6 DEF IInv, Laid, Parsed
<1>8. p + 1 < Width
  <2>1. p' <= Len(buf') /\ Len(buf') < Width
    BY <1>1, <1>6 DEF Safe, InsideUrl, Fits
  <2>2. Len(buf') \in Nat BY DEF Safe, TypeOK
  <2> QED BY <1>1, <1>b, <2>1, <2>2, UrlAssumption
<1>9. u.len[f] \in Nat /\ u.off[f] \in Nat /\ u.off[f] + u.len[f] <= p
  BY <1>a, <1>1, SafeFacts DEF Safe, InsideUrl, EndOf
<1>10. /\ u'.set = u.set \cup {f} /\ u'.port = u.port
       /\ u'.len[f] = u.len[f] + 1
       /\ u'.off[f] = IF u.len[f] = 0 THEN p ELSE u.off[f]
       /\ \A g \in Field \ {f} : u'.off[g] = u.off[g] /\ u'.len[g] = u.len[g]
  <2>1. CASE f = old_uf
    <3>1. u' = More(u, f) /\ f \in u.set BY <1>4, <1>7, <2>1 DEF FieldsLaid
    <3>2. u.len[f] > 0 BY <1>7, <3>1 DEF FieldsRead
    <3>3. u.len[f] + 1 < Width BY <1>8, <1>9, <1>b, UrlAssumption
    <3> QED BY <1>b, <1>9, <3>1, <3>2, <3>3, MoreType
  <2>2. CASE f # old_uf
    <3>1. u' = Begin(u, f, p) BY <1>4, <2>2
    <3>2. f \notin u.set BY <1>5, <1>7, <2>2 DEF FieldsLaid
    <3>3. u.len[f] = 0 BY <1>7, <1>9, <3>2 DEF FieldsRead
    <3>4. p < Width BY <1>b, <1>8, UrlAssumption
    <3> QED BY <1>b, <3>1, <3>3, <3>4, BeginType
  <2> QED BY <2>1, <2>2
<1>11. Counts(u.len, u'.len, s') BY <1>2, <1>3, <1>10 DEF Counts, OneMore
<1>12. \A g \in Field :
         /\ u'.off[g] = IF g = FieldOf[s'] /\ u.len[g] = 0 THEN p ELSE u.off[g]
         /\ g \in u'.set <=> g \in u.set \cup {FieldOf[s']}
  BY <1>3, <1>10
<1>13. FieldsRead' BY <1>1, <1>2, <1>7, <1>11, <1>12, FieldsReadStep
<1> QED BY <1>1, <1>7, <1>10, <1>13

-----------------------------------------------------------------------------
(* Where a loop ends.                                                      *)

\* What the grammar says of a url does not depend on the state.
LEMMA SameUrl ==
  ASSUME UNCHANGED <<buf, is_connect>>
  PROVE  /\ Parts(buf', is_connect') = Parts(buf, is_connect)
         /\ WellFormed(buf', is_connect', MaxPort) <=> WellFormed(buf, is_connect, MaxPort)
         /\ \A places : PortValue(buf', places) = PortValue(buf, places)
<1>1. buf' = buf /\ is_connect' = is_connect OBVIOUS
<1> QED BY <1>1, Zenon

\* A url whose fields are all known is of the grammar if its port is not too
\* large and it is not a CONNECT's with more than a host and a port.
LEMMA FieldsTell ==
  ASSUME Safe, SchemaOK(buf, is_connect), RestOK(buf, is_connect), PartsAre(Field),
         \A f \in Field : f \in u.set <=> u.len[f] > 0,
         ServerOK(buf, is_connect, MaxPort) <=>
           PortValue(buf, Parts(buf, is_connect)["PORT"]) <= MaxPort
  PROVE  WellFormed(buf, is_connect, MaxPort) <=>
           /\ PortValue(buf, Parts(buf, is_connect)["PORT"]) <= MaxPort
           /\ is_connect => u.set = {"HOST", "PORT"}
<1>1. ASSUME NEW f \in Field PROVE f \in u.set <=> Parts(buf, is_connect)[f] # {}
  <2>1. u.off[f] \in Nat /\ u.len[f] \in Nat BY SafeFacts
  <2>2. u.len[f] > 0 => u.off[f] \in FieldPlaces(f) BY <2>1 DEF FieldPlaces
  <2>3. Parts(buf, is_connect)[f] = IF f \in u.set THEN FieldPlaces(f) ELSE {}
    BY DEF PartsAre
  <2> QED BY <2>2, <2>3
<1>2. {f \in Field : Parts(buf, is_connect)[f] # {}} = u.set
  <2>1. u.set \subseteq Field BY SafeFacts
  <2> QED BY <1>1, <2>1
<1> QED BY <1>2 DEF WellFormed

\* Then the last tests decide, or the loop over the port.
LEMMA ToPortParsed ==
  ASSUME Safe, SchemaOK(buf, is_connect), RestOK(buf, is_connect), PartsAre(Field),
         \A f \in Field : f \in u.set <=> u.len[f] > 0,
         ServerOK(buf, is_connect, MaxPort) <=>
           PortValue(buf, Parts(buf, is_connect)["PORT"]) <= MaxPort,
         u.port = 0, v = 0, ToPort(u), UNCHANGED <<buf, is_connect, u, v>>
  PROVE  Parsed'
<1> DEFINE places == Parts(buf, is_connect)["PORT"]
<1>1. WellFormed(buf, is_connect, MaxPort) <=>
        PortValue(buf, places) <= MaxPort /\ (is_connect => u.set = {"HOST", "PORT"})
  BY FieldsTell
<1>2. PartsAre(Field)'
  <2>1. Parts(buf', is_connect') = Parts(buf, is_connect) BY SameUrl
  <2> QED BY <2>1 DEF PartsAre, FieldPlaces
<1>3. places = IF "PORT" \in u.set THEN FieldPlaces("PORT") ELSE {}
  BY DEF PartsAre, Field
<1>4. CASE is_connect /\ u.set # {"HOST", "PORT"}
  <2>1. pc' = "done" /\ ret' = 1 BY <1>4 DEF ToPort, Returns
  <2>2. ~WellFormed(buf', is_connect', MaxPort) BY <1>1, <1>4, SameUrl
  <2> QED BY <2>1, <2>2 DEF Parsed, ResultIsTheGrammar
<1>5. CASE ~(is_connect /\ u.set # {"HOST", "PORT"}) /\ "PORT" \in u.set
  <2>1. pc' = "port" /\ p' = u.off["PORT"] BY <1>5 DEF ToPort
  <2>2. WellFormed(buf', is_connect', MaxPort) <=>
          PortValue(buf', Parts(buf', is_connect')["PORT"]) <= MaxPort
    <3>1. WellFormed(buf, is_connect, MaxPort) <=> PortValue(buf, places) <= MaxPort
      BY <1>1, <1>5
    <3>2. PortValue(buf', Parts(buf', is_connect')["PORT"]) = PortValue(buf, places)
      BY SameUrl
    <3> QED BY <3>1, <3>2, SameUrl
  <2>3. v' = PortValue(buf', u'.off["PORT"]..(p' - 1))
    <3>1. u.off["PORT"] \in Nat BY SafeFacts DEF Field
    <3>2. u'.off["PORT"]..(p' - 1) = {} BY <2>1, <3>1
    <3> QED BY <3>2, PortNone
  <2>4. PortFields' BY <1>2, <2>2, <2>3 DEF PortFields
  <2> QED BY <2>1, <2>4 DEF Parsed, ResultIsTheGrammar
<1>6. CASE ~(is_connect /\ u.set # {"HOST", "PORT"}) /\ "PORT" \notin u.set
  <2>1. pc' = "done" /\ ret' = 0 BY <1>6 DEF ToPort, Returns
  <2>2. places = {} BY <1>3, <1>6
  <2>3. PortValue(buf, places) = 0 BY <2>2, PortNone
  <2>4. 0 <= MaxPort BY UrlAssumption
  <2>5. PortValue(buf, places) <= MaxPort BY <2>3, <2>4
  <2>6. WellFormed(buf', is_connect', MaxPort) BY <1>1, <1>6, <2>5, SameUrl
  <2>7. PortValue(buf', Parts(buf', is_connect')["PORT"]) = PortValue(buf, places)
    BY SameUrl
  <2>8. u'.port = PortValue(buf', Parts(buf', is_connect')["PORT"])
    BY <2>3, <2>7
  <2> QED BY <1>2, <2>1, <2>6, <2>8 DEF Parsed, ResultIsTheGrammar, PartsAre
<1> QED BY <1>4, <1>5, <1>6

\* A loop that stands at the end of an empty url, or of a schema, has not
\* read a url.
LEMMA NothingRead ==
  ASSUME NEW url, NEW connect, NEW len \in Lengths, NEW f \in Nat, NEW i \in Nat,
         NEW t, t \in EndState, ReadSoFar(t, url, connect, len, f, i), i = 0,
         \A g \in Field : len[g] = 0
  PROVE  HasServer(connect, len)
<1>1. /\ QueryAt(connect, len) \in Nat
      /\ \A g \in {"SCHEMA", "HOST", "PATH", "QUERY", "FRAGMENT"} : len[g] = 0
  BY PlacesNat DEF Field
<1>2. CASE t \in Server BY <1>2, ServerSoFarRead
<1>3. CASE t = "path"
  <2>1. len["PATH"] > 0 BY <1>3 DEF ReadSoFar
  <2> QED BY <1>1, <2>1
<1>4. CASE t \in {"query_string_start", "query_string"}
  <2>1. i = QueryAt(connect, len) + 1 + len["QUERY"] BY <1>4 DEF ReadSoFar
  <2> QED BY <1>1, <2>1
<1>5. CASE t = "fragment_start"
  <2>1. HashesRead(url, connect, len, i) BY <1>5 DEF ReadSoFar
  <2>2. HashAt(url, connect, len) < i BY <2>1 DEF HashesRead
  <2>3. HashAt(url, connect, len) \in Nat BY <1>1 DEF HashAt
  <2> QED BY <2>2, <2>3
<1>6. CASE t = "fragment"
  <2>1. len["FRAGMENT"] > 0 BY <1>6 DEF ReadSoFar
  <2> QED BY <1>1, <2>1
<1> QED BY <1>2, <1>3, <1>4, <1>5, <1>6 DEF EndState

\* One that has neither a schema nor a server, but a byte, is in its path or
\* past it.
LEMMA PathOnly ==
  ASSUME NEW url, NEW connect, NEW len \in Lengths, NEW f \in Nat, NEW i \in Nat,
         NEW t \in UrlState \ {"dead"}, ReadSoFar(t, url, connect, len, f, i), i # 0,
         ~HasServer(connect, len)
  PROVE  t \in EndState
<1>1. ~connect /\ len["SCHEMA"] = 0
  <2>1. ~connect /\ ~(len["SCHEMA"] > 0) BY DEF HasServer
  <2>2. len["SCHEMA"] \in Nat BY PlacesNat
  <2> QED BY <2>1, <2>2
<1>2. ~SchemaRead(url, 0) BY DEF SchemaRead
<1>3. t # "spaces_before_url" BY DEF ReadSoFar
<1>4. t # "schema" BY <1>1, <1>2 DEF ReadSoFar
<1>5. t # "schema_slash"
  <2> SUFFICES ASSUME t = "schema_slash" PROVE FALSE OBVIOUS
  <2>1. i = 0 + 1 /\ SchemaRead(url, i - 1) BY <1>1 DEF ReadSoFar
  <2>2. i - 1 = 0 BY <2>1
  <2> QED BY <1>2, <2>1, <2>2
<1>6. t # "schema_slash_slash"
  <2> SUFFICES ASSUME t = "schema_slash_slash" PROVE FALSE OBVIOUS
  <2>1. i = 0 + 2 /\ SchemaRead(url, i - 2) BY <1>1 DEF ReadSoFar
  <2>2. i - 2 = 0 BY <2>1
  <2> QED BY <1>2, <2>1, <2>2
<1> QED BY <1>3, <1>4, <1>5, <1>6 DEF UrlState, EndState, Server

\* The first loop ends in one of three ways.
LEMMA FieldsEndReturns ==
  ASSUME IInv, Parsed, FieldsEnd, Fits, pc = "fields", p = 0 \/ SchemaWithoutHost
  PROVE  ~WellFormed(buf, is_connect, MaxPort)
<1>a. Safe BY DEF IInv
<1>1. /\ buf \in Seq(UrlByte) /\ Len(buf) \in Nat /\ p = Len(buf)
      /\ s \in UrlState \ {"dead"} /\ \A i \in 1..Len(buf) : buf[i] # "bad"
  BY <1>a, SafeFacts DEF Safe, StatesFit, Accepted, FieldsEnd
<1>2. FieldsRead BY DEF Parsed
<1>3. /\ ReadSoFar(s, buf, is_connect, u.len, u.off["FRAGMENT"], Len(buf))
      /\ Placed(is_connect, u.off, u.len)
  BY <1>1, <1>2 DEF FieldsRead
<1>4. u.len \in Lengths /\ u.off \in Lengths BY <1>a, UrlLengths
<1>5. s \in EndState => HasServer(is_connect, u.len) /\ u.len["HOST"] = 0
  <2>1. CASE p = 0
    <3>1. ASSUME NEW g \in Field PROVE u.len[g] = 0
      <4>1. u.off[g] + u.len[g] <= 0 /\ u.off[g] \in Nat /\ u.len[g] \in Nat
        BY <1>a, <2>1, SafeFacts DEF Safe, InsideUrl, EndOf
      <4> QED BY <4>1
    <3>2. u.off["FRAGMENT"] \in Nat BY <1>4 DEF Lengths, Field
    <3>3. Len(buf) = 0 BY <1>1, <2>1
    <3>4. s \in EndState => HasServer(is_connect, u.len)
      BY <1>1, <1>3, <1>4, <3>1, <3>2, <3>3, NothingRead
    <3> QED BY <3>1, <3>4 DEF Field
  <2>2. CASE SchemaWithoutHost
    <3>1. u.len["SCHEMA"] > 0 /\ ~(u.len["HOST"] > 0)
      BY <1>2, <2>2 DEF SchemaWithoutHost, FieldsRead, Field
    <3>2. u.len["HOST"] \in Nat BY <1>4, PlacesNat
    <3> QED BY <3>1, <3>2 DEF HasServer
  <2> QED BY <2>1, <2>2
<1> QED BY <1>1, <1>3, <1>4, <1>5, ReadStops

\* With a path only.
LEMMA FieldsEndToPort ==
  ASSUME IInv, Parsed, FieldsEnd, Fits, pc = "fields", p # 0, ~SchemaWithoutHost,
         "HOST" \notin u.set
  PROVE  Parsed'
<1>a. Safe BY DEF IInv
<1>1. /\ buf \in Seq(UrlByte) /\ Len(buf) \in Nat /\ p = Len(buf)
      /\ s \in UrlState \ {"dead"} /\ \A i \in 1..Len(buf) : buf[i] # "bad"
  BY <1>a, SafeFacts DEF Safe, StatesFit, Accepted, FieldsEnd
<1>2. /\ ToPort(u) /\ UNCHANGED <<buf, is_connect, u, v>>
  BY DEF FieldsEnd
<1>3. FieldsRead /\ u.port = 0 /\ v = 0 BY DEF Parsed
<1>4. /\ ReadSoFar(s, buf, is_connect, u.len, u.off["FRAGMENT"], Len(buf))
      /\ Placed(is_connect, u.off, u.len)
  BY <1>1, <1>3 DEF FieldsRead
<1>5. u.len \in Lengths /\ u.off \in Lengths BY <1>a, UrlLengths
<1>6. u.len["HOST"] = 0 /\ u.len["SCHEMA"] = 0
  <2>1. ~(u.len["HOST"] > 0) /\ ~(u.len["SCHEMA"] > 0)
    BY <1>3 DEF SchemaWithoutHost, FieldsRead, Field
  <2>2. u.len["HOST"] \in Nat /\ u.len["SCHEMA"] \in Nat BY <1>5, PlacesNat
  <2> QED BY <2>1, <2>2
<1>7. CASE is_connect
  <2>1. HasServer(is_connect, u.len) BY <1>7 DEF HasServer
  <2>2. ~WellFormed(buf, is_connect, MaxPort)
    BY <1>1, <1>4, <1>5, <1>6, <2>1, ReadStops
  <2>3. pc' = "done" /\ ret' = 1 BY <1>2, <1>7 DEF ToPort, Returns
  <2>4. ~WellFormed(buf', is_connect', MaxPort) BY <1>2, <2>2, SameUrl
  <2> QED BY <2>3, <2>4 DEF Parsed, ResultIsTheGrammar
<1>8. CASE ~is_connect
  <2>1. ~HasServer(is_connect, u.len) BY <1>6, <1>8 DEF HasServer
  <2>2. u.off["FRAGMENT"] \in Nat BY <1>5 DEF Lengths, Field
  <2>3. Len(buf) # 0 BY <1>1
  <2>4. s \in EndState BY <1>1, <1>4, <1>5, <2>1, <2>2, <2>3, PathOnly
  <2>0. PartsRead(buf, is_connect, u.len, u.off)
    BY <1>1, <1>4, <1>5, <2>4, ReadIsGrammar
  <2>5. /\ SchemaOK(buf, is_connect) /\ RestOK(buf, is_connect)
        /\ (is_connect \/ Absolute(buf)) <=> HasServer(is_connect, u.len)
        /\ HasServer(is_connect, u.len) =>
             /\ ServerFrom(buf, is_connect) = ServerAt(is_connect, u.len)
             /\ ServerEnd(buf, is_connect) = PathAt(is_connect, u.len)
             /\ Only(buf, ServerAt(is_connect, u.len)..(PathAt(is_connect, u.len) - 1),
                     ServerChar)
        /\ \A f \in {"SCHEMA"} \cup TailField :
             Parts(buf, is_connect)[f] = PlacesOf(u.off, u.len, f)
    BY <2>0 DEF PartsRead
  <2>6. ~(is_connect \/ Absolute(buf))
    <3>1. (is_connect \/ Absolute(buf)) <=> HasServer(is_connect, u.len) BY <2>5
    <3> QED BY <2>1, <3>1
  <2>7. \A f \in {"HOST", "PORT", "USERINFO"} :
          Parts(buf, is_connect)[f] = {} /\ f \notin u.set
    <3>1. "PORT" \notin u.set /\ "USERINFO" \notin u.set BY <1>a DEF Safe, InsideUrl
    <3> QED BY <2>6, <3>1, PartsIs
  <2>8. \A f \in Field : f \in u.set <=> u.len[f] > 0 BY <1>3 DEF FieldsRead
  <2>9. PartsAre(Field)
    <3>1. \A f \in Field : f \in {"SCHEMA"} \cup TailField \/ f \in {"HOST", "PORT", "USERINFO"}
      BY DEF Field, TailField
    <3> QED BY <2>5, <2>7, <2>8, <3>1 DEF PartsAre, PlacesOf, FieldPlaces
  <2>10. ServerOK(buf, is_connect, MaxPort) BY <2>6 DEF ServerOK
  <2>11. PortValue(buf, Parts(buf, is_connect)["PORT"]) <= MaxPort
    <3>1. Parts(buf, is_connect)["PORT"] = {} BY <2>7
    <3>2. PortValue(buf, Parts(buf, is_connect)["PORT"]) = 0 BY <3>1, PortNone
    <3>3. 0 <= MaxPort BY UrlAssumption
    <3> QED BY <3>2, <3>3
  <2> QED BY <1>a, <1>2, <1>3, <2>5, <2>8, <2>9, <2>10, <2>11, ToPortParsed
<1> QED BY <1>7, <1>8

\* What is begun for the loop over the server.
LEMMA ServerBegins ==
  ASSUME NEW url, NEW found, NEW first \in Nat, NEW len \in Lengths, NEW off, NEW t,
         t = IF found THEN "userinfo_start" ELSE "host_start",
         \A g \in ServerField : len[g] = 0
  PROVE  /\ ServerSoFar(t, url, found, len, first, first)
         /\ ServerPlaced(url, found, off, len, first)
<1>1. len["USERINFO"] = 0 /\ len["HOST"] = 0 /\ len["PORT"] = 0 BY DEF ServerField
<1>2. Only(url, first..(first - 1), UserinfoChar) BY DEF Only
<1>3. ServerPlaced(url, found, off, len, first) BY <1>1 DEF ServerPlaced
<1>4. ServerSoFar(t, url, found, len, first, first)
  <2>1. CASE found
    <3>1. t = "userinfo_start" BY <2>1
    <3>2. first = first + len["USERINFO"] BY <1>1
    <3> QED BY <1>2, <2>1, <3>1, <3>2 DEF ServerSoFar, InUserinfo
  <2>2. CASE ~found
    <3>1. t = "host_start" BY <2>2
    <3>2. HostAt(first, found, len) = first BY <2>2 DEF HostAt
    <3>3. HostSoFar(t, url, first, len, first) BY <3>1 DEF HostSoFar
    <3>4. first + len["USERINFO"] - 1 = first - 1 BY <1>1
    <3>5. PastUserinfo(url, found, len, first)
      BY <1>1, <1>2, <2>2, <3>4 DEF PastUserinfo
    <3>6. t \notin InUserinfo BY <3>1 DEF InUserinfo
    <3> QED BY <3>2, <3>3, <3>5, <3>6 DEF ServerSoFar
  <2> QED BY <2>1, <2>2
<1> QED BY <1>3, <1>4

\* With a server, that is now taken apart.
LEMMA FieldsEndToHost ==
  ASSUME IInv, Parsed, FieldsEnd, Fits, Safe', pc = "fields", p # 0, ~SchemaWithoutHost,
         "HOST" \in u.set
  PROVE  Parsed'
<1>a. Safe BY DEF IInv
<1>1. /\ buf \in Seq(UrlByte) /\ Len(buf) \in Nat /\ p = Len(buf)
      /\ s \in UrlState \ {"dead"} /\ \A i \in 1..Len(buf) : buf[i] # "bad"
      /\ u \in URecord
  BY <1>a, SafeFacts DEF Safe, StatesFit, Accepted, FieldsEnd
<1>2. /\ pc' = "host" /\ s' = IF found_at THEN "userinfo_start" ELSE "host_start"
      /\ p' = u.off["HOST"] /\ buflen' = u.off["HOST"] + u.len["HOST"]
      /\ u' = [u EXCEPT !.len["HOST"] = 0]
      /\ UNCHANGED <<buf, is_connect, found_at, v>>
  BY DEF FieldsEnd
<1>3. FieldsRead /\ u.port = 0 /\ v = 0 BY DEF Parsed
<1>4. /\ ReadSoFar(s, buf, is_connect, u.len, u.off["FRAGMENT"], Len(buf))
      /\ Placed(is_connect, u.off, u.len)
  BY <1>1, <1>3 DEF FieldsRead
<1>5. u.len \in Lengths /\ u.off \in Lengths BY <1>a, UrlLengths
<1>6. u'.len \in Lengths /\ u'.off \in Lengths
  BY UrlAssumption DEF Safe, TypeOK, Lengths
<1>7. /\ u'.set = u.set /\ u'.off = u.off /\ u'.port = u.port /\ u'.len["HOST"] = 0
      /\ \A g \in Field \ {"HOST"} : u'.len[g] = u.len[g]
  <2>1. u'.port = u.port BY <1>1, <1>2 DEF URecord
  <2> QED BY <1>1, <1>2, <2>1, ResetType DEF Field
<1>8. u.len["HOST"] > 0 /\ u.off["FRAGMENT"] \in Nat
  BY <1>3, <1>5 DEF FieldsRead, Lengths, Field
<1>9. PathAt(is_connect, u.len) <= Len(buf) /\ HasServer(is_connect, u.len)
  BY <1>1, <1>4, <1>5, <1>8, PathBehind
<1>10. s \in EndState
  <2>1. \A g \in Field \ Found(s) : u.len[g] = 0 BY <1>4 DEF ReadSoFar
  <2>2. "HOST" \in Found(s) BY <1>8, <2>1 DEF Field
  <2> QED BY <1>1, <2>2 DEF Found, UrlState, EndState, Server
<1>110. PartsRead(buf, is_connect, u.len, u.off)
  BY <1>1, <1>4, <1>5, <1>10, ReadIsGrammar
<1>11. /\ SchemaOK(buf, is_connect) /\ RestOK(buf, is_connect)
       /\ (is_connect \/ Absolute(buf)) <=> HasServer(is_connect, u.len)
       /\ HasServer(is_connect, u.len) =>
            /\ ServerFrom(buf, is_connect) = ServerAt(is_connect, u.len)
            /\ ServerEnd(buf, is_connect) = PathAt(is_connect, u.len)
            /\ Only(buf, ServerAt(is_connect, u.len)..(PathAt(is_connect, u.len) - 1),
                    ServerChar)
       /\ \A f \in {"SCHEMA"} \cup TailField :
            Parts(buf, is_connect)[f] = PlacesOf(u.off, u.len, f)
  BY <1>110 DEF PartsRead
<1>12. is_connect \/ Absolute(buf)
  <2>1. (is_connect \/ Absolute(buf)) <=> HasServer(is_connect, u.len) BY <1>11
  <2> QED BY <1>9, <2>1
<1> DEFINE a == ServerFrom(buf, is_connect)
           e == ServerEnd(buf, is_connect)
<1>13. a = ServerAt(is_connect, u.len) /\ e = PathAt(is_connect, u.len) BY <1>9, <1>11
<1>14. /\ a \in Nat /\ e = a + u.len["HOST"] /\ e \in Nat
       /\ u.off["HOST"] = a
  <2>1. a \in Nat /\ e \in Nat /\ u.len["HOST"] \in Nat BY <1>5, <1>13, PlacesNat
  <2>2. e = a + u.len["HOST"] BY <1>9, <1>13 DEF PathAt
  <2>3. u.off["HOST"] = a BY <1>4, <1>8, <1>13 DEF Placed
  <2> QED BY <2>1, <2>2, <2>3
<1>15. ServerLies(buf, is_connect)
  <2>1. e <= Len(buf) BY <1>9, <1>13
  <2>2. u.len["HOST"] \in Nat BY <1>5, PlacesNat
  <2>3. a <= e BY <1>14, <2>2
  <2> QED BY <1>12, <1>14, <2>1, <2>3 DEF ServerLies
<1>16. AtSign(buf, is_connect) = {i \in a..(e - 1) : At(buf, i) = "@"}
  BY <1>1, <1>15, HostBegins
<1>17. found_at <=> AtSign(buf, is_connect) # {}
  <2>1. found_at <=> HasAt(buf, is_connect, u.len) BY <1>3 DEF FieldsRead
  <2>2. HasAt(buf, is_connect, u.len) <=> \E i \in a..(e - 1) : At(buf, i) = "@"
    BY <1>13 DEF HasAt
  <2>3. AtSign(buf, is_connect) # {} <=> \E i \in a..(e - 1) : At(buf, i) = "@"
    BY <1>16
  <2> QED BY <2>1, <2>2, <2>3
<1>18. \A g \in ServerField : u'.len[g] = 0
  <2>1. u.len["USERINFO"] = 0 /\ u.len["PORT"] = 0
    <3>1. /\ EndOf("USERINFO") = 0 /\ EndOf("PORT") = 0
          /\ u.off["USERINFO"] \in Nat /\ u.off["PORT"] \in Nat
          /\ u.len["USERINFO"] \in Nat /\ u.len["PORT"] \in Nat
      BY <1>a, SafeFacts DEF Safe, InsideUrl, Field
    <3> QED BY <3>1 DEF EndOf
  <2> QED BY <1>7, <2>1 DEF ServerField, Field
<1>19. /\ ServerSoFar(s', buf, found_at, u'.len, a, a)
       /\ ServerPlaced(buf, found_at, u'.off, u'.len, a)
  BY <1>2, <1>6, <1>14, <1>18, ServerBegins
<1>20. \A f \in Field : f \in u.set <=> u.len[f] > 0 BY <1>3 DEF FieldsRead
<1>21. ASSUME NEW f \in OtherFields
       PROVE  /\ f \in u'.set <=> u'.len[f] > 0
              /\ Parts(buf, is_connect)[f] = IF f \in u'.set THEN FieldPlaces(f)' ELSE {}
  <2>1. f \in {"SCHEMA"} \cup TailField /\ f \in Field \ {"HOST"}
    BY DEF OtherFields, ServerField, TailField, Field
  <2>2. Parts(buf, is_connect)[f] = PlacesOf(u.off, u.len, f) BY <1>11, <2>1
  <2>3. u'.len[f] = u.len[f] /\ u'.off[f] = u.off[f] BY <1>7, <2>1
  <2>4. f \in u'.set <=> u.len[f] > 0 BY <1>7, <1>20, <2>1
  <2> QED BY <2>2, <2>3, <2>4 DEF PlacesOf, FieldPlaces
<1>22. \A f \in {"USERINFO", "PORT"} : f \in u'.set <=> u'.len[f] > 0
  <2>1. \A f \in {"USERINFO", "PORT"} : f \in Field \ {"HOST"} BY DEF Field
  <2> QED BY <1>7, <1>20, <2>1
<1>23. buf' = buf /\ is_connect' = is_connect /\ found_at' = found_at BY <1>2
<1>24. ServerFields'
  <2>1. PartsAre(OtherFields)'
    <3>1. Parts(buf', is_connect') = Parts(buf, is_connect) BY <1>23, SameUrl
    <3>2. OtherFields' = OtherFields OBVIOUS
    <3> QED BY <1>21, <3>1, <3>2 DEF PartsAre
  <2>2. p' = a /\ buflen' = e BY <1>2, <1>14
  <2>3. (SchemaOK(buf, is_connect) /\ RestOK(buf, is_connect)
          /\ (is_connect \/ Absolute(buf)))'
    BY <1>11, <1>12, <1>23, Zenon
  <2>4. (found_at <=> AtSign(buf, is_connect) # {})' BY <1>17, <1>23, Zenon
  <2>5. ServerFrom(buf, is_connect)' = a /\ ServerEnd(buf, is_connect)' = e
    BY <1>23, Zenon
  <2>6. ServerSoFar(s, buf, found_at, u.len, ServerFrom(buf, is_connect), p)'
    BY <1>19, <1>23, <2>2, <2>5, Zenon
  <2>7. ServerPlaced(buf, found_at, u.off, u.len, ServerFrom(buf, is_connect))'
    BY <1>19, <1>23, <2>5, Zenon
  <2>8. (\A f \in OtherFields : f \in u.set <=> u.len[f] > 0)'
    BY <1>21
  <2>9. (\A f \in {"USERINFO", "PORT"} : f \in u.set <=> u.len[f] > 0)'
    BY <1>22
  <2>10. (buflen = ServerEnd(buf, is_connect))' BY <2>2, <2>5
  <2> QED BY <2>1, <2>3, <2>4, <2>6, <2>7, <2>8, <2>9, <2>10 DEF ServerFields
<1> QED BY <1>2, <1>3, <1>7, <1>24 DEF Parsed, ResultIsTheGrammar

\* The end of the first loop.
LEMMA FieldsEndParsed ==
  ASSUME IInv, Parsed, FieldsEnd, Safe' PROVE Parsed'
<1>1. pc = "fields" /\ UNCHANGED <<buf, is_connect>> BY DEF FieldsEnd
<1>2. SUFFICES ASSUME Fits' PROVE Parsed' BY DEF Parsed
<1>3. Fits BY <1>1, <1>2 DEF Fits
<1>4. CASE p = 0 \/ SchemaWithoutHost
  <2>1. pc' = "done" /\ ret' = 1 BY <1>4 DEF FieldsEnd, Returns
  <2>2. ~WellFormed(buf', is_connect', MaxPort)
    BY <1>1, <1>3, <1>4, SameUrl, FieldsEndReturns
  <2> QED BY <2>1, <2>2 DEF Parsed, ResultIsTheGrammar
<1>5. CASE p # 0 /\ ~SchemaWithoutHost /\ "HOST" \in u.set
  BY <1>1, <1>3, <1>5, FieldsEndToHost
<1>6. CASE p # 0 /\ ~SchemaWithoutHost /\ "HOST" \notin u.set
  BY <1>1, <1>3, <1>6, FieldsEndToPort
<1> QED BY <1>4, <1>5, <1>6

-----------------------------------------------------------------------------
(* The loops over server and port keep the account.                        *)

\* A host that has a byte is not begun anew.
LEMMA HostBegun ==
  ASSUME NEW url, NEW h \in Nat, NEW i \in Nat, NEW len \in Lengths, NEW t,
         HostSoFar(t, url, h, len, i)
  PROVE  /\ t \in {"host", "host_v6", "host_v6_zone_start", "host_v6_zone"} =>
              len["HOST"] > 0
         /\ t = "host_port" => len["PORT"] > 0
<1>a. len["HOST"] \in Nat BY PlacesNat
<1>1. t \in {"host", "host_v6"} => len["HOST"] > 0 BY DEF HostSoFar
<1>2. CASE t = "host_v6_zone_start"
  <2>1. i = h + 1 + len["HOST"] /\ ZoneRead(url, h + 1, i - 1, i - 1)
    BY <1>2 DEF HostSoFar
  <2>2. h + 1 < i - 1 BY <2>1 DEF ZoneRead
  <2> QED BY <1>2, <1>a, <2>1, <2>2
<1>3. CASE t = "host_v6_zone"
  <2>1. /\ i = h + 1 + len["HOST"]
        /\ \E k \in (h + 2)..(i - 2) : ZoneRead(url, h + 1, k, i - 1)
    BY <1>3 DEF HostSoFar
  <2>2. h + 2 <= i - 2 BY <2>1
  <2> QED BY <1>3, <1>a, <2>1, <2>2
<1>4. t = "host_port" => len["PORT"] > 0 BY DEF HostSoFar
<1> QED BY <1>1, <1>2, <1>3, <1>4

\* The next byte of a server begins its field where it should.
LEMMA ServerPlacedStep ==
  ASSUME NEW url, NEW found, NEW first \in Nat, NEW i \in Nat,
         NEW len \in Lengths, NEW then \in Lengths, NEW t, NEW n, NEW c, c = At(url, i),
         HostLeadsTo(t, c, n), Counted(len, then, n),
         ServerSoFar(t, url, found, len, first, i),
         NEW off, NEW new,
         \A g \in Field : new[g] = IF g = FieldOfHost(n) /\ len[g] = 0 THEN i ELSE off[g],
         ServerPlaced(url, found, off, len, first)
  PROVE  ServerPlaced(url, found, new, then, first)
<1> DEFINE h == HostAt(first, found, len)
           Mark == IF At(url, h) = "[" THEN 1 ELSE 0
<1>a. len["USERINFO"] \in Nat /\ len["HOST"] \in Nat /\ len["PORT"] \in Nat
  BY PlacesNat
<1>b. \A g \in ServerField \ HostFieldsOf(t) : len[g] = 0 BY DEF ServerSoFar
<1>c. /\ \A g \in ServerField \ HostFieldsOf(n) : then[g] = 0
      /\ n = "userinfo" \/ then["USERINFO"] = len["USERINFO"]
      /\ n \in {"host_v6_end", "host_port_start", "host_port"} =>
           then["HOST"] = len["HOST"]
      /\ t \in {"host_start", "host_v6_start"} => len["HOST"] = 0
  BY <1>b, CountedZero
<1>d. h \in Nat
  <2>1. h = IF found THEN first + len["USERINFO"] + 1 ELSE first BY DEF HostAt
  <2> QED BY <1>a, <2>1
<1>e. /\ len["USERINFO"] > 0 => off["USERINFO"] = first
      /\ len["HOST"] > 0 => off["HOST"] = h + Mark
      /\ len["PORT"] > 0 => off["PORT"] = ClosedAt(url, h, len) + 1
  BY DEF ServerPlaced
<1>f. /\ FieldOfHost(n) = "USERINFO" <=> n = "userinfo"
      /\ FieldOfHost(n) = "HOST" <=>
           n \in {"host", "host_v6", "host_v6_zone_start", "host_v6_zone"}
      /\ FieldOfHost(n) = "PORT" <=> n = "host_port"
  BY DEF FieldOfHost, NoField
<1>g. \A g \in {"USERINFO", "HOST", "PORT"} :
        new[g] = IF g = FieldOfHost(n) /\ len[g] = 0 THEN i ELSE off[g]
  BY DEF Field
<1>1. CASE n = "userinfo"
  <2>1. t \in InUserinfo BY <1>1 DEF HostLeadsTo, InUserinfo
  <2>2. i = first + len["USERINFO"] BY <2>1, InIs
  <2>3. then["HOST"] = 0 /\ then["PORT"] = 0
    BY <1>1, <1>c DEF HostFieldsOf, ServerField
  <2>4. new["USERINFO"] = first
    <3>1. CASE len["USERINFO"] = 0
      <4>1. i = first BY <2>2, <3>1
      <4> QED BY <1>1, <1>f, <1>g, <3>1, <4>1
    <3>2. CASE len["USERINFO"] # 0
      <4>1. len["USERINFO"] > 0 BY <1>a, <3>2
      <4> QED BY <1>e, <1>g, <3>2, <4>1
    <3> QED BY <3>1, <3>2
  <2> QED BY <2>3, <2>4 DEF ServerPlaced
<1>2. CASE n # "userinfo"
  <2>1. then["USERINFO"] = len["USERINFO"] /\ new["USERINFO"] = off["USERINFO"]
    BY <1>2, <1>c, <1>f, <1>g
  <2>2. HostAt(first, found, then) = h BY <2>1, SameServer
  <2>3. then["USERINFO"] > 0 => new["USERINFO"] = first BY <1>e, <2>1
  <2>4. CASE n \in {"host", "host_v6", "host_v6_zone_start", "host_v6_zone"}
    <3>1. t \notin InUserinfo BY <2>4 DEF HostLeadsTo, InUserinfo
    <3>2. HostSoFar(t, url, h, len, i) BY <3>1 DEF ServerSoFar
    <3>3. then["PORT"] = 0 BY <2>4, <1>c DEF HostFieldsOf, ServerField
    <3>4. new["HOST"] = h + Mark
      <4>1. CASE t \in {"host_start", "host_v6_start"}
        <5>1. new["HOST"] = i BY <1>c, <1>f, <1>g, <2>4, <4>1
        <5>2. i = h + Mark
          <6>1. CASE t = "host_start"
            <7>1. i = h BY <3>2, <6>1 DEF HostSoFar
            <7>2. c \in HostChar BY <2>4, <6>1 DEF HostLeadsTo
            <7>3. At(url, h) # "[" BY <7>1, <7>2, HostBytesApart
            <7> QED BY <1>d, <7>1, <7>3
          <6>2. CASE t = "host_v6_start"
            <7>1. i = h + 1 /\ At(url, h) = "[" BY <3>2, <6>2 DEF HostSoFar
            <7> QED BY <7>1
          <6> QED BY <4>1, <6>1, <6>2
        <5> QED BY <5>1, <5>2
      <4>2. CASE t \in {"host", "host_v6", "host_v6_zone_start", "host_v6_zone"}
        <5>1. len["HOST"] > 0
          <6> HIDE DEF h
          <6> QED BY <1>d, <3>2, <4>2, HostBegun
        <5>2. len["HOST"] # 0 BY <1>a, <5>1
        <5> QED BY <1>e, <1>g, <5>1, <5>2
      <4> QED BY <2>4, <4>1, <4>2 DEF HostLeadsTo
    <3>5. then["HOST"] > 0 => new["HOST"] = h + Mark BY <3>4
    <3> QED BY <2>2, <2>3, <3>3, <3>5 DEF ServerPlaced
  <2>5. CASE n \in {"host_start", "host_v6_start"}
    <3>1. then["HOST"] = 0 /\ then["PORT"] = 0
      BY <2>5, <1>c DEF HostFieldsOf, ServerField
    <3> QED BY <2>3, <3>1 DEF ServerPlaced
  <2>6. CASE n \in {"host_v6_end", "host_port_start", "host_port"}
    <3>1. t \notin InUserinfo BY <2>6 DEF HostLeadsTo, InUserinfo
    <3>2. HostSoFar(t, url, h, len, i) BY <3>1 DEF ServerSoFar
    <3>3. then["HOST"] = len["HOST"] /\ new["HOST"] = off["HOST"]
      BY <1>c, <1>f, <1>g, <2>6
    <3>4. ClosedAt(url, h, then) = ClosedAt(url, h, len) BY <3>3, SameServer
    <3>5. then["HOST"] > 0 => new["HOST"] = h + Mark BY <1>e, <3>3
    <3>6. then["PORT"] > 0 => new["PORT"] = ClosedAt(url, h, len) + 1
      <4>1. CASE n # "host_port"
        <5>1. then["PORT"] = 0 BY <2>6, <4>1, <1>c DEF HostFieldsOf, ServerField
        <5> QED BY <5>1
      <4>2. CASE n = "host_port"
        <5>1. t \in {"host_port_start", "host_port"} BY <4>2 DEF HostLeadsTo
        <5>2. CASE t = "host_port_start"
          <6>1. len["PORT"] = 0
            BY <1>b, <5>2 DEF HostFieldsOf, ServerField
          <6>2. i = ClosedAt(url, h, len) + 1 BY <3>2, <5>2 DEF HostSoFar
          <6> QED BY <1>f, <1>g, <4>2, <6>1, <6>2
        <5>3. CASE t = "host_port"
          <6>1. len["PORT"] > 0
            <7> HIDE DEF h
            <7> QED BY <1>d, <3>2, <5>3, HostBegun
          <6>2. len["PORT"] # 0 BY <1>a, <6>1
          <6> QED BY <1>e, <1>g, <6>1, <6>2
        <5> QED BY <5>1, <5>2, <5>3
      <4> QED BY <4>1, <4>2
    <3> QED BY <2>2, <2>3, <3>4, <3>5, <3>6 DEF ServerPlaced
  <2> QED BY <1>2, <2>4, <2>5, <2>6 DEF HostLeadsTo
<1> QED BY <1>1, <1>2

\* A url whose schema the grammar accepts has its server behind it.
LEMMA SchemaLies ==
  ASSUME NEW url \in Seq(UrlByte), NEW connect, connect \/ Absolute(url),
         SchemaOK(url, connect)
  PROVE  ServerLies(url, connect)
<1> DEFINE k == FirstOf(url, {":"}, 0)
           a == ServerFrom(url, connect)
           e == ServerEnd(url, connect)
<1>a. Len(url) \in Nat OBVIOUS
<1>1. k \in Nat
  <2>1. k \in 0..Len(url) BY <1>a, FirstExists
  <2> QED BY <2>1
<1>2. a = IF connect THEN 0 ELSE k + 3 BY DEF ServerFrom
<1>3. ~connect => k + 2 < Len(url) BY DEF SchemaOK
<1>4. a \in Nat /\ a <= Len(url)
  <2> HIDE DEF k, a
  <2>1. CASE connect BY <1>a, <1>2, <2>1
  <2>2. CASE ~connect
    <3>1. a = k + 3 BY <1>2, <2>2
    <3>2. k + 2 < Len(url) BY <1>3, <2>2
    <3> QED BY <1>a, <1>1, <3>1, <3>2
  <2> QED BY <2>1, <2>2
<1>5. e = FirstOf(url, {"/", "?"}, a) BY DEF ServerEnd
<1>6. e \in a..Len(url) BY <1>4, <1>5, FirstExists
<1>7. e \in Nat /\ a <= e /\ e <= Len(url) BY <1>a, <1>4, <1>6
<1> QED BY <1>4, <1>7 DEF ServerLies

\* What a step over a byte of the server does to the fields.
LEMMA HostCounts ==
  ASSUME IInv, HostByte, Fits, Safe', ServerFields,
         NEW t \in HostState \ {"host_dead"}, NEW c \in UrlByte, c = At(buf, p),
         t = ParseHostChar(s, c)
  PROVE  /\ Counted(u.len, u'.len, t) /\ u'.port = u.port
         /\ \A g \in Field :
              /\ u'.off[g] = IF g = FieldOfHost(t) /\ u.len[g] = 0 THEN p ELSE u.off[g]
              /\ g \in u'.set <=> g \in u.set \cup {FieldOfHost(t)}
         /\ \A g \in Field \ ServerField : u'.len[g] = u.len[g]
<1>a. Safe BY DEF IInv
<1>b. /\ u \in URecord /\ u.set \subseteq Field /\ p \in Nat /\ buflen \in Nat
      /\ Len(buf) \in Nat
      /\ \A f \in Field : u.off[f] \in Nat /\ u.len[f] \in Nat
  BY <1>a, SafeFacts
<1>1. /\ pc = "host" /\ p < buflen /\ u' = HostField(t, p)
      /\ s \in HostState \ {"host_dead"} /\ buflen <= Len(buf)
      /\ \A f \in ServerField : u.off[f] + u.len[f] <= p
  BY <1>a DEF HostByte, Safe, StatesFit, InsideUrl, EndOf
<1>2. HostLaid /\ Len(buf) < Width BY <1>1 DEF IInv, Laid, Fits
<1>3. p + 1 < Width BY <1>b, <1>1, <1>2, UrlAssumption
<1>4. CASE FieldOfHost(t) = NoField
  <2>1. u' = u BY <1>a, <1>1, <1>4, HostFieldIs
  <2>2. NoField \notin Field BY DEF NoField, Field
  <2> QED BY <1>b, <1>4, <2>1, <2>2 DEF Counted
<1>5. CASE FieldOfHost(t) # NoField
  <2>1. PICK f \in ServerField : f = FieldOfHost(t)
    BY <1>5 DEF FieldOfHost, ServerField
  <2>2. f \in Field BY DEF ServerField, Field
  <2>3. u' = IF GoesOn(t) THEN More(u, f) ELSE Begin(u, f, p)
    BY <1>a, <1>1, <1>5, <2>1, HostFieldIs
  <2>4. /\ f = "HOST" <=> t \in {"host", "host_v6", "host_v6_zone_start", "host_v6_zone"}
        /\ f = "PORT" <=> t = "host_port"
        /\ f = "USERINFO" <=> t = "userinfo"
    BY <2>1 DEF FieldOfHost, NoField
  <2>5. /\ t = "host" => s \in {"host_start", "host"}
        /\ t = "host_v6" => s \in {"host_v6_start", "host_v6"}
        /\ t = "host_v6_zone_start" => s = "host_v6"
        /\ t = "host_v6_zone" => s \in {"host_v6_zone_start", "host_v6_zone"}
        /\ t = "userinfo" => s \in {"userinfo_start", "userinfo"}
        /\ t = "host_port" => s \in {"host_port_start", "host_port"}
    BY <1>1, HostCharStep
  <2>6. GoesOn(t) => f \in u.set /\ u.len[f] > 0
    <3>1. GoesOn(t) => f \in u.set
      BY <1>a, <1>1, <1>2, <2>4, <2>5 DEF HostLaid, GoesOn, Safe, StatesFit, ServerField
    <3>2. GoesOn(t) /\ f = "HOST" => s \notin HostAhead
      BY <2>4, <2>5 DEF GoesOn, HostAhead
    <3> QED BY <1>2, <3>1, <3>2 DEF HostLaid
  <2>7. ~GoesOn(t) => u.len[f] = 0
    <3>1. CASE f = "HOST"
      <4>1. ~GoesOn(t) => s \in HostAhead BY <2>4, <2>5, <3>1 DEF GoesOn, HostAhead
      <4> QED BY <1>a, <1>1, <3>1, <4>1 DEF Safe, StatesFit
    <3>2. CASE f \in {"PORT", "USERINFO"}
      <4>1. ~GoesOn(t) => f \notin u.set
        BY <1>2, <2>4, <2>5, <3>2 DEF GoesOn, HostLaid
      <4>2. f \in u.set <=> u.len[f] > 0 BY <3>2 DEF ServerFields
      <4>3. u.len[f] \in Nat BY <1>b, <2>2
      <4> QED BY <4>1, <4>2, <4>3
    <3> QED BY <3>1, <3>2 DEF ServerField
  <2>8. /\ u'.set = u.set \cup {f} /\ u'.port = u.port
        /\ u'.len[f] = u.len[f] + 1
        /\ u'.off[f] = IF u.len[f] = 0 THEN p ELSE u.off[f]
        /\ \A g \in Field \ {f} : u'.off[g] = u.off[g] /\ u'.len[g] = u.len[g]
    <3>1. CASE GoesOn(t)
      <4>1. u' = More(u, f) /\ f \in u.set /\ u.len[f] > 0 BY <2>3, <2>6, <3>1
      <4>2. u.off[f] \in Nat /\ u.len[f] \in Nat /\ u.off[f] + u.len[f] <= p
        BY <1>b, <1>1, <2>2
      <4>3. u.len[f] + 1 < Width BY <1>b, <1>3, <4>2, UrlAssumption
      <4> QED BY <1>b, <2>2, <4>1, <4>2, <4>3, MoreType
    <3>2. CASE ~GoesOn(t)
      <4>1. u' = Begin(u, f, p) /\ u.len[f] = 0 BY <2>3, <2>7, <3>2
      <4>2. p < Width BY <1>b, <1>3, UrlAssumption
      <4>3. u \in URecord /\ p \in Nat BY <1>b
      <4>4. /\ u'.set = u.set \cup {f} /\ u'.port = u.port
            /\ u'.len[f] = 1 /\ u'.off[f] = p
            /\ \A g \in Field \ {f} : u'.off[g] = u.off[g] /\ u'.len[g] = u.len[g]
        BY <2>2, <4>1, <4>2, <4>3, BeginType
      <4> QED BY <4>1, <4>4
    <3> QED BY <3>1, <3>2
  <2>9. Counted(u.len, u'.len, t) BY <1>5, <2>1, <2>8 DEF Counted, OneMore
  <2>10. ASSUME NEW g \in Field
         PROVE  /\ u'.off[g] = IF g = FieldOfHost(t) /\ u.len[g] = 0 THEN p ELSE u.off[g]
                /\ g \in u'.set <=> g \in u.set \cup {FieldOfHost(t)}
    BY <2>1, <2>8
  <2> QED BY <2>1, <2>8, <2>9, <2>10
<1> QED BY <1>4, <1>5

\* A byte of the server.
LEMMA HostByteParsed ==
  ASSUME IInv, Parsed, HostByte, Safe' PROVE Parsed'
<1>a. Safe BY DEF IInv
<1>b. /\ buf \in Seq(UrlByte) /\ p \in Nat /\ buflen \in Nat /\ Len(buf) \in Nat
      /\ u.len \in Lengths
  BY <1>a, SafeFacts, UrlLengths
<1>1. /\ pc = "host" /\ p < buflen /\ buflen <= Len(buf)
      /\ UNCHANGED <<buf, is_connect, found_at, buflen, v>>
      /\ s \in HostState \ {"host_dead"}
  BY <1>a DEF HostByte, Safe, StatesFit, InsideUrl
<1>2. SUFFICES ASSUME Fits' PROVE Parsed' BY DEF Parsed
<1>3. Fits BY <1>1, <1>2 DEF Fits
<1>4. ServerFields /\ u.port = 0 /\ v = 0 BY <1>1, <1>3 DEF Parsed
<1> DEFINE a == ServerFrom(buf, is_connect)
           e == ServerEnd(buf, is_connect)
<1>5. /\ SchemaOK(buf, is_connect) /\ RestOK(buf, is_connect)
      /\ is_connect \/ Absolute(buf)
      /\ found_at <=> AtSign(buf, is_connect) # {}
      /\ ServerSoFar(s, buf, found_at, u.len, a, p)
      /\ ServerPlaced(buf, found_at, u.off, u.len, a)
  BY <1>4 DEF ServerFields
<1>6. buflen = e BY <1>4 DEF ServerFields
<1>7. ServerLies(buf, is_connect) BY <1>b, <1>5, SchemaLies
<1>8. a \in Nat BY <1>7 DEF ServerLies
<1>9. PICK c \in UrlByte : c = At(buf, p)
  <2>1. p + 1 \in 1..Len(buf) BY <1>b, <1>1
  <2> QED BY <1>a, <2>1, SafeFacts DEF At
<1>10. CASE ParseHostChar(s, c) = "host_dead"
  <2>1. pc' = "done" /\ ret' = 1 BY <1>9, <1>10 DEF HostByte, Returns
  <2>2. HostLeadsNowhere(s, At(buf, p)) BY <1>1, <1>9, <1>10, HostCharDead
  <2>3. p <= e /\ p # e BY <1>b, <1>1, <1>6
  <2>4. IF p = e THEN s \in HostEndsNowhere ELSE HostLeadsNowhere(s, At(buf, p))
    BY <2>2, <2>3
  <2>5. found_at <=> AtSign(buf, is_connect) # {} BY <1>5
  <2>6. ServerSoFar(s, buf, found_at, u.len, ServerFrom(buf, is_connect), p) BY <1>5
  <2>7. ~ServerOK(buf, is_connect, MaxPort)
    BY <1>b, <1>1, <1>7, <2>3, <2>4, <2>5, <2>6, HostDead
  <2>8. ~WellFormed(buf, is_connect, MaxPort) BY <2>7 DEF WellFormed
  <2>9. ~WellFormed(buf', is_connect', MaxPort) BY <1>1, <2>8, SameUrl
  <2> QED BY <2>1, <2>9 DEF Parsed, ResultIsTheGrammar
<1>11. CASE ParseHostChar(s, c) # "host_dead"
  <2>1. PICK t \in HostState \ {"host_dead"} : t = ParseHostChar(s, c)
    BY <1>1, <1>11, HostCharStep
  <2>2. s' = t /\ p' = p + 1 /\ pc' = "host" BY <1>1, <1>9, <1>11, <2>1 DEF HostByte
  <2>3. /\ Counted(u.len, u'.len, t) /\ u'.port = u.port
        /\ \A g \in Field :
             /\ u'.off[g] = IF g = FieldOfHost(t) /\ u.len[g] = 0 THEN p ELSE u.off[g]
             /\ g \in u'.set <=> g \in u.set \cup {FieldOfHost(t)}
        /\ \A g \in Field \ ServerField : u'.len[g] = u.len[g]
    BY <1>3, <1>4, <1>9, <2>1, HostCounts
  <2>4. HostLeadsTo(s, c, t) BY <1>1, <2>1, HostCharTo
  <2>5. u'.len \in Lengths BY UrlAssumption DEF Safe, TypeOK, Lengths
  <2>6. ServerSoFar(t, buf, found_at, u'.len, a, p + 1)
    BY <1>b, <1>5, <1>8, <1>9, <2>3, <2>4, <2>5, ServerSoFarStep
  <2>7. ServerPlaced(buf, found_at, u'.off, u'.len, a)
    <3>1. \A g \in Field :
            u'.off[g] = IF g = FieldOfHost(t) /\ u.len[g] = 0 THEN p ELSE u.off[g]
      BY <2>3
    <3> QED BY <1>b, <1>5, <1>8, <1>9, <2>3, <2>4, <2>5, <3>1, ServerPlacedStep
  <2>8. FieldOfHost(t) \in ServerField \cup {NoField}
        /\ (FieldOfHost(t) = NoField => u'.len = u.len)
        /\ (FieldOfHost(t) # NoField => OneMore(u.len, u'.len, FieldOfHost(t)))
    BY <2>3 DEF FieldOfHost, ServerField, Counted
  <2>9. ASSUME NEW f \in OtherFields
        PROVE  /\ f \in Field \ ServerField /\ u'.len[f] = u.len[f]
               /\ u'.off[f] = u.off[f] /\ (f \in u'.set <=> f \in u.set)
    <3>1. f \in Field \ ServerField /\ f # NoField
      BY DEF OtherFields, ServerField, Field, NoField
    <3>2. f # FieldOfHost(t) BY <2>8, <3>1
    <3> QED BY <2>3, <3>1, <3>2
  <2>10. ASSUME NEW f \in {"USERINFO", "PORT"} PROVE f \in u'.set <=> u'.len[f] > 0
    <3>1. f \in Field /\ (f \in u.set <=> u.len[f] > 0) BY <1>4 DEF ServerFields, Field
    <3>2. f \in u'.set <=> f \in u.set \cup {FieldOfHost(t)} BY <2>3, <3>1
    <3>3. f # NoField BY DEF NoField
    <3>4. CASE f = FieldOfHost(t)
      <4>1. u'.len[f] = u.len[f] + 1 BY <2>8, <3>3, <3>4 DEF OneMore
      <4>2. u.len[f] \in Nat BY <1>b, <3>1 DEF Lengths
      <4> QED BY <3>2, <3>4, <4>1, <4>2
    <3>5. CASE f # FieldOfHost(t)
      <4>1. u'.len[f] = u.len[f]
        <5>1. CASE FieldOfHost(t) = NoField BY <2>8, <5>1
        <5>2. CASE FieldOfHost(t) # NoField BY <2>8, <3>1, <3>5, <5>2 DEF OneMore
        <5> QED BY <5>1, <5>2
      <4> QED BY <3>1, <3>2, <3>5, <4>1
    <3> QED BY <3>4, <3>5
  <2>11. buf' = buf /\ is_connect' = is_connect /\ found_at' = found_at
    BY <1>1
  <2>12. ServerFields'
    <3>1. PartsAre(OtherFields)'
      <4>1. Parts(buf', is_connect') = Parts(buf, is_connect) BY <2>11, SameUrl
      <4>2. PartsAre(OtherFields) BY <1>4 DEF ServerFields
      <4>3. ASSUME NEW f \in OtherFields
            PROVE  Parts(buf, is_connect)[f] = IF f \in u'.set THEN FieldPlaces(f)' ELSE {}
        <5>1. FieldPlaces(f)' = FieldPlaces(f) BY <2>9 DEF FieldPlaces
        <5> QED BY <2>9, <4>2, <5>1 DEF PartsAre
      <4>4. OtherFields' = OtherFields OBVIOUS
      <4> QED BY <4>1, <4>3, <4>4 DEF PartsAre
    <3>2. (SchemaOK(buf, is_connect) /\ RestOK(buf, is_connect)
            /\ (is_connect \/ Absolute(buf)))'
      BY <1>5, <2>11, Zenon
    <3>3. (found_at <=> AtSign(buf, is_connect) # {})' BY <1>5, <2>11, Zenon
    <3>4. ServerFrom(buf, is_connect)' = a /\ ServerEnd(buf, is_connect)' = e
      BY <2>11, Zenon
    <3>5. ServerSoFar(s, buf, found_at, u.len, ServerFrom(buf, is_connect), p)'
      BY <2>2, <2>6, <2>11, <3>4, Zenon
    <3>6. ServerPlaced(buf, found_at, u.off, u.len, ServerFrom(buf, is_connect))'
      BY <2>7, <2>11, <3>4, Zenon
    <3>7. (\A f \in OtherFields : f \in u.set <=> u.len[f] > 0)'
      <4>1. \A f \in OtherFields : f \in u.set <=> u.len[f] > 0
        BY <1>4 DEF ServerFields
      <4> QED BY <2>9, <4>1
    <3>8. (\A f \in {"USERINFO", "PORT"} : f \in u.set <=> u.len[f] > 0)'
      BY <2>10
    <3>9. (buflen = ServerEnd(buf, is_connect))' BY <1>1, <1>6, <3>4
    <3> QED BY <3>1, <3>2, <3>3, <3>5, <3>6, <3>7, <3>8, <3>9 DEF ServerFields
  <2>13. u'.port = 0 /\ v' = 0 BY <1>1, <1>4, <2>3
  <2> QED BY <2>2, <2>12, <2>13 DEF Parsed, ResultIsTheGrammar
<1> QED BY <1>10, <1>11

\* The end of the loop over the server.
LEMMA HostLoopEndParsed ==
  ASSUME IInv, Parsed, HostLoopEnd PROVE Parsed'
<1>a. Safe BY DEF IInv
<1>b. /\ buf \in Seq(UrlByte) /\ p \in Nat /\ buflen \in Nat /\ Len(buf) \in Nat
      /\ u.len \in Lengths /\ u.off \in Lengths /\ MaxPort \in Nat
  BY <1>a, SafeFacts, UrlLengths, UrlAssumption
<1>1. /\ pc = "host" /\ p >= buflen
      /\ UNCHANGED <<buf, is_connect, s, u, found_at, v>>
      /\ s \in HostState \ {"host_dead"} /\ "HOST" \in u.set
  BY <1>a DEF HostLoopEnd, Safe, StatesFit
<1>2. SUFFICES ASSUME Fits' PROVE Parsed' BY DEF Parsed
<1>3. Fits BY <1>1, <1>2 DEF Fits
<1>4. ServerFields /\ u.port = 0 /\ v = 0 BY <1>1, <1>3 DEF Parsed
<1>5. /\ SchemaOK(buf, is_connect) /\ RestOK(buf, is_connect)
      /\ is_connect \/ Absolute(buf)
      /\ found_at <=> AtSign(buf, is_connect) # {}
      /\ ServerSoFar(s, buf, found_at, u.len, ServerFrom(buf, is_connect), p)
      /\ ServerPlaced(buf, found_at, u.off, u.len, ServerFrom(buf, is_connect))
  BY <1>4 DEF ServerFields
<1>6. ServerLies(buf, is_connect) BY <1>b, <1>5, SchemaLies
<1>7. HostLaid BY <1>1, <1>3 DEF IInv, Laid
<1>8. p = ServerEnd(buf, is_connect)
  <2>1. p <= buflen BY <1>7 DEF HostLaid
  <2>2. buflen = ServerEnd(buf, is_connect) BY <1>4 DEF ServerFields
  <2> QED BY <1>b, <1>1, <2>1, <2>2
<1>9. found_at <=> AtSign(buf, is_connect) # {} BY <1>5
<1>10. ServerSoFar(s, buf, found_at, u.len, ServerFrom(buf, is_connect), p) BY <1>5
<1>11. CASE s \in HostEndsNowhere
  <2>1. pc' = "done" /\ ret' = 1 BY <1>11 DEF HostLoopEnd, Returns
  <2>2. p <= ServerEnd(buf, is_connect) BY <1>b, <1>8
  <2>3. IF p = ServerEnd(buf, is_connect) THEN s \in HostEndsNowhere
        ELSE HostLeadsNowhere(s, At(buf, p))
    BY <1>8, <1>11
  <2>4. ~ServerOK(buf, is_connect, MaxPort)
    BY <1>b, <1>1, <1>6, <1>9, <1>10, <2>2, <2>3, HostDead
  <2>5. ~WellFormed(buf, is_connect, MaxPort) BY <2>4 DEF WellFormed
  <2>6. ~WellFormed(buf', is_connect', MaxPort) BY <1>1, <2>5, SameUrl
  <2> QED BY <2>1, <2>6 DEF Parsed, ResultIsTheGrammar
<1>12. CASE s \notin HostEndsNowhere
  <2>1. ToPort(u) BY <1>12 DEF HostLoopEnd
  <2>2. s \in ServerEnds BY <1>1, <1>12 DEF HostEndsNowhere, ServerEnds, HostState
  <2>3. ServerPlaced(buf, found_at, u.off, u.len, ServerFrom(buf, is_connect))
    BY <1>5
  <2>4. /\ ServerOK(buf, is_connect, MaxPort) <=>
             PortValue(buf, Parts(buf, is_connect)["PORT"]) <= MaxPort
        /\ \A f \in ServerField : Parts(buf, is_connect)[f] = PlacesOf(u.off, u.len, f)
    BY <1>b, <1>6, <1>8, <1>9, <1>10, <2>2, <2>3, HostIsGrammar
  <2>5. ASSUME NEW f \in Field PROVE f \in u.set <=> u.len[f] > 0
    <3>1. CASE f \in OtherFields BY <1>4, <3>1 DEF ServerFields
    <3>2. CASE f \in {"USERINFO", "PORT"} BY <1>4, <3>2 DEF ServerFields
    <3>3. CASE f = "HOST"
      <4>1. s \notin HostAhead BY <2>2 DEF ServerEnds, HostAhead
      <4>2. u.len["HOST"] > 0 BY <1>1, <1>7, <4>1 DEF HostLaid
      <4> QED BY <1>1, <3>3, <4>2
    <3> QED BY <3>1, <3>2, <3>3 DEF OtherFields, ServerField
  <2>6. PartsAre(Field)
    <3>1. ASSUME NEW f \in Field
          PROVE  Parts(buf, is_connect)[f] = IF f \in u.set THEN FieldPlaces(f) ELSE {}
      <4>1. CASE f \in ServerField
        <5>1. Parts(buf, is_connect)[f] = PlacesOf(u.off, u.len, f) BY <2>4, <4>1
        <5> QED BY <2>5, <5>1 DEF PlacesOf, FieldPlaces
      <4>2. CASE f \notin ServerField
        <5>1. f \in OtherFields BY <4>2 DEF OtherFields
        <5>2. PartsAre(OtherFields) BY <1>4 DEF ServerFields
        <5> QED BY <5>1, <5>2 DEF PartsAre
      <4> QED BY <4>1, <4>2
    <3> QED BY <3>1 DEF PartsAre
  <2>7. ServerOK(buf, is_connect, MaxPort) <=>
          PortValue(buf, Parts(buf, is_connect)["PORT"]) <= MaxPort
    BY <2>4
  <2> QED BY <1>a, <1>1, <1>4, <1>5, <2>1, <2>5, <2>6, <2>7, ToPortParsed
<1> QED BY <1>11, <1>12

\* A digit of the port: the value only grows, so that a port that is too large
\* when the loop stops is too large as a whole.
LEMMA PortByteParsed ==
  ASSUME IInv, Parsed, PortByte PROVE Parsed'
<1>a. Safe BY DEF IInv
<1> DEFINE first == u.off["PORT"]
           last == first + u.len["PORT"] - 1
<1>b. /\ buf \in Seq(UrlByte) /\ p \in Nat /\ buflen \in Nat /\ Len(buf) \in Nat
      /\ first \in Nat /\ u.len["PORT"] \in Nat /\ v \in Nat /\ MaxPort \in Nat
  BY <1>a, SafeFacts, UrlAssumption DEF Field
<1>1. /\ pc = "port" /\ p < buflen /\ UNCHANGED <<buf, is_connect, u>>
  BY DEF PortByte
<1>2. SUFFICES ASSUME Fits' PROVE Parsed' BY DEF Parsed
<1>3. Fits BY <1>1, <1>2 DEF Fits
<1>4. PortFields /\ u.port = 0 BY <1>1, <1>3 DEF Parsed
<1>5. /\ first <= p /\ buflen = first + u.len["PORT"] /\ "PORT" \in u.set
      /\ \A i \in first..last : At(buf, i) \in Num
  BY <1>1, <1>3 DEF IInv, Laid, PortIsDigits, FieldPlaces, EndOf
<1>6. Parts(buf, is_connect)["PORT"] = first..last
  BY <1>4, <1>5 DEF PortFields, PartsAre, FieldPlaces, Field
<1> HIDE DEF first
<1>7. p <= last /\ last \in Int /\ p - 1 \in Int BY <1>b, <1>1, <1>5
<1> HIDE DEF last
<1>8. At(buf, p) \in Num BY <1>b, <1>5, <1>7
<1>9. v = PortValue(buf, first..(p - 1)) BY <1>4 DEF PortFields, first
<1> DEFINE w == v * 10 + MinusZero[At(buf, p)]
<1>10. PortValue(buf, first..p) = w
  <2>1. PortValue(buf, first..(p - 1)) \in Int BY <1>b, <1>9
  <2> QED BY <1>b, <1>5, <1>8, <1>9, <2>1, PortMore
<1>11. w \in Nat
  <2>1. MinusZero[At(buf, p)] \in 0..9 BY <1>8, DigitWorth
  <2> QED BY <1>b, <2>1
<1>12. PortValue(buf, first..p) <= PortValue(buf, first..last)
       /\ PortValue(buf, first..last) \in Nat
  <2>1. first - 1 <= p BY <1>b, <1>5
  <2>2. first - 1 <= last BY <1>b, <1>5, <1>7
  <2>3. last <= last BY <1>7
  <2>4. PortValue(buf, first..p) <= PortValue(buf, first..last)
    BY <1>b, <1>5, <1>7, <2>1, PortGrows
  <2>5. PortValue(buf, first..last) \in Nat
    BY <1>b, <1>5, <1>7, <2>2, <2>3, PortGrows
  <2> QED BY <2>4, <2>5
<1>13. CASE w < 0 \/ w > MaxPort
  <2>1. pc' = "done" /\ ret' = 1 BY <1>13 DEF PortByte, Returns
  <2>2. ~(PortValue(buf, first..last) <= MaxPort)
    <3> HIDE DEF w
    <3> QED BY <1>b, <1>10, <1>11, <1>12, <1>13
  <2>3. ~WellFormed(buf, is_connect, MaxPort) BY <1>4, <1>6, <2>2 DEF PortFields
  <2>4. ~WellFormed(buf', is_connect', MaxPort) BY <1>1, <2>3, SameUrl
  <2> QED BY <2>1, <2>4 DEF Parsed, ResultIsTheGrammar
<1>14. CASE ~(w < 0 \/ w > MaxPort)
  <2>1. pc' = "port" /\ p' = p + 1 /\ v' = w BY <1>1, <1>14 DEF PortByte
  <2>2. v' = PortValue(buf', u'.off["PORT"]..(p' - 1))
    <3>1. u'.off["PORT"] = first /\ p' - 1 = p BY <1>1, <1>b, <2>1 DEF first
    <3>2. PortValue(buf', first..p) = PortValue(buf, first..p) BY <1>1, SameUrl
    <3> QED BY <1>10, <2>1, <3>1, <3>2
  <2>3. PartsAre(Field)'
    <3>1. Parts(buf', is_connect') = Parts(buf, is_connect) BY <1>1, SameUrl
    <3>2. PartsAre(Field) BY <1>4 DEF PortFields
    <3> QED BY <1>1, <3>1, <3>2 DEF PartsAre, FieldPlaces
  <2>4. (WellFormed(buf, is_connect, MaxPort) <=>
           PortValue(buf, Parts(buf, is_connect)["PORT"]) <= MaxPort)'
    <3>1. WellFormed(buf, is_connect, MaxPort) <=>
            PortValue(buf, Parts(buf, is_connect)["PORT"]) <= MaxPort
      BY <1>4 DEF PortFields
    <3>2. PortValue(buf', Parts(buf', is_connect')["PORT"])
            = PortValue(buf, Parts(buf, is_connect)["PORT"])
      BY <1>1, SameUrl
    <3> QED BY <1>1, <3>1, <3>2, SameUrl
  <2>5. PortFields' BY <2>2, <2>3, <2>4 DEF PortFields
  <2>6. u'.port = 0 BY <1>1, <1>4
  <2> QED BY <2>1, <2>5, <2>6 DEF Parsed, ResultIsTheGrammar
<1> QED BY <1>13, <1>14

\* The end of the port.
LEMMA PortEndParsed ==
  ASSUME IInv, Parsed, PortEnd PROVE Parsed'
<1>a. Safe BY DEF IInv
<1>1. /\ pc = "port" /\ p = buflen /\ pc' = "done" /\ ret' = 0
      /\ u' = [u EXCEPT !.port = v] /\ UNCHANGED <<buf, is_connect>>
  BY DEF PortEnd, Returns
<1>2. SUFFICES ASSUME Fits' PROVE Parsed' BY DEF Parsed
<1>3. Fits BY <1>1, <1>2 DEF Fits
<1>4. PortFields BY <1>1, <1>3 DEF Parsed
<1>5. u'.set = u.set /\ u'.off = u.off /\ u'.len = u.len /\ u'.port = v
  BY <1>a, <1>1, SafeFacts DEF URecord
<1> DEFINE places == Parts(buf, is_connect)["PORT"]
<1>6. PortValue(buf, places) = v
  <2>1. buflen = u.off["PORT"] + u.len["PORT"] /\ "PORT" \in u.set
    BY <1>1, <1>3 DEF IInv, Laid, EndOf
  <2>2. places = u.off["PORT"]..(u.off["PORT"] + u.len["PORT"] - 1)
    BY <1>4, <2>1 DEF PortFields, PartsAre, FieldPlaces, Field
  <2>3. p = u.off["PORT"] + u.len["PORT"] BY <1>1, <2>1
  <2>4. places = u.off["PORT"]..(p - 1)
    <3>1. p \in Nat /\ u.off["PORT"] \in Nat /\ u.len["PORT"] \in Nat
      BY <1>a, SafeFacts DEF Field
    <3>2. p - 1 = u.off["PORT"] + u.len["PORT"] - 1 BY <2>3, <3>1
    <3> QED BY <2>2, <3>2
  <2>5. v = PortValue(buf, u.off["PORT"]..(p - 1)) BY <1>4 DEF PortFields
  <2> QED BY <2>4, <2>5
<1>7. WellFormed(buf, is_connect, MaxPort)
  <2>1. v \in 0..MaxPort BY <1>a, SafeFacts
  <2>2. v <= MaxPort BY <2>1
  <2>3. PortValue(buf, places) <= MaxPort BY <1>6, <2>2
  <2> QED BY <1>4, <2>3 DEF PortFields
<1>8. WellFormed(buf', is_connect', MaxPort) BY <1>1, <1>7, SameUrl
<1>9. Parts(buf', is_connect') = Parts(buf, is_connect) BY <1>1, SameUrl
<1>10. PartsAre(Field)'
  <2>1. PartsAre(Field) BY <1>4 DEF PortFields
  <2> QED BY <1>5, <1>9, <2>1 DEF PartsAre, FieldPlaces
<1>11. u'.port = PortValue(buf', Parts(buf', is_connect')["PORT"])
  <2>1. PortValue(buf', places) = v BY <1>1, <1>6, SameUrl
  <2> QED BY <1>5, <1>9, <2>1
<1> QED BY <1>1, <1>8, <1>10, <1>11 DEF Parsed, ResultIsTheGrammar, PartsAre

\* A step that changes nothing.
LEMMA StutterParsed ==
  ASSUME Parsed, UNCHANGED vars PROVE Parsed'
<1>1. /\ buf' = buf /\ is_connect' = is_connect /\ pc' = pc /\ p' = p /\ s' = s
      /\ u' = u /\ found_at' = found_at /\ buflen' = buflen /\ v' = v /\ ret' = ret
  BY DEF vars
<1>2. Fits' <=> Fits BY <1>1 DEF Fits
<1>3. FieldsRead' <=> FieldsRead BY <1>1, Zenon DEF FieldsRead
<1>4. ServerFields' <=> ServerFields
  BY <1>1, Zenon DEF ServerFields, PartsAre, FieldPlaces
<1>5. PortFields' <=> PortFields BY <1>1, Zenon DEF PortFields, PartsAre, FieldPlaces
<1>6. ResultIsTheGrammar' <=> ResultIsTheGrammar
  BY <1>1, Zenon DEF ResultIsTheGrammar, FieldPlaces, Fits
<1> QED BY <1>1, <1>2, <1>3, <1>4, <1>5, <1>6, Zenon DEF Parsed

\* Every action keeps the account.
LEMMA NextParsed ==
  ASSUME IInv, Parsed, [Next]_vars, Safe' PROVE Parsed'
<1>1. Fits' => Fits BY BufGrows DEF IInv
<1>2. CASE \E c \in UrlByte : FieldsDead(c) \/ FieldsDelimiter(c) \/ FieldsByte(c)
  <2>1. PICK c \in UrlByte : FieldsDead(c) \/ FieldsDelimiter(c) \/ FieldsByte(c)
    BY <1>2
  <2>2. CASE FieldsDead(c) BY <2>2, FieldsDeadParsed
  <2>3. CASE FieldsDelimiter(c) BY <1>1, <2>3, FieldsDelimiterParsed
  <2>4. CASE FieldsByte(c) BY <1>1, <2>4, FieldsByteParsed
  <2> QED BY <2>1, <2>2, <2>3, <2>4
<1>3. CASE FieldsEnd BY <1>3, FieldsEndParsed
<1>4. CASE HostByte BY <1>4, HostByteParsed
<1>5. CASE HostLoopEnd BY <1>5, HostLoopEndParsed
<1>6. CASE PortByte BY <1>6, PortByteParsed
<1>7. CASE PortEnd BY <1>7, PortEndParsed
<1>8. CASE UNCHANGED vars BY <1>8, StutterParsed
<1> QED BY <1>2, <1>3, <1>4, <1>5, <1>6, <1>7, <1>8 DEF Next, Done

-----------------------------------------------------------------------------
(* The theorem.                                                            *)

\* The call accepts just the urls of the grammar, of any length that offsets
\* can hold, and its fields and port are the parts that the grammar says.
THEOREM ResultCorrectness == Spec => []ResultIsTheGrammar
<1>1. Init => IInv /\ Parsed BY SafeInit, LaidInit, ParsedInit DEF IInv
<1>2. IInv /\ Parsed /\ [Next]_vars => (IInv /\ Parsed)'
  BY NextSafe, NextLaid, NextParsed DEF IInv
<1>3. Parsed => ResultIsTheGrammar BY DEF Parsed, ResultIsTheGrammar
<1> QED BY <1>1, <1>2, <1>3, PTL DEF Spec
=============================================================================
