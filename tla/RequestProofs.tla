----------------------------- MODULE RequestProofs -----------------------------
(***************************************************************************)
(* RequestReceiver for whatever clients send and however it is cut: that   *)
(* it runs HttpParser, whose theorems therefore hold of it, that no        *)
(* callback answers 1 (inductive once the handler is known to have its     *)
(* fields), that every byte is collected once, that the url is taken in as *)
(* RequestIntake says, and that names survive cuts.                        *)
(*                                                                         *)
(* That bytes are collected once rests on one order: what the callbacks    *)
(* were given lies before a place of the stream, what is marked behind it, *)
(* and a step only goes forward, for which the length of a body has to be  *)
(* exact.  The url rests on how far the request line has been read         *)
(* (LineRead): up to the first blank, to the end of the blanks, or into    *)
(* the url, which then is what was handed over with what is marked.  The   *)
(* headers rest on the same for each of their lines (LinesRead).           *)
(***************************************************************************)
EXTENDS RequestReceiver, HttpProofs, SequenceTheorems, WellFoundedInduction

HandlerField == {"req_url", "cur_header_field", "cur_header_value", "last_was_value",
                 "req_headers", "req_ready", "request_full"}

Calm(h) == DOMAIN h = HandlerField /\ ~AnswersOne(h)

LEMMA UrlCallbackCalm ==
  ASSUME NEW h, NEW at, Calm(h) PROVE Calm(UrlCallback(h, at))
BY DEF Calm, AnswersOne, UrlCallback, HandlerField

\* A name after a value forgets the value.
LEMMA HeaderFieldCallbackCalm ==
  ASSUME NEW h, NEW at, Calm(h) PROVE Calm(HeaderFieldCallback(h, at))
BY DEF Calm, AnswersOne, HeaderFieldCallback, HandlerField

LEMMA HeaderValueCallbackCalm ==
  ASSUME NEW h, NEW at, Calm(h) PROVE Calm(HeaderValueCallback(h, at))
BY DEF Calm, AnswersOne, HeaderValueCallback, HandlerField

LEMMA MessageCompleteCalm ==
  ASSUME NEW h, Calm(h) PROVE Calm(MessageComplete(h))
BY DEF Calm, AnswersOne, MessageComplete, HandlerField

LEMMA OnDataCalm ==
  ASSUME NEW h, NEW m, NEW at, Calm(h) PROVE Calm(OnData(h, m, at))
<1>1. CASE m = "url" BY <1>1, UrlCallbackCalm DEF OnData
<1>2. CASE m = "header_field" BY <1>2, HeaderFieldCallbackCalm DEF OnData
<1>3. CASE m = "header_value" BY <1>3, HeaderValueCallbackCalm DEF OnData
<1>4. CASE m \notin {"url", "header_field", "header_value"} BY <1>4 DEF OnData
<1> QED BY <1>1, <1>2, <1>3, <1>4

LEMMA OnMarksCalm ==
  ASSUME NEW h, NEW before, NEW after, Calm(h) PROVE Calm(OnMarks(h, before, after))
BY OnDataCalm DEF OnMarks

LEMMA CalledCalm ==
  ASSUME Calm(sh) PROVE Calm(Called)
<1> DEFINE h == IF EmptyValue THEN HeaderValueCallback(sh, <<>>)
                ELSE OnMarks(sh, marks, marks')
<1>1. Calm(h) BY HeaderValueCallbackCalm, OnMarksCalm
<1>2. Called = h \/ Called = MessageComplete(h) BY DEF Called
<1> QED BY <1>1, <1>2, MessageCompleteCalm

LEMMA AcceptsCalm ==
  ASSUME NEW h, NEW upto, Calm(h), Accepts(h, upto) PROVE Calm(sh')
BY DEF Calm, AnswersOne, Accepts, HandlerField

LEMMA InitCalm == ReceiverInit => Calm(sh)
BY DEF ReceiverInit, NewHandler, Calm, AnswersOne, HandlerField

LEMMA NextCalm ==
  ASSUME Calm(sh), [ReceiverNext]_allVars PROVE Calm(sh')
<1>1. CASE Receive BY <1>1 DEF Receive, Calm, AnswersOne
<1>2. CASE MoreData BY <1>2 DEF MoreData, Calm, AnswersOne
<1>3. CASE ReceiveNothing BY <1>3 DEF ReceiveNothing, Calm, AnswersOne
<1>4. CASE DataEnds
  <2>1. Accepts(OnMarks(sh, marks, {}), pos) BY <1>4 DEF DataEnds
  <2> QED BY <2>1, OnMarksCalm, AcceptsCalm
<1>5. CASE Parses
  <2>1. \/ UNCHANGED sh \/ sh' = Called \/ Accepts(Called, pos') BY <1>5 DEF Parses
  <2> QED BY <2>1, CalledCalm, AcceptsCalm
<1>6. CASE Done \/ UNCHANGED allVars
  BY <1>6 DEF Done, allVars, receiverVars, Calm, AnswersOne
<1> QED BY <1>1, <1>2, <1>3, <1>4, <1>5, <1>6 DEF ReceiverNext

\* No header callback ever answers 1, so none stops the parser within a request
\* (SocketHandler.cpp:78 and :91 are never reached).
THEOREM CallbacksNeverStop == ReceiverSpec => []CallbacksAnswerZero
<1>1. ReceiverInit => Calm(sh) BY InitCalm
<1>2. Calm(sh) /\ [ReceiverNext]_allVars => Calm(sh)' BY NextCalm DEF Calm, AnswersOne
<1>3. Calm(sh) => CallbacksAnswerZero BY DEF Calm, CallbacksAnswerZero
<1> QED BY <1>1, <1>2, <1>3, PTL DEF ReceiverSpec

-----------------------------------------------------------------------------
(* Strings of places.                                                      *)

\* s is made of places up to lim, at of places behind lim up to top.
Str(s, lim) == s \in Seq(1..lim) /\ Ascending(s)

Behind(at, lim, top) == at \in Seq((lim + 1)..top) /\ Ascending(at)

LEMMA StrPlaces ==
  ASSUME NEW lim \in Nat, NEW s, Str(s, lim)
  PROVE  /\ Len(s) \in Nat /\ DOMAIN s = 1..Len(s)
         /\ \A i \in DOMAIN s : s[i] \in 1..lim
BY LenProperties DEF Str

LEMMA BehindPlaces ==
  ASSUME NEW lim \in Nat, NEW top \in Nat, NEW at, Behind(at, lim, top)
  PROVE  /\ Len(at) \in Nat /\ DOMAIN at = 1..Len(at)
         /\ \A i \in DOMAIN at : at[i] \in (lim + 1)..top
BY LenProperties DEF Behind

LEMMA EmptyString ==
  ASSUME NEW lim \in Nat, NEW top \in Nat
  PROVE  /\ Str(<<>>, lim) /\ Behind(<<>>, lim, top)
         /\ \A s : Apart(<<>>, s) /\ Apart(s, <<>>)
BY EmptySeq DEF Str, Behind, Ascending, Apart, Took

LEMMA Widened ==
  ASSUME NEW lim \in Nat, NEW top \in Nat, lim <= top, NEW s, Str(s, lim)
  PROVE  Str(s, top)
<1>1. s \in [1..Len(s) -> 1..top] /\ Len(s) \in Nat
  BY LenProperties DEF Str
<1>2. s \in Seq(1..top)
  BY <1>1
<1>3. QED
  BY <1>2 DEF Str

\* What lies behind is apart from what is there.
LEMMA BehindApart ==
  ASSUME NEW lim \in Nat, NEW top \in Nat, NEW s, Str(s, lim), NEW at, Behind(at, lim, top)
  PROVE  Apart(s, at) /\ Apart(at, s)
<1>1. \A i \in DOMAIN s, j \in DOMAIN at : s[i] # at[j]
  BY StrPlaces, BehindPlaces
<1>2. QED
  BY <1>1 DEF Apart, Took

LEMMA BehindStr ==
  ASSUME NEW lim \in Nat, NEW top \in Nat, NEW at, Behind(at, lim, top)
  PROVE  Str(at, top)
<1>1. at \in [1..Len(at) -> 1..top] /\ Len(at) \in Nat
  BY BehindPlaces, LenProperties DEF Behind
<1>2. at \in Seq(1..top)
  BY <1>1
<1>3. QED
  BY <1>2 DEF Behind, Str

\* A string goes on with what lies behind it.
LEMMA Lengthened ==
  ASSUME NEW lim \in Nat, NEW top \in Nat, lim <= top,
         NEW s, Str(s, lim), NEW at, Behind(at, lim, top)
  PROVE  Str(s \o at, top) /\ Took(s \o at) = Took(s) \cup Took(at)
<1>1. /\ s \in Seq(1..top) /\ at \in Seq(1..top)
      /\ Len(s) \in Nat /\ Len(at) \in Nat
      /\ DOMAIN s = 1..Len(s) /\ DOMAIN at = 1..Len(at)
      /\ \A i \in 1..Len(s) : s[i] \in 1..lim
      /\ \A i \in 1..Len(at) : at[i] \in (lim + 1)..top
  BY Widened, BehindStr, StrPlaces, BehindPlaces DEF Str
<1> DEFINE t == s \o at
<1>2. /\ t \in Seq(1..top)
      /\ Len(t) = Len(s) + Len(at)
      /\ \A i \in 1..(Len(s) + Len(at)) : t[i] = IF i <= Len(s) THEN s[i] ELSE at[i - Len(s)]
  BY <1>1, ConcatProperties
<1> HIDE DEF t
<1>3. DOMAIN t = 1..(Len(s) + Len(at))
  BY <1>2, LenProperties
<1>4. /\ \A i \in 1..Len(s) : i \in DOMAIN t /\ t[i] = s[i]
      /\ \A i \in 1..Len(at) : Len(s) + i \in DOMAIN t /\ t[Len(s) + i] = at[i]
      /\ \A i \in DOMAIN t : i \notin 1..Len(s) =>
           i - Len(s) \in 1..Len(at) /\ t[i] = at[i - Len(s)]
  <2>1. \A i \in 1..Len(s) : i \in DOMAIN t /\ t[i] = s[i]
    BY <1>1, <1>2, <1>3
  <2>2. ASSUME NEW i \in 1..Len(at)
        PROVE  Len(s) + i \in DOMAIN t /\ t[Len(s) + i] = at[i]
    <3>1. Len(s) + i \in 1..(Len(s) + Len(at)) /\ ~(Len(s) + i <= Len(s))
      BY <1>1
    <3>2. Len(s) + i - Len(s) = i
      BY <1>1
    <3>3. QED
      BY <1>2, <1>3, <3>1, <3>2
  <2>3. ASSUME NEW i \in DOMAIN t, i \notin 1..Len(s)
        PROVE  i - Len(s) \in 1..Len(at) /\ t[i] = at[i - Len(s)]
    <3>1. i \in 1..(Len(s) + Len(at)) /\ ~(i <= Len(s))
      BY <1>1, <1>3, <2>3
    <3>2. i - Len(s) \in 1..Len(at)
      BY <1>1, <3>1
    <3>3. QED
      BY <1>2, <3>1, <3>2
  <2>4. QED
    BY <2>1, <2>2, <2>3
<1>5. Ascending(t)
  <2>1. SUFFICES ASSUME NEW i \in DOMAIN t, NEW j \in DOMAIN t, i < j
                 PROVE  t[i] < t[j]
    BY DEF Ascending
  <2>2. i \in Nat /\ j \in Nat
    BY <1>1, <1>3
  <2>3. CASE j \in 1..Len(s)
    <3>1. i \in 1..Len(s)
      BY <1>1, <1>3, <2>1, <2>2, <2>3
    <3>2. QED
      BY <1>1, <1>4, <2>1, <2>3, <3>1 DEF Str, Ascending
  <2>4. CASE j \notin 1..Len(s)
    <3>1. j - Len(s) \in 1..Len(at) /\ t[j] = at[j - Len(s)]
      BY <1>4, <2>4
    <3>2. CASE i \in 1..Len(s)
      <4>1. t[i] = s[i] /\ s[i] \in 1..lim
        BY <1>1, <1>4, <3>2
      <4>2. t[j] \in (lim + 1)..top
        BY <1>1, <3>1
      <4>3. QED
        BY <4>1, <4>2
    <3>3. CASE i \notin 1..Len(s)
      <4>1. i - Len(s) \in 1..Len(at) /\ t[i] = at[i - Len(s)]
        BY <1>4, <3>3
      <4>2. i - Len(s) < j - Len(s)
        BY <1>1, <2>1, <2>2
      <4>3. QED
        BY <1>1, <3>1, <4>1, <4>2 DEF Behind, Ascending
    <3>4. QED
      BY <3>2, <3>3
  <2>5. QED
    BY <2>3, <2>4
<1>6. Took(t) = Took(s) \cup Took(at)
  <2>1. \A i \in DOMAIN t : t[i] \in Took(s) \cup Took(at)
    BY <1>1, <1>4 DEF Took
  <2>2. \A x \in Took(s) \cup Took(at) : x \in Took(t)
    BY <1>1, <1>4 DEF Took
  <2>3. QED
    BY <2>1, <2>2 DEF Took
<1>7. QED
  BY <1>2, <1>5, <1>6 DEF Str, t

\* What was apart from a string and from what lies behind is apart from both.
LEMMA StillApart ==
  ASSUME NEW lim \in Nat, NEW top \in Nat, lim <= top,
         NEW s, Str(s, lim), NEW r, Str(r, lim), Apart(s, r),
         NEW at, Behind(at, lim, top)
  PROVE  Apart(s \o at, r) /\ Apart(r, s \o at)
<1>1. Took(s \o at) = Took(s) \cup Took(at)
  BY Lengthened
<1>2. Apart(at, r)
  BY BehindApart
<1>3. QED
  BY <1>1, <1>2 DEF Apart

-----------------------------------------------------------------------------
(* Headers of a handler: each of two strings, all of them apart.           *)

HeadersNeat(headers, lim) ==
  /\ \A g \in headers : Str(g.field, lim) /\ Str(g.value, lim) /\ Apart(g.field, g.value)
  /\ \A g, h \in headers :
       g # h => HeaderApart(g, h.field) /\ HeaderApart(g, h.value)

\* No header has a byte of s.
NoneHas(headers, s) == \A g \in headers : HeaderApart(g, s)

LEMMA HeadersWidened ==
  ASSUME NEW lim \in Nat, NEW top \in Nat, lim <= top,
         NEW headers, HeadersNeat(headers, lim)
  PROVE  HeadersNeat(headers, top)
BY Widened DEF HeadersNeat

LEMMA NoneHasEmpty ==
  ASSUME NEW headers PROVE NoneHas(headers, <<>>)
BY DEF NoneHas, HeaderApart, Apart, Took

LEMMA NoneHasBehind ==
  ASSUME NEW lim \in Nat, NEW top \in Nat, NEW headers, HeadersNeat(headers, lim),
         NEW at, Behind(at, lim, top)
  PROVE  NoneHas(headers, at)
BY BehindApart DEF HeadersNeat, NoneHas, HeaderApart

LEMMA NoneHasLengthened ==
  ASSUME NEW lim \in Nat, NEW top \in Nat, lim <= top,
         NEW headers, HeadersNeat(headers, lim),
         NEW s, Str(s, lim), NoneHas(headers, s), NEW at, Behind(at, lim, top)
  PROVE  NoneHas(headers, s \o at)
<1>1. Took(s \o at) = Took(s) \cup Took(at)
  BY Lengthened
<1>2. NoneHas(headers, at)
  BY NoneHasBehind
<1>3. QED
  BY <1>1, <1>2 DEF NoneHas, HeaderApart, Apart

\* A name and a value that no header has become one.
LEMMA InsertNeat ==
  ASSUME NEW lim \in Nat, NEW headers, HeadersNeat(headers, lim),
         NEW f, NEW v, Str(f, lim), Str(v, lim), Apart(f, v),
         NoneHas(headers, f), NoneHas(headers, v)
  PROVE  /\ HeadersNeat(Insert(headers, f, v), lim)
         /\ \A u : NoneHas(headers, u) /\ Apart(f, u) /\ Apart(v, u) =>
              NoneHas(Insert(headers, f, v), u)
<1> DEFINE new == [field |-> f, value |-> v]
<1>1. new.field = f /\ new.value = v
  OBVIOUS
<1>2. Apart(v, f)
  BY DEF Apart
<1> HIDE DEF new
<1>3. Insert(headers, f, v) = headers \/ Insert(headers, f, v) = headers \cup {new}
  BY DEF Insert, new
<1>4. HeadersNeat(headers \cup {new}, lim)
  <2>1. \A g \in headers : /\ HeaderApart(g, new.field) /\ HeaderApart(g, new.value)
                           /\ HeaderApart(new, g.field) /\ HeaderApart(new, g.value)
    BY <1>1 DEF NoneHas, HeaderApart, Apart
  <2>2. QED
    BY <1>1, <2>1 DEF HeadersNeat
<1>5. \A u : NoneHas(headers, u) /\ Apart(f, u) /\ Apart(v, u) =>
        NoneHas(headers \cup {new}, u)
  BY <1>1 DEF NoneHas, HeaderApart
<1>6. QED
  BY <1>3, <1>4, <1>5

-----------------------------------------------------------------------------
(* The callbacks.                                                          *)

\* All strings of h are made of places up to lim, and are apart.
Neat(h, lim) ==
  /\ Calm(h)
  /\ Str(h.req_url, lim)
  /\ Str(h.cur_header_field, lim)
  /\ Str(h.cur_header_value, lim)
  /\ Apart(h.req_url, h.cur_header_field)
  /\ Apart(h.req_url, h.cur_header_value)
  /\ Apart(h.cur_header_field, h.cur_header_value)
  /\ HeadersNeat(h.req_headers, lim)
  /\ NoneHas(h.req_headers, h.req_url)
  /\ NoneHas(h.req_headers, h.cur_header_field)
  /\ NoneHas(h.req_headers, h.cur_header_value)

\* Only the flags of a handler change.
LEMMA FlagsNeat ==
  ASSUME NEW lim \in Nat, NEW top \in Nat, lim <= top, NEW h, Neat(h, lim),
         NEW g, Calm(g),
         g.req_url = h.req_url, g.cur_header_field = h.cur_header_field,
         g.cur_header_value = h.cur_header_value, g.req_headers = h.req_headers
  PROVE  Neat(g, top)
BY Widened, HeadersWidened DEF Neat

\* The name that is being read goes on.
LEMMA NameNeat ==
  ASSUME NEW lim \in Nat, NEW top \in Nat, lim <= top, NEW h, Neat(h, lim),
         NEW at, Behind(at, lim, top), NEW g, Calm(g),
         g.req_url = h.req_url, g.cur_header_field = h.cur_header_field \o at,
         g.cur_header_value = h.cur_header_value, g.req_headers = h.req_headers
  PROVE  Neat(g, top)
<1>1. /\ Str(g.req_url, top) /\ Str(g.cur_header_field, top) /\ Str(g.cur_header_value, top)
      /\ HeadersNeat(g.req_headers, top)
  BY Widened, HeadersWidened, Lengthened DEF Neat
<1>2. /\ Apart(g.req_url, g.cur_header_field) /\ Apart(g.req_url, g.cur_header_value)
      /\ Apart(g.cur_header_field, g.cur_header_value)
  <2>1. Apart(h.cur_header_field, h.req_url)
    BY DEF Neat, Apart
  <2>2. QED
    BY <2>1, StillApart DEF Neat
<1>3. /\ NoneHas(g.req_headers, g.req_url)
      /\ NoneHas(g.req_headers, g.cur_header_field)
      /\ NoneHas(g.req_headers, g.cur_header_value)
  BY NoneHasLengthened DEF Neat
<1>4. QED
  BY <1>1, <1>2, <1>3 DEF Neat

LEMMA UrlCallbackNeat ==
  ASSUME NEW lim \in Nat, NEW top \in Nat, lim <= top, NEW h, Neat(h, lim),
         NEW at, Behind(at, lim, top)
  PROVE  Neat(UrlCallback(h, at), top)
<1> DEFINE g == UrlCallback(h, at)
<1>1. Calm(g)
  BY UrlCallbackCalm DEF Neat
<1>2. /\ g.req_url = h.req_url \o at
      /\ g.cur_header_field = h.cur_header_field
      /\ g.cur_header_value = h.cur_header_value
      /\ g.req_headers = h.req_headers
  BY DEF UrlCallback, Neat, Calm, HandlerField
<1> HIDE DEF g
<1>3. /\ Str(g.req_url, top) /\ Str(g.cur_header_field, top) /\ Str(g.cur_header_value, top)
      /\ HeadersNeat(g.req_headers, top)
  BY <1>2, Widened, HeadersWidened, Lengthened DEF Neat
<1>4. /\ Apart(g.req_url, g.cur_header_field) /\ Apart(g.req_url, g.cur_header_value)
      /\ Apart(g.cur_header_field, g.cur_header_value)
  BY <1>2, StillApart DEF Neat
<1>5. /\ NoneHas(g.req_headers, g.req_url)
      /\ NoneHas(g.req_headers, g.cur_header_field)
      /\ NoneHas(g.req_headers, g.cur_header_value)
  BY <1>2, NoneHasLengthened DEF Neat
<1>6. QED
  BY <1>1, <1>3, <1>4, <1>5 DEF Neat, g

LEMMA HeaderFieldCallbackNeat ==
  ASSUME NEW lim \in Nat, NEW top \in Nat, lim <= top, NEW h, Neat(h, lim),
         NEW at, Behind(at, lim, top)
  PROVE  Neat(HeaderFieldCallback(h, at), top)
<1> DEFINE g == HeaderFieldCallback(h, at)
           inserted == Insert(h.req_headers, h.cur_header_field, h.cur_header_value)
<1>1. Calm(g)
  BY HeaderFieldCallbackCalm DEF Neat
<1>2. CASE h.last_was_value
  <2>1. /\ g.req_url = h.req_url
        /\ g.cur_header_field = at
        /\ g.cur_header_value = <<>>
        /\ g.req_headers = inserted
    BY <1>2 DEF HeaderFieldCallback, Neat, Calm, HandlerField
  <2> HIDE DEF g
  <2>2. /\ HeadersNeat(inserted, lim)
        /\ \A u : /\ NoneHas(h.req_headers, u)
                  /\ Apart(h.cur_header_field, u) /\ Apart(h.cur_header_value, u)
                  => NoneHas(inserted, u)
    BY InsertNeat DEF Neat
  <2>3. NoneHas(inserted, h.req_url)
    <3>1. Apart(h.cur_header_field, h.req_url) /\ Apart(h.cur_header_value, h.req_url)
      BY DEF Neat, Apart
    <3>2. QED
      BY <2>2, <3>1 DEF Neat
  <2>4. NoneHas(inserted, at) /\ NoneHas(inserted, <<>>)
    BY <2>2, NoneHasBehind, NoneHasEmpty
  <2>5. /\ Str(h.req_url, top) /\ Str(at, top) /\ Str(<<>>, top)
        /\ HeadersNeat(inserted, top)
        /\ Apart(h.req_url, at) /\ Apart(h.req_url, <<>>) /\ Apart(at, <<>>)
    BY <2>2, Widened, BehindStr, BehindApart, EmptyString, HeadersWidened DEF Neat
  <2>6. QED
    BY <1>1, <2>1, <2>3, <2>4, <2>5 DEF Neat, g
<1>3. CASE ~h.last_was_value
  <2>1. /\ g.req_url = h.req_url
        /\ g.cur_header_field = h.cur_header_field \o at
        /\ g.cur_header_value = h.cur_header_value
        /\ g.req_headers = h.req_headers
    BY <1>3 DEF HeaderFieldCallback, Neat, Calm, HandlerField
  <2>2. QED
    BY <1>1, <2>1, NameNeat
<1>4. QED
  BY <1>2, <1>3

LEMMA HeaderValueCallbackNeat ==
  ASSUME NEW lim \in Nat, NEW top \in Nat, lim <= top, NEW h, Neat(h, lim),
         NEW at, Behind(at, lim, top)
  PROVE  Neat(HeaderValueCallback(h, at), top)
<1> DEFINE g == HeaderValueCallback(h, at)
<1>1. Calm(g)
  BY HeaderValueCallbackCalm DEF Neat
<1>2. CASE h.last_was_value
  <2>1. /\ g.req_url = h.req_url
        /\ g.cur_header_field = h.cur_header_field \o at
        /\ g.cur_header_value = h.cur_header_value
        /\ g.req_headers = h.req_headers
    BY <1>2 DEF HeaderValueCallback, Neat, Calm, HandlerField
  <2>2. QED
    BY <1>1, <2>1, NameNeat
<1>3. CASE ~h.last_was_value
  <2>1. /\ g.req_url = h.req_url
        /\ g.cur_header_field = h.cur_header_field
        /\ g.cur_header_value = at
        /\ g.req_headers = h.req_headers
    BY <1>3 DEF HeaderValueCallback, Neat, Calm, HandlerField
  <2> HIDE DEF g
  <2>2. /\ Str(h.req_url, top) /\ Str(h.cur_header_field, top) /\ Str(at, top)
        /\ HeadersNeat(h.req_headers, top)
        /\ Apart(h.req_url, at) /\ Apart(h.cur_header_field, at)
        /\ NoneHas(h.req_headers, at)
    BY Widened, BehindStr, BehindApart, HeadersWidened, NoneHasBehind DEF Neat
  <2>3. QED
    BY <1>1, <2>1, <2>2 DEF Neat, g
<1>4. QED
  BY <1>2, <1>3

LEMMA MessageCompleteNeat ==
  ASSUME NEW lim \in Nat, NEW h, Neat(h, lim)
  PROVE  Neat(MessageComplete(h), lim)
<1>1. Calm(MessageComplete(h))
  BY MessageCompleteCalm DEF Neat
<1>2. /\ MessageComplete(h).req_url = h.req_url
      /\ MessageComplete(h).cur_header_field = h.cur_header_field
      /\ MessageComplete(h).cur_header_value = h.cur_header_value
      /\ MessageComplete(h).req_headers = h.req_headers
  BY DEF MessageComplete, Neat, Calm, HandlerField
<1>3. QED
  BY <1>1, <1>2, FlagsNeat

LEMMA OnDataNeat ==
  ASSUME NEW lim \in Nat, NEW top \in Nat, lim <= top, NEW h, Neat(h, lim),
         NEW at, Behind(at, lim, top), NEW m
  PROVE  Neat(OnData(h, m, at), top)
<1>1. CASE m = "url"
  BY <1>1, UrlCallbackNeat DEF OnData
<1>2. CASE m = "header_field"
  BY <1>2, HeaderFieldCallbackNeat DEF OnData
<1>3. CASE m = "header_value"
  BY <1>3, HeaderValueCallbackNeat DEF OnData
<1>4. CASE m \notin {"url", "header_field", "header_value"}
  <2>1. OnData(h, m, at) = h
    BY <1>4 DEF OnData
  <2>2. QED
    BY <2>1, FlagsNeat DEF Neat
<1>5. QED
  BY <1>1, <1>2, <1>3, <1>4

-----------------------------------------------------------------------------
(* The parser in a call.                                                   *)

\* What is marked goes on, has been handed over, or begins.
MarksFollow == marks' = marks \/ marks' = {} \/ marks = {}

\* Every case of the switch looks at a byte in a call; the byte stays or is
\* passed.
ByteFollows == inCall /\ byte # NoByte /\ byte' \in {byte, NoByte}

LEMMA StartLineFollows ==
  ASSUME IInv, StartLineNext PROVE MarksFollow /\ ByteFollows
<1> USE AtByte, MarksOf DEF Takes, Again, Step, Fails, Begins, MarksFollow, ByteFollows, In
<1> USE DEF States, HeadState
<1>1. CASE BlankLine \/ Dead \/ StartRes \/ StartReq
  BY <1>1 DEF BlankLine, Dead, StartRes, StartReq
<1>2. CASE ResLine
  BY <1>2 DEF ResLine
<1>3. CASE ResStatus
  BY <1>3 DEF ResStatus
<1>4. CASE ReqMethod \/ ReqHttp \/ LineAlmostDone
  BY <1>4 DEF ReqMethod, ReqHttp, LineAlmostDone
<1>5. CASE ReqSpaces
  BY <1>5 DEF ReqSpaces
<1>6. CASE ReqUrl
  BY <1>6 DEF ReqUrl
<1>7. QED
  BY <1>1, <1>2, <1>3, <1>4, <1>5, <1>6 DEF StartLineNext

LEMMA HeaderFollows ==
  ASSUME IInv, HeaderNext PROVE MarksFollow /\ ByteFollows
<1> USE AtByte, MarksOf DEF Takes, Again, Step, Fails, MarksFollow, ByteFollows, In
<1> USE DEF States, HeadState
<1>1. CASE HeaderFieldStart
  BY <1>1 DEF HeaderFieldStart
<1>2. CASE HeaderField
  BY <1>2 DEF HeaderField
<1>3. CASE DiscardWs \/ DiscardWsAlmostDone
  BY <1>3 DEF DiscardWs, DiscardWsAlmostDone
<1>4. CASE DiscardLws
  BY <1>4 DEF DiscardLws
<1>5. CASE HeaderValueStart
  BY <1>5 DEF HeaderValueStart
<1>6. CASE HeaderValue \/ ContentLength
  BY <1>6 DEF HeaderValue, ContentLength
<1>7. CASE HeaderValueEnds
  BY <1>7 DEF HeaderValueEnds
<1>8. CASE HeaderAlmostDone \/ HeaderValueLws \/ HeadersAlmostDone
  BY <1>8 DEF HeaderAlmostDone, HeaderValueLws, HeadersAlmostDone
<1>9. CASE HeadersDone
  BY <1>9 DEF HeadersDone, Completes
<1>10. QED
  BY <1>1, <1>2, <1>3, <1>4, <1>5, <1>6, <1>7, <1>8, <1>9 DEF HeaderNext

LEMMA BodyFollows ==
  ASSUME IInv, BodyNext PROVE MarksFollow /\ ByteFollows
<1> USE AtByte, MarksOf DEF Takes, Again, Step, Fails, MarksFollow, ByteFollows, In
<1> USE DEF States, HeadState, BodyState
<1>1. CASE \E k \in 1..(MaxLength - 1) : BodyPart(k)
  BY <1>1 DEF BodyPart, PartOf
<1>2. CASE BodyIdentity \/ BodyIdentityEof
  BY <1>2 DEF BodyIdentity, BodyIdentityEof
<1>3. CASE MessageDone
  BY <1>3 DEF MessageDone, Completes
<1>4. CASE ChunkSizeStart \/ ChunkSize \/ ChunkParameters
  BY <1>4 DEF ChunkSizeStart, ChunkSize, ChunkParameters
<1>5. CASE ChunkSizeAlmostDone
  BY <1>5 DEF ChunkSizeAlmostDone
<1>6. CASE ChunkData
  BY <1>6 DEF ChunkData
<1>7. CASE ChunkDataAlmostDone
  BY <1>7 DEF ChunkDataAlmostDone
<1>8. CASE ChunkDataDone
  BY <1>8 DEF ChunkDataDone
<1>9. QED
  BY <1>1, <1>2, <1>3, <1>4, <1>5, <1>6, <1>7, <1>8 DEF BodyNext

\* A body is not read backwards.
LEMMA BulkForward ==
  ASSUME IInv, StartLineNext \/ HeaderNext \/ BodyNext
  PROVE  Bulk \in Nat
BY BodyShrinks DEF Bulk

-----------------------------------------------------------------------------
(* The receiver runs the parser.                                           *)

Placed == stream \in Streams /\ pos \in Nat

LEMMA BytesOfStream ==
  ASSUME Placed, pos < Len(stream.text)
  PROVE  stream.text[pos + 1] \in Byte
<1>1. stream.text \in Seq(Byte)
  BY StreamsAssumption DEF Placed
<1>2. Len(stream.text) \in Nat
  BY <1>1, LenProperties
<1>3. pos + 1 \in 1..Len(stream.text)
  BY <1>2 DEF Placed
<1>4. QED
  BY <1>1, <1>3, LenProperties

LEMMA RunsTheParser ==
  ASSUME Placed, [ReceiverNext]_allVars
  PROVE  [Next]_vars
<1>1. CASE Receive
  BY <1>1, BytesOfStream DEF Receive, Next, CallNext
<1>2. CASE MoreData
  BY <1>2, BytesOfStream DEF MoreData, Next, CallNext
<1>3. CASE DataEnds
  BY <1>3 DEF DataEnds, Next, CallNext
<1>4. CASE Parses
  BY <1>4 DEF Parses, Next
<1>5. CASE ReceiveNothing \/ Done \/ UNCHANGED allVars
  BY <1>5 DEF ReceiveNothing, Done, allVars
<1>6. QED
  BY <1>1, <1>2, <1>3, <1>4, <1>5 DEF ReceiverNext

LEMMA NextPlaced ==
  ASSUME IInv, Placed, [ReceiverNext]_allVars
  PROVE  Placed'
<1>1. CASE Receive \/ MoreData \/ DataEnds \/ ReceiveNothing \/ Done \/ UNCHANGED allVars
  BY <1>1 DEF Receive, MoreData, DataEnds, ReceiveNothing, Done, allVars, receiverVars, Placed
<1>2. CASE Parses
  BY <1>2, BulkForward DEF Parses, Placed
<1>3. QED
  BY <1>1, <1>2 DEF ReceiverNext

RunInv == IInv /\ Placed

LEMMA RunInvariance == ReceiverSpec => []RunInv
<1>1. ReceiverInit => RunInv
  BY InitEstablishes DEF ReceiverInit, RunInv, Placed
<1>2. RunInv /\ [ReceiverNext]_allVars => RunInv'
  BY RunsTheParser, NextPlaced, NextPreserves DEF RunInv
<1>3. QED
  BY <1>1, <1>2, PTL DEF ReceiverSpec

-----------------------------------------------------------------------------
(* Every byte once.                                                        *)

\* The last place whose byte has been passed.
Passed == IF byte = NoByte THEN pos ELSE pos - 1

\* All that callbacks were given lies before a place, and what is marked
\* behind it.
Collected ==
  \E lim \in Nat : lim <= Passed /\ Neat(sh, lim) /\ Behind(text, lim, Passed)

LEMMA BehindFurther ==
  ASSUME NEW lim \in Nat, NEW top \in Nat, NEW further \in Nat, top <= further,
         NEW at, Behind(at, lim, top)
  PROVE  Behind(at, lim, further)
<1>1. at \in [1..Len(at) -> (lim + 1)..further] /\ Len(at) \in Nat
  BY BehindPlaces, LenProperties DEF Behind
<1>2. at \in Seq((lim + 1)..further)
  BY <1>1
<1>3. QED
  BY <1>2 DEF Behind

\* A byte that is passed is put behind those that are marked.
LEMMA BehindAppended ==
  ASSUME NEW lim \in Nat, NEW top \in Nat, lim <= top,
         NEW at, Behind(at, lim, top)
  PROVE  Behind(Append(at, top + 1), lim, top + 1)
<1> DEFINE t == Append(at, top + 1)
<1>1. at \in Seq((lim + 1)..(top + 1)) /\ Ascending(at)
  BY BehindFurther DEF Behind
<1>2. top + 1 \in (lim + 1)..(top + 1)
  OBVIOUS
<1>3. /\ t \in Seq((lim + 1)..(top + 1))
      /\ Len(t) = Len(at) + 1
      /\ \A i \in 1..Len(at) : t[i] = at[i]
      /\ t[Len(at) + 1] = top + 1
  BY <1>1, <1>2, AppendProperties
<1>4. /\ Len(at) \in Nat /\ DOMAIN at = 1..Len(at) /\ DOMAIN t = 1..(Len(at) + 1)
      /\ \A i \in DOMAIN at : at[i] \in (lim + 1)..top
  BY <1>3, BehindPlaces, LenProperties
<1> HIDE DEF t
<1>5. Ascending(t)
  <2>1. SUFFICES ASSUME NEW i \in DOMAIN t, NEW j \in DOMAIN t, i < j
                 PROVE  t[i] < t[j]
    BY DEF Ascending
  <2>2. i \in 1..Len(at)
    BY <1>4, <2>1
  <2>3. CASE j \in 1..Len(at)
    BY <1>1, <1>3, <1>4, <2>1, <2>2, <2>3 DEF Ascending
  <2>4. CASE j = Len(at) + 1
    <3>1. t[i] \in (lim + 1)..top /\ t[j] = top + 1
      BY <1>3, <1>4, <2>2, <2>4
    <3>2. QED
      BY <3>1
  <2>5. QED
    BY <1>4, <2>3, <2>4
<1>6. QED
  BY <1>3, <1>5 DEF Behind, t

\* The bytes that are marked are handed over, or none is.
LEMMA OnMarksNeat ==
  ASSUME NEW lim \in Nat, NEW top \in Nat, lim <= top, NEW h, Neat(h, lim),
         Behind(text, lim, top), NEW before, NEW after
  PROVE  Neat(OnMarks(h, before, after), top)
BY OnDataNeat, FlagsNeat DEF OnMarks, Neat

LEMMA CalledNeat ==
  ASSUME NEW lim \in Nat, NEW top \in Nat, lim <= top, Neat(sh, lim),
         Behind(text, lim, top)
  PROVE  Neat(Called, top)
<1> DEFINE h == IF EmptyValue THEN HeaderValueCallback(sh, <<>>)
                ELSE OnMarks(sh, marks, marks')
<1>1. Neat(h, top)
  <2>1. Neat(HeaderValueCallback(sh, <<>>), top)
    BY EmptyString, HeaderValueCallbackNeat
  <2>2. QED
    BY <2>1, OnMarksNeat
<1> HIDE DEF h
<1>2. Called = h \/ Called = MessageComplete(h)
  BY DEF Called, h
<1>3. QED
  BY <1>1, <1>2, MessageCompleteNeat

\* Without a callback for what is marked, the strings stay where they are.
LEMMA CalledUnmarked ==
  ASSUME NEW lim \in Nat, Neat(sh, lim), marks \subseteq marks'
  PROVE  Neat(Called, lim)
<1> DEFINE h == IF EmptyValue THEN HeaderValueCallback(sh, <<>>)
                ELSE OnMarks(sh, marks, marks')
<1>1. Neat(HeaderValueCallback(sh, <<>>), lim)
  BY EmptyString, HeaderValueCallbackNeat
<1>2. OnMarks(sh, marks, marks') = sh
  BY DEF OnMarks
<1>3. Neat(h, lim)
  BY <1>1, <1>2
<1> HIDE DEF h
<1>4. Called = h \/ Called = MessageComplete(h)
  BY DEF Called, h
<1>5. QED
  BY <1>3, <1>4, MessageCompleteNeat

LEMMA AcceptsNeat ==
  ASSUME NEW lim \in Nat, NEW h, Neat(h, lim), NEW upto, Accepts(h, upto)
  PROVE  Neat(sh', lim)
<1>1. Calm(sh')
  BY AcceptsCalm DEF Neat
<1>2. /\ sh'.req_url = h.req_url
      /\ sh'.cur_header_field = h.cur_header_field
      /\ sh'.cur_header_value = h.cur_header_value
      /\ sh'.req_headers = h.req_headers
  BY DEF Accepts, Neat, Calm, HandlerField
<1>3. QED
  BY <1>1, <1>2, FlagsNeat

\* What a case of the switch leaves the handler as.
LEMMA ParsesNeat ==
  ASSUME NEW lim \in Nat, Neat(sh, lim), Neat(Called, lim), Parses
  PROVE  Neat(sh', lim)
BY AcceptsNeat DEF Parses, Unparsed

LEMMA ParsesCollected ==
  ASSUME RunInv, Collected, Parses
  PROVE  Collected'
<1>1. MarksFollow /\ ByteFollows /\ Bulk \in Nat
  BY StartLineFollows, HeaderFollows, BodyFollows, BulkForward DEF Parses, RunInv
<1>2. PICK lim \in Nat : lim <= Passed /\ Neat(sh, lim) /\ Behind(text, lim, Passed)
  BY DEF Collected
<1>3. /\ Passed = pos - 1 /\ pos \in Nat /\ Passed \in Nat
      /\ pos' = pos + Bulk /\ pos' \in Nat
      /\ Passed' = IF byte' = NoByte THEN pos' ELSE pos' - 1
  BY <1>1, <1>2 DEF ByteFollows, Passed, RunInv, Placed, Parses
<1>4. Passed' \in Nat /\ Passed <= Passed' /\ (byte' = NoByte => pos <= Passed')
  BY <1>1, <1>3
<1>5. text' = IF marks' = {} THEN <<>>
              ELSE IF byte' = NoByte THEN Append(text, pos) ELSE text
  BY DEF Parses
<1>6. CASE marks' = {}
  <2>1. Neat(sh, Passed) /\ Neat(Called, Passed)
    BY <1>2, <1>3, CalledNeat, FlagsNeat DEF Neat
  <2>2. Neat(sh', Passed)
    BY <1>3, <2>1, ParsesNeat
  <2>3. Behind(text', Passed, Passed')
    BY <1>3, <1>4, <1>5, <1>6, EmptyString
  <2>4. QED
    BY <1>3, <1>4, <2>2, <2>3 DEF Collected
<1>7. CASE marks' # {}
  <2>1. marks \subseteq marks'
    BY <1>1, <1>7 DEF MarksFollow
  <2>2. Neat(sh', lim)
    BY <1>2, <2>1, CalledUnmarked, ParsesNeat
  <2>3. Behind(text', lim, Passed')
    <3>1. CASE byte' = NoByte
      <4>1. text' = Append(text, Passed + 1) /\ Passed + 1 = pos
        BY <1>3, <1>5, <1>7, <3>1
      <4>2. Behind(text', lim, pos)
        BY <1>2, <1>3, <4>1, BehindAppended
      <4>3. QED
        BY <1>3, <1>4, <3>1, <4>2, BehindFurther
    <3>2. CASE byte' # NoByte
      BY <1>2, <1>3, <1>4, <1>5, <1>7, <3>2, BehindFurther
    <3>3. QED
      BY <3>1, <3>2
  <2>4. lim <= Passed'
    BY <1>2, <1>3, <1>4
  <2>5. QED
    BY <2>2, <2>3, <2>4 DEF Collected
<1>8. QED
  BY <1>6, <1>7

LEMMA NextCollected ==
  ASSUME RunInv, Collected, [ReceiverNext]_allVars
  PROVE  Collected'
<1>1. PICK lim \in Nat : lim <= Passed /\ Neat(sh, lim) /\ Behind(text, lim, Passed)
  BY DEF Collected
<1>2. pos \in Nat /\ Passed \in Nat /\ Passed <= pos
  BY <1>1 DEF RunInv, Placed, Passed
<1>3. CASE Receive
  <2>1. pos' = pos + 1 /\ text' = <<>> /\ UNCHANGED sh
    BY <1>3 DEF Receive
  <2>2. Passed' \in Nat /\ lim <= Passed'
    BY <1>1, <1>2, <2>1 DEF Passed
  <2>3. QED
    BY <1>1, <2>1, <2>2, EmptyString DEF Collected
<1>4. CASE MoreData
  <2>1. pos' = pos + 1 /\ UNCHANGED <<text, sh>>
    BY <1>4 DEF MoreData
  <2>2. Passed' \in Nat /\ Passed <= Passed' /\ lim <= Passed'
    BY <1>1, <1>2, <2>1 DEF Passed
  <2>3. Behind(text', lim, Passed')
    BY <1>1, <1>2, <2>1, <2>2, BehindFurther
  <2>4. QED
    BY <1>1, <2>1, <2>2, <2>3 DEF Collected
<1>5. CASE DataEnds
  <2>1. /\ Accepts(OnMarks(sh, marks, {}), pos)
        /\ text' = <<>> /\ UNCHANGED <<pos, byte>>
    BY <1>5 DEF DataEnds, EndOfData
  <2>2. Neat(OnMarks(sh, marks, {}), Passed)
    BY <1>1, <1>2, OnMarksNeat
  <2>3. Neat(sh', Passed)
    BY <1>2, <2>1, <2>2, AcceptsNeat
  <2>4. Passed' = Passed
    BY <2>1 DEF Passed
  <2>5. QED
    BY <1>2, <2>1, <2>3, <2>4, EmptyString DEF Collected
<1>6. CASE Parses
  BY <1>6, ParsesCollected
<1>7. CASE ReceiveNothing \/ Done \/ UNCHANGED allVars
  <2>1. UNCHANGED <<pos, byte, text, sh>>
    BY <1>7 DEF ReceiveNothing, Done, allVars, vars, receiverVars
  <2>2. QED
    BY <1>1, <2>1 DEF Collected, Passed
<1>8. QED
  BY <1>3, <1>4, <1>5, <1>6, <1>7 DEF ReceiverNext

LEMMA CollectedInvariance == ReceiverSpec => []Collected
<1>1. ReceiverInit => Collected
  <2>1. SUFFICES ASSUME ReceiverInit PROVE Collected
    OBVIOUS
  <2>2. Passed = 0 /\ text = <<>> /\ sh = NewHandler
    BY <2>1 DEF ReceiverInit, Init, Passed
  <2>3. Calm(sh)
    BY <2>1, InitCalm
  <2>4. /\ sh.req_url = <<>> /\ sh.cur_header_field = <<>> /\ sh.cur_header_value = <<>>
        /\ sh.req_headers = {}
    BY <2>2 DEF NewHandler
  <2>5. Neat(sh, 0)
    BY <2>3, <2>4, EmptyString DEF Neat, HeadersNeat, NoneHas
  <2>6. Behind(text, 0, Passed)
    BY <2>2, EmptyString
  <2>7. QED
    BY <2>2, <2>5, <2>6 DEF Collected
<1>2. RunInv /\ Collected /\ [ReceiverNext]_allVars => Collected'
  BY NextCollected
<1>3. QED
  BY <1>1, <1>2, RunInvariance, PTL DEF ReceiverSpec

\* However a request is cut, and even where a value goes astray, no byte of it
\* is put in two strings of the handler, or twice or out of order in one:
\* neither by the callbacks, which append and move strings to req_headers, nor
\* by the marks, which each call sets anew (SocketHandler.cpp:59-110).
THEOREM BytesCollectedOnce == ReceiverSpec => []EachByteOnce
<1>1. RunInv /\ Collected => EachByteOnce
  <2>1. SUFFICES ASSUME RunInv, NEW lim \in Nat, lim <= Passed, Neat(sh, lim),
                        Behind(text, lim, Passed)
                 PROVE  EachByteOnce
    BY DEF Collected
  <2>2. pos \in Nat /\ Passed \in Nat /\ lim <= pos
    BY <2>1 DEF RunInv, Placed, Passed
  <2>3. Neat(sh, pos)
    BY <2>1, <2>2, FlagsNeat DEF Neat
  <2>4. \A str \in Strings : Str(str, lim)
    BY <2>1 DEF Strings, Neat, HeadersNeat
  <2>5. \A str \in Strings : str \in Given /\ Ascending(str)
    BY <2>2, <2>4, Widened DEF Given, Str
  <2>6. /\ Apart(sh.req_url, sh.cur_header_field)
        /\ Apart(sh.req_url, sh.cur_header_value)
        /\ Apart(sh.cur_header_field, sh.cur_header_value)
    BY <2>1 DEF Neat
  <2>7. \A h \in sh.req_headers :
          /\ Apart(h.field, h.value)
          /\ \A str \in {sh.req_url, sh.cur_header_field, sh.cur_header_value} :
               HeaderApart(h, str)
    BY <2>1 DEF Neat, HeadersNeat, NoneHas
  <2>8. \A g, h \in sh.req_headers :
          g # h => HeaderApart(g, h.field) /\ HeaderApart(g, h.value)
    BY <2>1 DEF Neat, HeadersNeat
  <2>9. \A i \in DOMAIN text : text[i] \notin UNION {Took(str) : str \in Strings}
    <3>1. \A str \in Strings : Apart(text, str)
      BY <2>1, <2>2, <2>4, BehindApart
    <3>2. QED
      BY <3>1 DEF Apart, Took
  <2>10. QED
    BY <2>5, <2>6, <2>7, <2>8, <2>9 DEF EachByteOnce
<1>2. QED
  BY <1>1, RunInvariance, CollectedInvariance, PTL

\* However a client cuts its request, the parser that the handler runs over it
\* is that of HttpParser: its assertions hold, the length of the body is exact,
\* and its callbacks come in their order (receiveAndParseRequest).
THEOREM RequestsAreParsed == ReceiverSpec => Spec
<1>1. ReceiverInit => Init
  BY DEF ReceiverInit
<1>2. RunInv /\ [ReceiverNext]_allVars => [Next]_vars
  BY RunsTheParser DEF RunInv
<1>3. QED
  BY <1>1, <1>2, RunInvariance, PTL DEF ReceiverSpec, Spec

-----------------------------------------------------------------------------
(* The url of a request.                                                   *)

EarlyState == {"start_req", "req_method", "req_spaces", "req_url"}

\* No blank stands up to n; or the first is followed by blanks only, up to n.
NoBlankTo(n) == \A i \in 1..n : stream.text[i] # "SP"

BlanksTo(n) ==
  \E m \in 1..n : NoBlankTo(m - 1) /\ \A i \in m..n : stream.text[i] = "SP"

\* What lies from first to n belongs to the url.
UrlGoesOn(first, n) ==
  /\ first \in 2..n
  /\ BlanksTo(first - 1)
  /\ \A i \in first..n : stream.text[i] \notin Ends \cup Blank

\* How far the request line has been read, and what of its url is known.
LineRead ==
  /\ parser.state \in EarlyState /\ byte # NoByte => byte = stream.text[pos]
  /\ parser.state \in {"start_req", "req_method"} =>
       sh.req_url = <<>> /\ NoBlankTo(Passed)
  /\ parser.state = "req_spaces" => sh.req_url = <<>> /\ BlanksTo(Passed)
  /\ parser.state = "req_url" =>
       \E first \in Nat :
         /\ UrlGoesOn(first, Passed)
         /\ ~inCall => sh.req_url = Places(first, Passed)
         /\ inCall => sh.req_url \o text = Places(first, Passed) /\ marks = {"url"}
  /\ parser.state \notin EarlyState => sh.req_url = stream.url

\* What is known of a url is its beginning.
BeginsWith(url, part) ==
  /\ part \in Seq(Nat) /\ Len(part) <= Len(url)
  /\ \A i \in 1..Len(part) : part[i] = url[i]

\* A byte that is looked at is one that the parser was given.
ByteIsGiven ==
  /\ pos <= Len(stream.text)
  /\ byte # NoByte => pos \in 1..Len(stream.text)

Undecided == verdict \in {"none", "again"}

UrlKnown ==
  /\ ByteIsGiven
  /\ text \in Seq(Nat)
  /\ marks = {} => text = <<>>
  /\ inCall => Undecided
  /\ sh.req_ready \in BOOLEAN
  /\ BeginsWith(stream.url, sh.req_url)
  /\ sh.req_ready => sh.req_url = stream.url
  /\ parser.errno = "OK" /\ ~sh.req_ready => LineRead

\* How a request line goes on: blank lines, the method, blanks, the url, which the
\* next blank or the end of the line ends.
LineMoves ==
  /\ parser.state = "start_req" =>
       byte # "SP" /\ parser'.state \in {"start_req", "req_method"}
  /\ parser.state = "req_method" =>
       \/ byte # "SP" /\ parser'.state = "req_method"
       \/ byte = "SP" /\ parser'.state = "req_spaces"
  /\ parser.state = "req_spaces" =>
       \/ byte = "SP" /\ parser'.state = "req_spaces"
       \/ /\ byte \notin Ends \cup Blank /\ parser'.state = "req_url"
          /\ marks' = {"url"}
  /\ parser.state = "req_url" =>
       \/ byte \notin Ends \cup Blank /\ parser'.state = "req_url" /\ marks' = marks
       \/ byte \in Ends \cup Blank /\ parser'.state \notin EarlyState /\ marks' = {}

\* A step within the start line of a request passes the byte and ends no message.
EarlyStep ==
  /\ byte' = NoByte /\ inCall'
  /\ phase' = phase \/ phase' = "head"
  /\ parser.state # "req_url" => marks = {}
  /\ LineMoves

\* Any other step leads to the start line of a request only when a message ends.
LaterStep ==
  \/ parser'.state \notin EarlyState
  \/ phase # "idle" /\ phase' = "idle"

LEMMA EarlyLineStep ==
  ASSUME IInv, StartLineNext, parser.state \in EarlyState, parser'.errno = "OK"
  PROVE  EarlyStep
<1> USE DEF EarlyStep, LineMoves, EarlyState
<1> USE AtByte, MarksOf, ByteAssumption DEF States, HeadState
<1>1. CASE parser.state = "start_req"
  <2>1. BlankLine \/ StartReq
    BY <1>1 DEF StartLineNext, Dead, StartRes, ResLine, ResStatus, ReqMethod, ReqSpaces,
         ReqUrl, ReqHttp, LineAlmostDone, In
  <2>2. In("start_req") /\ parser \in Record
    BY <1>1, <2>1 DEF BlankLine, StartReq, In
  <2>3. CASE BlankLine
    BY <1>1, <2>2, <2>3 DEF BlankLine, Takes, Step, history, Ends, In
  <2>4. CASE StartReq
    <3>1. ~Fails(Cleared(parser), "INVALID_METHOD")
      BY <2>2 DEF Fails, Cleared, Record
    <3>2. byte \in Letter /\ Begins("req_method")
      BY <2>4, <3>1 DEF StartReq
    <3>3. byte # "SP"
      BY <3>2 DEF Letter, Token, Blank
    <3>4. parser'.state = "req_method"
      BY <2>2, <3>2 DEF Begins, Step, Cleared, Record
    <3>5. QED
      BY <1>1, <2>2, <3>2, <3>3, <3>4 DEF Begins, Step, In
  <2>5. QED
    BY <2>1, <2>3, <2>4
<1>2. CASE parser.state = "req_method"
  <2>1. ReqMethod /\ In("req_method") /\ parser \in Record
    BY <1>2 DEF StartLineNext, BlankLine, Dead, StartRes, StartReq, ResLine, ResStatus,
         ReqMethod, ReqSpaces, ReqUrl, ReqHttp, LineAlmostDone, In
  <2>2. ~Fails(parser, "INVALID_METHOD")
    BY <2>1 DEF Fails, Record
  <2>3. CASE byte \in Letter /\ Takes(parser, marks)
    <3>1. byte # "SP"
      BY <2>3 DEF Letter, Token, Blank
    <3>2. QED
      BY <1>2, <2>1, <2>3, <3>1 DEF Takes, Step, history, In
  <2>4. CASE byte = "SP" /\ \E c \in BOOLEAN :
                              Takes([At("req_spaces") EXCEPT !.connect = c], marks)
    <3>1. parser'.state = "req_spaces"
      BY <2>1, <2>4 DEF Takes, Step, At, Record
    <3>2. QED
      BY <1>2, <2>1, <2>4, <3>1 DEF Takes, Step, history, In
  <2>5. QED
    BY <2>1, <2>2, <2>3, <2>4 DEF ReqMethod
<1>3. CASE parser.state = "req_spaces"
  <2>1. ReqSpaces /\ In("req_spaces") /\ parser \in Record
    BY <1>3 DEF StartLineNext, BlankLine, Dead, StartRes, StartReq, ResLine, ResStatus,
         ReqMethod, ReqSpaces, ReqUrl, ReqHttp, LineAlmostDone, In
  <2>2. ~Fails(parser, "INVALID_URL")
    BY <2>1 DEF Fails, Record
  <2>3. CASE byte = "SP" /\ Takes(parser, marks)
    BY <1>3, <2>1, <2>3 DEF Takes, Step, history, In
  <2>4. CASE byte \notin Ends \cup Blank /\ Takes(At("req_url"), marks \cup {"url"})
    <3>1. parser'.state = "req_url"
      BY <2>1, <2>4, AtFields DEF Takes, Step
    <3>2. QED
      BY <1>3, <2>1, <2>4, <3>1 DEF Takes, Step, history, In
  <2>5. QED
    BY <2>1, <2>2, <2>3, <2>4 DEF ReqSpaces
<1>4. CASE parser.state = "req_url"
  <2>1. ReqUrl /\ In("req_url") /\ parser \in Record
    BY <1>4 DEF StartLineNext, BlankLine, Dead, StartRes, StartReq, ResLine, ResStatus,
         ReqMethod, ReqSpaces, ReqUrl, ReqHttp, LineAlmostDone, In
  <2>2. ~Fails(parser, "INVALID_URL")
    BY <2>1 DEF Fails, Record
  <2>3. CASE byte \notin Ends \cup Blank /\ Takes(parser, marks)
    BY <1>4, <2>1, <2>3 DEF Takes, Step, history, In
  <2>4. CASE \/ byte = "SP" /\ Takes(At("req_http"), marks \ {"url"})
             \/ byte \in Ends /\ Takes(RequestLine(FALSE), marks \ {"url"})
    <3>1. parser'.state \notin EarlyState
      <4>1. At("req_http").state = "req_http"
        BY <2>1, AtFields
      <4>2. RequestLine(FALSE).state \in {"line_almost_done", "header_field_start"}
        BY <2>1, RequestLineFields
      <4>3. QED
        BY <2>4, <4>1, <4>2 DEF Takes, Step
    <3>2. marks' = {} /\ byte \in Ends \cup Blank
      BY <2>1, <2>4 DEF Takes, Step, Blank
    <3>3. QED
      BY <1>4, <2>1, <2>4, <3>1, <3>2 DEF Takes, Step, history, In
  <2>5. QED
    BY <2>1, <2>2, <2>3, <2>4 DEF ReqUrl
<1>5. QED
  BY <1>1, <1>2, <1>3, <1>4

LEMMA EarlyIsLine ==
  ASSUME parser.state \in EarlyState, StartLineNext \/ HeaderNext \/ BodyNext
  PROVE  StartLineNext
BY DEF EarlyState, HeaderNext, HeaderFieldStart, HeaderField, DiscardWs,
       DiscardWsAlmostDone, DiscardLws, HeaderValueStart, HeaderValue, ContentLength,
       HeaderValueEnds, HeaderAlmostDone, HeaderValueLws, HeadersAlmostDone, HeadersDone,
       BodyNext, BodyPart, BodyIdentity, BodyIdentityEof, MessageDone, ChunkSizeStart,
       ChunkSize, ChunkParameters, ChunkSizeAlmostDone, ChunkData, ChunkDataAlmostDone,
       ChunkDataDone, In

LEMMA LaterLineStep ==
  ASSUME IInv, StartLineNext, parser.state \notin EarlyState
  PROVE  LaterStep
<1> USE AtByte DEF LaterStep, EarlyState, States, HeadState
<1>1. parser \in Record
  BY DEF IInv, Typed
<1>2. CASE BlankLine \/ Dead
  BY <1>1, <1>2 DEF BlankLine, Dead, Takes, Step, Fails, Record
<1>8. CASE LineAlmostDone
  <2>1. At("header_field_start").state = "header_field_start"
    BY <1>1, AtFields
  <2>2. parser.state = "line_almost_done"
    BY <1>8 DEF LineAlmostDone, In
  <2>3. QED
    BY <1>1, <1>8, <2>1, <2>2 DEF LineAlmostDone, Takes, Step, Fails, Record
<1>3. CASE StartRes
  <2>1. Cleared(parser) \in Record /\ Cleared(parser).state = "start_res"
    BY <1>1, <1>3, ClearedFields DEF StartRes, In
  <2>2. [Cleared(parser) EXCEPT !.state = "res_line"].state = "res_line"
    BY <2>1 DEF Record
  <2>3. \A e : [Cleared(parser) EXCEPT !.errno = e].state = "start_res"
    BY <2>1 DEF Record
  <2>4. QED
    BY <1>3, <2>2, <2>3 DEF StartRes, Begins, Step, Fails
<1>4. CASE ResLine
  <2>1. ASSUME NEW v \in BOOLEAN, NEW status \in {"none", "switching", "plain"}
        PROVE  StatusLine(parser, v, status).state = "res_status"
    BY <1>1 DEF StatusLine, Record
  <2>2. CASE parser' = parser \/ Fails(parser, "INVALID_STATUS")
    BY <1>1, <2>2 DEF Fails, Record
  <2>3. QED
    BY <1>4, <2>1, <2>2 DEF ResLine, Takes, Again, Step
<1>5. CASE ResStatus
  BY <1>1, <1>5, AtFields DEF ResStatus, Takes, Step
<1>6. CASE ReqHttp
  BY <1>1, <1>6, AtFields, RequestLineFields DEF ReqHttp, Takes, Step, Fails, Record
<1>7. CASE StartReq \/ ReqMethod \/ ReqSpaces \/ ReqUrl
  BY <1>7 DEF StartReq, ReqMethod, ReqSpaces, ReqUrl, In
<1>9. QED
  BY <1>2, <1>3, <1>4, <1>5, <1>6, <1>7, <1>8 DEF StartLineNext

LEMMA LaterHeaderStep ==
  ASSUME IInv, HeaderNext
  PROVE  LaterStep
<1> USE AtByte DEF LaterStep, EarlyState, States, HeadState, Takes, Again, Step, Fails
<1>1. parser \in Record
  BY DEF IInv, Typed
<1>2. CASE HeaderFieldStart
  BY <1>1, <1>2, AtFields DEF HeaderFieldStart, Record
<1>3. CASE HeaderField
  <2>1. ASSUME NEW h, NEW te
        PROVE  [At("header_value_discard_ws") EXCEPT !.header = h, !.usesTE = @ \/ te].state
                 = "header_value_discard_ws"
    BY <1>1 DEF At, Record
  <2>2. QED
    BY <1>1, <1>3, <2>1 DEF HeaderField, Record, In
<1>4. CASE DiscardWs \/ DiscardWsAlmostDone
  BY <1>1, <1>4, AtFields DEF DiscardWs, DiscardWsAlmostDone, Record
<1>5. CASE DiscardLws
  BY <1>1, <1>5, AtFields, HeaderDoneFields DEF DiscardLws, Record
<1>6. CASE HeaderValueStart
  <2>1. At("header_value") \in Record /\ At("header_value").state = "header_value"
        /\ At("header_value").header = parser.header
    BY <1>1, AtFields
  <2>2. ASSUME NEW d PROVE FirstDigit(At("header_value"), d).state = "header_value"
    BY <2>1 DEF FirstDigit, Record
  <2>3. ASSUME NEW p \in ValueBegins(At("header_value")), parser.header # "content_length"
        PROVE  p.state = "header_value"
    BY <2>1, <2>3, ValueBeginsFields
  <2>4. QED
    BY <1>1, <1>6, <2>1, <2>2, <2>3 DEF HeaderValueStart, Record
<1>7. CASE HeaderValue
  <2>1. ASSUME NEW h PROVE [OptionEnds(parser) EXCEPT !.header = h].state = parser.state
    <3>1. OptionEnds(parser) \in Record /\ OptionEnds(parser).state = parser.state
      BY <1>1, SaidFields DEF OptionEnds
    <3>2. QED
      BY <3>1 DEF Record
  <2>2. QED
    BY <1>1, <1>7, <2>1 DEF HeaderValue, In
<1>8. CASE ContentLength
  BY <1>1, <1>8 DEF ContentLength, Fold, Record, In
<1>9. CASE HeaderValueEnds \/ HeaderAlmostDone
  BY <1>1, <1>9, AtFields DEF HeaderValueEnds, HeaderAlmostDone, Record, In
<1>10. CASE HeaderValueLws
  <2>1. Folded(At("header_value_start")).state = "header_value_start"
    BY <1>1, AtFields DEF Folded, Record
  <2>2. QED
    BY <1>1, <1>10, <2>1, HeaderDoneFields DEF HeaderValueLws
<1>11. CASE HeadersAlmostDone
  <2>1. [At("headers_done") EXCEPT !.upgrade = Upgrades(parser)].state = "headers_done"
    BY <1>1 DEF At, Record
  <2>2. At("message_done").state = "message_done"
    BY <1>1 DEF At, Record
  <2>3. parser.state = "headers_almost_done"
    BY <1>11 DEF HeadersAlmostDone, In
  <2>4. QED
    BY <1>1, <1>11, <2>1, <2>2, <2>3 DEF HeadersAlmostDone, Record
<1>12. CASE HeadersDone
  <2>1. phase = "head" /\ parser.state = "headers_done"
    BY <1>12 DEF HeadersDone, PhaseFits
  <2>2. BodyStart(parser) \in States /\ BodyStart(parser) \notin EarlyState
    BY DEF BodyStart, BodyState
  <2>3. CASE Completes
    BY <2>1, <2>3 DEF Completes
  <2>4. CASE ~Completes
    BY <1>1, <1>12, <2>1, <2>2, <2>4, AtFields DEF HeadersDone, Record
  <2>5. QED
    BY <2>3, <2>4
<1>13. QED
  BY <1>2, <1>3, <1>4, <1>5, <1>6, <1>7, <1>8, <1>9, <1>10, <1>11, <1>12 DEF HeaderNext

LEMMA LaterBodyStep ==
  ASSUME IInv, BodyNext
  PROVE  LaterStep
<1> USE AtByte DEF LaterStep, EarlyState, States, HeadState, BodyState, Takes, Step, Fails
<1>1. parser \in Record
  BY DEF IInv, Typed
<1>2. CASE \E k \in 1..(MaxLength - 1) : BodyPart(k)
  BY <1>1, <1>2 DEF BodyPart, PartOf, Read, Record, In
<1>3. CASE BodyIdentity \/ BodyIdentityEof \/ ChunkData
  BY <1>1, <1>3, ReadAllFields DEF BodyIdentity, BodyIdentityEof, ChunkData, In
<1>4. CASE MessageDone
  <2>1. PhaseFits /\ parser.state = "message_done"
    BY <1>4 DEF MessageDone, In
  <2>2. phase = "body" /\ Completes
    BY <1>4, <2>1 DEF MessageDone, PhaseFits
  <2>3. QED
    BY <2>2 DEF Completes
<1>5. CASE ChunkSizeStart
  <2>1. \A d : [At("chunk_size") EXCEPT !.length = d].state = "chunk_size"
    BY <1>1 DEF At, Record
  <2>2. parser.state = "chunk_size_start"
    BY <1>5 DEF ChunkSizeStart, In
  <2>3. QED
    BY <1>1, <1>5, <2>1, <2>2 DEF ChunkSizeStart, Record
<1>6. CASE ChunkSize \/ ChunkParameters
  BY <1>1, <1>6, AtFields DEF ChunkSize, ChunkParameters, Fold, Record, In
<1>7. CASE ChunkSizeAlmostDone
  BY <1>1, <1>7 DEF ChunkSizeAlmostDone, At, Record, In
<1>8. CASE ChunkDataAlmostDone \/ ChunkDataDone
  BY <1>1, <1>8, AtFields DEF ChunkDataAlmostDone, ChunkDataDone, Record, In
<1>9. QED
  BY <1>2, <1>3, <1>4, <1>5, <1>6, <1>7, <1>8 DEF BodyNext

-----------------------------------------------------------------------------
(* Places of a url.                                                        *)

LEMMA LeastPlace ==
  ASSUME NEW S \in SUBSET Nat, S # {}
  PROVE  \E x \in S : \A y \in S : x <= y
<1>1. PICK x \in S : \A y \in S : ~(<<y, x>> \in OpToRel(<, Nat))
  BY NatLessThanWellFounded, WFMin
<1>2. ASSUME NEW y \in S, ~(x <= y) PROVE FALSE
  <2>1. y \in Nat /\ x \in Nat /\ y < x
    BY <1>2
  <2>2. <<y, x>> \in OpToRel(<, Nat)
    BY <2>1 DEF OpToRel
  <2>3. QED
    BY <1>1, <2>2
<1>3. QED
  BY <1>2

LEMMA PlacesAre ==
  ASSUME NEW n \in Nat, NEW first \in 1..n
  PROVE  /\ Places(first, n) \in Seq(Nat)
         /\ Len(Places(first, n)) = n - first + 1
         /\ \A i \in 1..(n - first + 1) : Places(first, n)[i] = first + i - 1
<1>1. n - first + 1 \in Nat
  OBVIOUS
<1>2. \A i \in 1..(n - first + 1) : first + i - 1 \in Nat
  OBVIOUS
<1>3. Places(first, n) \in [1..(n - first + 1) -> Nat]
  BY <1>2 DEF Places
<1>4. QED
  BY <1>1, <1>3 DEF Places

\* A url that was read up to its end is that of the request.
LEMMA UrlIsThere ==
  ASSUME Placed, NEW first \in Nat, NEW n \in Nat, UrlGoesOn(first, n),
         n <= Len(stream.text),
         n < Len(stream.text) => stream.text[n + 1] \in Ends \cup Blank
  PROVE  stream.url = Places(first, n)
<1>1. stream.text \in Seq(Byte)
  BY StreamsAssumption DEF Placed
<1>2. Len(stream.text) \in Nat /\ DOMAIN stream.text = 1..Len(stream.text)
  BY <1>1, LenProperties
<1>3. first \in DOMAIN stream.text /\ n \in DOMAIN stream.text /\ first <= n
  BY <1>2 DEF UrlGoesOn
<1>4. UrlLies(stream.text, first, n)
  BY DEF UrlGoesOn, BlanksTo, NoBlankTo, UrlLies
<1>5. QED
  BY <1>3, <1>4, UrlAssumption DEF Placed

\* What was read of a url is the beginning of it, as it ends somewhere.
LEMMA UrlBegins ==
  ASSUME Placed, NEW first \in Nat, NEW n \in Nat, UrlGoesOn(first, n),
         n <= Len(stream.text)
  PROVE  BeginsWith(stream.url, Places(first, n))
<1> DEFINE S == {k \in n..Len(stream.text) :
                   k < Len(stream.text) => stream.text[k + 1] \in Ends \cup Blank}
<1>1. Len(stream.text) \in Nat
  <2>1. stream.text \in Seq(Byte)
    BY StreamsAssumption DEF Placed
  <2>2. QED
    BY <2>1, LenProperties
<1>2. S \in SUBSET Nat /\ Len(stream.text) \in S
  BY <1>1
<1>3. PICK last \in S : \A k \in S : last <= k
  BY <1>2, LeastPlace
<1>4. /\ last \in Nat /\ n <= last /\ last <= Len(stream.text)
      /\ last < Len(stream.text) => stream.text[last + 1] \in Ends \cup Blank
  BY <1>1
<1>5. first \in 2..n
  BY DEF UrlGoesOn
<1>6. \A i \in first..last : stream.text[i] \notin Ends \cup Blank
  <2>1. SUFFICES ASSUME NEW i \in first..last PROVE stream.text[i] \notin Ends \cup Blank
    OBVIOUS
  <2>2. i \in Nat /\ first <= i /\ i <= last
    BY <1>4
  <2>3. CASE i <= n
    BY <2>2, <2>3 DEF UrlGoesOn
  <2>4. CASE ~(i <= n)
    <3>1. i - 1 \in n..Len(stream.text) /\ ~(last <= i - 1) /\ i - 1 + 1 = i
      BY <1>1, <1>4, <2>2, <2>4
    <3>2. i - 1 \notin S
      BY <1>3, <3>1
    <3>3. QED
      BY <3>1, <3>2
  <2>5. QED
    BY <2>3, <2>4
<1> HIDE DEF S
<1>7. UrlGoesOn(first, last)
  BY <1>4, <1>5, <1>6 DEF UrlGoesOn
<1>8. stream.url = Places(first, last)
  BY <1>4, <1>7, UrlIsThere
<1>9. first \in 1..n /\ first \in 1..last
  BY <1>4, <1>5
<1>10. /\ Places(first, n) \in Seq(Nat) /\ Len(Places(first, n)) = n - first + 1
       /\ \A i \in 1..(n - first + 1) : Places(first, n)[i] = first + i - 1
  BY <1>9, PlacesAre
<1>11. /\ Len(Places(first, last)) = last - first + 1
       /\ \A i \in 1..(last - first + 1) : Places(first, last)[i] = first + i - 1
  BY <1>4, <1>9, PlacesAre
<1>12. n - first + 1 <= last - first + 1
  BY <1>4, <1>9
<1>13. \A i \in 1..(n - first + 1) : i \in 1..(last - first + 1)
  BY <1>4, <1>9
<1>14. QED
  BY <1>8, <1>10, <1>11, <1>12, <1>13 DEF BeginsWith

LEMMA ConcatAppend ==
  ASSUME NEW s \in Seq(Nat), NEW t \in Seq(Nat), NEW x \in Nat
  PROVE  s \o Append(t, x) = Append(s \o t, x)
<1>1. s \o t \in Seq(Nat)
  BY ConcatProperties
<1>2. Append(t, x) = t \o <<x>>
  BY AppendIsConcat
<1>3. Append(s \o t, x) = (s \o t) \o <<x>>
  BY <1>1, AppendIsConcat
<1>4. <<x>> \in Seq(Nat)
  OBVIOUS
<1>5. (s \o t) \o <<x>> = s \o (t \o <<x>>)
  BY <1>4, ConcatAssociative
<1>6. QED
  BY <1>2, <1>3, <1>5

\* One more byte of a url.
LEMMA PlacesLonger ==
  ASSUME NEW n \in Nat, NEW first \in 1..n, NEW url \in Seq(Nat), NEW at \in Seq(Nat),
         url \o at = Places(first, n)
  PROVE  url \o Append(at, n + 1) = Places(first, n + 1)
<1>1. Len(url) \in Nat /\ Len(at) \in Nat
  BY LenProperties
<1>2. /\ url \o at \in Seq(Nat) /\ Len(url \o at) = Len(url) + Len(at)
  BY ConcatProperties
<1>3. /\ Places(first, n) \in Seq(Nat) /\ Len(Places(first, n)) = n - first + 1
      /\ \A i \in 1..(n - first + 1) : Places(first, n)[i] = first + i - 1
  BY PlacesAre
<1>4. n + 1 \in Nat /\ first \in 1..(n + 1)
  OBVIOUS
<1>5. /\ Places(first, n + 1) \in Seq(Nat) /\ Len(Places(first, n + 1)) = n + 1 - first + 1
      /\ \A i \in 1..(n + 1 - first + 1) : Places(first, n + 1)[i] = first + i - 1
  BY <1>4, PlacesAre
<1>6. url \o Append(at, n + 1) = Append(url \o at, n + 1)
  BY <1>4, ConcatAppend
<1>7. /\ Append(Places(first, n), n + 1) \in Seq(Nat)
      /\ Len(Append(Places(first, n), n + 1)) = n - first + 1 + 1
      /\ \A i \in 1..(n - first + 1) :
           Append(Places(first, n), n + 1)[i] = Places(first, n)[i]
      /\ Append(Places(first, n), n + 1)[n - first + 1 + 1] = n + 1
  <2> DEFINE p == Places(first, n)
  <2>1. p \in Seq(Nat) /\ n + 1 \in Nat
    BY <1>3
  <2> HIDE DEF p
  <2>2. /\ Append(p, n + 1) \in Seq(Nat)
        /\ Len(Append(p, n + 1)) = Len(p) + 1
        /\ \A i \in 1..Len(p) : Append(p, n + 1)[i] = p[i]
        /\ Append(p, n + 1)[Len(p) + 1] = n + 1
    BY <2>1, AppendProperties
  <2>3. Len(p) = n - first + 1
    BY <1>3 DEF p
  <2>4. QED
    BY <2>2, <2>3 DEF p
<1>8. n + 1 - first + 1 = n - first + 1 + 1 /\ first + (n - first + 1 + 1) - 1 = n + 1
  OBVIOUS
<1>9. \A i \in 1..(n - first + 1 + 1) :
        Append(Places(first, n), n + 1)[i] = Places(first, n + 1)[i]
  <2>1. SUFFICES ASSUME NEW i \in 1..(n - first + 1 + 1)
                 PROVE  Append(Places(first, n), n + 1)[i] = Places(first, n + 1)[i]
    OBVIOUS
  <2>2. CASE i = n - first + 1 + 1
    BY <1>5, <1>7, <1>8, <2>2
  <2>3. CASE i # n - first + 1 + 1
    <3>1. i \in 1..(n - first + 1)
      BY <2>3
    <3>2. QED
      BY <1>3, <1>5, <1>7, <1>8, <3>1
  <2>4. QED
    BY <2>2, <2>3
<1>10. Append(Places(first, n), n + 1) = Places(first, n + 1)
  BY <1>5, <1>7, <1>8, <1>9, SeqEqual
<1>11. QED
  BY <1>6, <1>10

LEMMA FirstPlace ==
  ASSUME NEW n \in Nat, n >= 1
  PROVE  <<>> \o Append(<<>>, n) = Places(n, n)
<1>1. Places(n, n) \in Seq(Nat) /\ Len(Places(n, n)) = 1 /\ Places(n, n)[1] = n
  <2>1. n \in 1..n /\ n - n + 1 = 1 /\ n + 1 - 1 = n /\ 1 \in 1..1
    OBVIOUS
  <2>2. QED
    BY <2>1, PlacesAre
<1>2. <<>> \o Append(<<>>, n) = <<n>>
  OBVIOUS
<1>3. QED
  BY <1>1, <1>2

LEMMA NothingIsRead ==
  ASSUME Placed PROVE BeginsWith(stream.url, <<>>) /\ stream.url \in Seq(Nat)
<1>1. stream.url \in Seq(Nat)
  BY UrlAssumption DEF Placed
<1>2. Len(stream.url) \in Nat
  BY <1>1, LenProperties
<1>3. QED
  BY <1>1, <1>2, EmptySeq DEF BeginsWith

-----------------------------------------------------------------------------
(* What a step leaves of the url.                                          *)

LEMMA OtherDataKeepsUrl ==
  ASSUME NEW h, Calm(h), NEW at, NEW m, m # "url"
  PROVE  OnData(h, m, at).req_url = h.req_url /\ OnData(h, m, at).req_ready = h.req_ready
<1>1. CASE m = "header_field"
  BY <1>1 DEF OnData, HeaderFieldCallback, Calm, HandlerField
<1>2. CASE m = "header_value"
  BY <1>2 DEF OnData, HeaderValueCallback, Calm, HandlerField
<1>3. CASE m \notin {"header_field", "header_value"}
  BY <1>3 DEF OnData
<1>4. QED
  BY <1>1, <1>2, <1>3

LEMMA OtherMarksKeepUrl ==
  ASSUME NEW h, Calm(h), NEW before, NEW after, "url" \notin before \ after
  PROVE  LET g == OnMarks(h, before, after)
         IN  g.req_url = h.req_url /\ g.req_ready = h.req_ready
<1>1. CASE before \subseteq after
  BY <1>1 DEF OnMarks
<1>2. CASE ~(before \subseteq after)
  <2> DEFINE m == CHOOSE x \in before \ after : TRUE
  <2>1. m \in before \ after
    BY <1>2
  <2>2. m # "url"
    BY <2>1
  <2>3. OnMarks(h, before, after) = OnData(h, m, text)
    BY <1>2 DEF OnMarks
  <2> HIDE DEF m
  <2>4. QED
    BY <2>2, <2>3, OtherDataKeepsUrl
<1>3. QED
  BY <1>1, <1>2

LEMMA UrlMarkAddsToUrl ==
  ASSUME NEW h, Calm(h)
  PROVE  LET g == OnMarks(h, {"url"}, {})
         IN  g.req_url = h.req_url \o text /\ g.req_ready = h.req_ready
<1>1. (CHOOSE x \in {"url"} \ {} : TRUE) = "url"
  OBVIOUS
<1>2. OnMarks(h, {"url"}, {}) = UrlCallback(h, text)
  BY <1>1 DEF OnMarks, OnData
<1>3. QED
  BY <1>2 DEF UrlCallback, Calm, HandlerField

Completing == phase # "idle" /\ phase' = "idle"

LEMMA CalledReady ==
  ASSUME NEW h, Calm(h), Called = IF Completing THEN MessageComplete(h) ELSE h
  PROVE  /\ Called.req_url = h.req_url
         /\ Called.req_ready = IF Completing THEN TRUE ELSE h.req_ready
BY DEF MessageComplete, Calm, HandlerField

\* The url is as it was after all callbacks but its own.
LEMMA CalledKeepsUrl ==
  ASSUME Calm(sh), "url" \notin marks \ marks'
  PROVE  /\ Called.req_url = sh.req_url
         /\ Called.req_ready = IF Completing THEN TRUE ELSE sh.req_ready
<1> DEFINE h == IF EmptyValue THEN HeaderValueCallback(sh, <<>>)
                ELSE OnMarks(sh, marks, marks')
<1>1. Calm(h)
  BY HeaderValueCallbackCalm, OnMarksCalm
<1>2. h.req_url = sh.req_url /\ h.req_ready = sh.req_ready
  <2>1. /\ HeaderValueCallback(sh, <<>>).req_url = sh.req_url
        /\ HeaderValueCallback(sh, <<>>).req_ready = sh.req_ready
    BY DEF HeaderValueCallback, Calm, HandlerField
  <2>2. QED
    BY <2>1, OtherMarksKeepUrl
<1>3. Called = IF Completing THEN MessageComplete(h) ELSE h
  BY DEF Called, Completing
<1> HIDE DEF h
<1>4. QED
  BY <1>1, <1>2, <1>3, CalledReady

LEMMA CalledAddsToUrl ==
  ASSUME Calm(sh), parser.state = "req_url", marks = {"url"}, marks' = {}
  PROVE  /\ Called.req_url = sh.req_url \o text
         /\ Called.req_ready = IF Completing THEN TRUE ELSE sh.req_ready
<1> DEFINE h == OnMarks(sh, marks, marks')
<1>1. Calm(h)
  BY OnMarksCalm
<1>2. h.req_url = sh.req_url \o text /\ h.req_ready = sh.req_ready
  BY UrlMarkAddsToUrl
<1>3. Called = IF Completing THEN MessageComplete(h) ELSE h
  BY DEF Called, Completing, EmptyValue
<1> HIDE DEF h
<1>4. QED
  BY <1>1, <1>2, <1>3, CalledReady

LEMMA AcceptsKeepsUrl ==
  ASSUME NEW h, Calm(h), NEW upto, Accepts(h, upto)
  PROVE  sh'.req_url = h.req_url /\ sh'.req_ready = h.req_ready
BY DEF Accepts, Calm, HandlerField

\* Only the state that reads a url has its mark.
LEMMA UrlMarked ==
  ASSUME IInv, parser.state # "req_url"
  PROVE  "url" \notin marks
<1>1. parser.state \in States /\ marks \subseteq MarkFor(parser.state)
  BY DEF IInv, Typed, Record, Marked, States
<1>2. QED
  BY <1>1, MarksOf

\* The steps RequestIntake allows, said of the handler.
Learns ==
  /\ UNCHANGED stream
  /\ BeginsWith(stream.url, sh'.req_url)
  /\ Len(sh.req_url) <= Len(sh'.req_url)
  /\ sh'.req_ready \in BOOLEAN
  /\ sh.req_ready => sh'.req_ready /\ sh'.req_url = sh.req_url
  /\ sh'.req_ready /\ ~sh.req_ready =>
       sh.req_url = stream.url /\ sh'.req_url = stream.url

\* A step of the parser in the start line: the url is not there before its first
\* byte is passed, and all of it when a byte ends it.
LEMMA EarlyKnown ==
  ASSUME RunInv, UrlKnown, Calm(sh), Parses, parser.state \in EarlyState,
         parser.errno = "OK", parser'.errno = "OK", EarlyStep, ~sh.req_ready
  PROVE  /\ LineRead' /\ BeginsWith(stream.url, Called.req_url)
         /\ Len(sh.req_url) <= Len(Called.req_url) /\ ~Called.req_ready
<1>1. /\ LineRead /\ byte # NoByte /\ inCall /\ byte' = NoByte /\ inCall'
      /\ pos \in 1..Len(stream.text) /\ byte = stream.text[pos]
      /\ pos \in Nat /\ Len(stream.text) \in Nat
  <2>1. StartLineNext
    BY EarlyIsLine DEF Parses
  <2>2. byte # NoByte /\ inCall
    BY <2>1, StartLineFollows DEF RunInv, ByteFollows
  <2>3. stream.text \in Seq(Byte)
    BY StreamsAssumption DEF RunInv, Placed
  <2>4. QED
    BY <2>2, <2>3, LenProperties DEF UrlKnown, LineRead, EarlyStep, ByteIsGiven, RunInv, Placed
<1>2. pos' = pos /\ stream' = stream
  BY DEF Parses, Bulk, EarlyState, RunInv, Placed
<1>3. Passed = pos - 1 /\ Passed' = pos
  BY <1>1, <1>2 DEF Passed
<1>4. ~Completing
  BY DEF EarlyStep, Completing
<1>5. /\ text \in Seq(Nat) /\ sh.req_url \in Seq(Nat)
      /\ text' = IF marks' = {} THEN <<>> ELSE Append(text, pos)
  BY <1>1 DEF Parses, UrlKnown, BeginsWith
<1>6. CASE parser.state # "req_url"
  <2>1. marks = {}
    BY <1>6 DEF EarlyStep
  <2>2. Called.req_url = sh.req_url /\ ~Called.req_ready
    BY <1>4, <2>1, CalledKeepsUrl
  <2>3. sh'.req_url = sh.req_url /\ sh.req_url = <<>>
    BY <1>1, <1>6, <2>2 DEF Parses, LineRead, EarlyState
  <2>4. CASE parser.state \in {"start_req", "req_method"} /\ byte # "SP"
    <3>1. parser'.state \in {"start_req", "req_method"}
      BY <2>4 DEF EarlyStep, LineMoves
    <3>2. NoBlankTo(pos)
      <4>1. NoBlankTo(pos - 1)
        BY <1>1, <1>3, <2>4 DEF LineRead
      <4>2. \A i \in 1..pos : i = pos \/ i \in 1..(pos - 1)
        BY <1>1
      <4>3. QED
        BY <1>1, <2>4, <4>1, <4>2 DEF NoBlankTo
    <3>3. LineRead'
      BY <1>1, <1>2, <1>3, <2>3, <3>1, <3>2 DEF LineRead, NoBlankTo, EarlyState
    <3>4. QED
      BY <2>2, <2>3, <3>3 DEF UrlKnown, BeginsWith
  <2>5. CASE parser.state = "req_method" /\ byte = "SP"
    <3>1. parser'.state = "req_spaces"
      BY <2>5 DEF EarlyStep, LineMoves
    <3>2. BlanksTo(pos)
      <4>1. NoBlankTo(pos - 1)
        BY <1>1, <1>3, <2>5 DEF LineRead
      <4>2. pos \in 1..pos /\ \A i \in pos..pos : i = pos
        BY <1>1
      <4>3. QED
        BY <1>1, <2>5, <4>1, <4>2 DEF BlanksTo
    <3>3. LineRead'
      BY <1>1, <1>2, <1>3, <2>3, <3>1, <3>2 DEF LineRead, BlanksTo, NoBlankTo, EarlyState
    <3>4. QED
      BY <2>2, <2>3, <3>3 DEF UrlKnown, BeginsWith
  <2>6. CASE parser.state = "req_spaces"
    <3>1. BlanksTo(pos - 1)
      BY <1>1, <1>3, <2>6 DEF LineRead
    <3>2. PICK m \in 1..(pos - 1) :
            NoBlankTo(m - 1) /\ \A i \in m..(pos - 1) : stream.text[i] = "SP"
      BY <3>1 DEF BlanksTo
    <3>3. CASE byte = "SP" /\ parser'.state = "req_spaces"
      <4>1. m \in 1..pos /\ \A i \in m..pos : i = pos \/ i \in m..(pos - 1)
        BY <1>1
      <4>2. BlanksTo(pos)
        BY <1>1, <3>2, <3>3, <4>1 DEF BlanksTo
      <4>3. LineRead'
        BY <1>1, <1>2, <1>3, <2>3, <3>3, <4>2 DEF LineRead, BlanksTo, NoBlankTo, EarlyState
      <4>4. QED
        BY <2>2, <2>3, <4>3 DEF UrlKnown, BeginsWith
    <3>4. CASE /\ byte \notin Ends \cup Blank /\ parser'.state = "req_url"
               /\ marks' = {"url"}
      <4>1. UrlGoesOn(pos, pos)
        <5>1. pos \in 2..pos /\ \A i \in pos..pos : i = pos
          BY <1>1
        <5>2. QED
          BY <1>1, <3>1, <3>4, <5>1 DEF UrlGoesOn
      <4>2. text = <<>>
        BY <2>1 DEF UrlKnown
      <4>3. <<>> \o Append(<<>>, pos) = Places(pos, pos)
        BY <1>1, FirstPlace
      <4>4. sh'.req_url \o text' = Places(pos, pos)
        BY <1>5, <2>3, <3>4, <4>2, <4>3
      <4>5. UrlGoesOn(pos, pos)'
        BY <1>2, <4>1 DEF UrlGoesOn, BlanksTo, NoBlankTo
      <4>6. LineRead'
        BY <1>1, <1>2, <1>3, <3>4, <4>4, <4>5 DEF LineRead, EarlyState, Places
      <4>7. QED
        BY <2>2, <2>3, <4>6 DEF UrlKnown, BeginsWith
    <3>5. QED
      BY <2>6, <3>3, <3>4 DEF EarlyStep, LineMoves
  <2>7. QED
    BY <1>6, <2>4, <2>5, <2>6 DEF EarlyStep, LineMoves, EarlyState
<1>7. CASE parser.state = "req_url"
  <2>1. PICK first \in Nat : /\ UrlGoesOn(first, pos - 1)
                             /\ sh.req_url \o text = Places(first, pos - 1)
                             /\ marks = {"url"}
    BY <1>1, <1>3, <1>7 DEF LineRead
  <2>2. first \in 2..(pos - 1) /\ pos - 1 \in Nat /\ first \in 1..(pos - 1)
    BY <1>1, <2>1 DEF UrlGoesOn
  <2>3. CASE byte \notin Ends \cup Blank /\ parser'.state = "req_url" /\ marks' = marks
    <3>1. Called.req_url = sh.req_url /\ ~Called.req_ready
      BY <1>4, <2>3, CalledKeepsUrl
    <3>2. sh'.req_url = sh.req_url
      BY <1>1, <3>1 DEF Parses
    <3>3. UrlGoesOn(first, pos)
      <4>1. first \in 2..pos /\ \A i \in first..pos : i = pos \/ i \in first..(pos - 1)
        BY <1>1, <2>2
      <4>2. QED
        BY <1>1, <2>1, <2>3, <4>1 DEF UrlGoesOn
    <3>4. sh.req_url \o Append(text, pos) = Places(first, pos)
      <4>1. sh.req_url \o Append(text, pos - 1 + 1) = Places(first, pos - 1 + 1)
        BY <1>5, <2>1, <2>2, PlacesLonger
      <4>2. pos - 1 + 1 = pos
        BY <1>1
      <4>3. QED
        BY <4>1, <4>2
    <3>5. sh'.req_url \o text' = Places(first, pos) /\ marks' = {"url"}
      BY <1>5, <2>1, <2>3, <3>2, <3>4
    <3>6. UrlGoesOn(first, pos)'
      BY <1>2, <3>3 DEF UrlGoesOn, BlanksTo, NoBlankTo
    <3>7. LineRead'
      BY <1>1, <1>2, <1>3, <2>3, <3>5, <3>6 DEF LineRead, EarlyState, Places
    <3>8. QED
      BY <3>1, <3>7 DEF UrlKnown, BeginsWith
  <2>4. CASE byte \in Ends \cup Blank /\ parser'.state \notin EarlyState /\ marks' = {}
    <3>1. Called.req_url = sh.req_url \o text /\ ~Called.req_ready
      BY <1>4, <1>7, <2>1, <2>4, CalledAddsToUrl
    <3>2. stream.url = Places(first, pos - 1)
      <4>1. pos - 1 <= Len(stream.text) /\ stream.text[pos - 1 + 1] \in Ends \cup Blank
        BY <1>1, <2>4
      <4>2. QED
        BY <2>1, <2>2, <4>1, UrlIsThere DEF RunInv
    <3>3. sh'.req_url = stream.url /\ Called.req_url = stream.url
      BY <1>1, <2>1, <3>1, <3>2 DEF Parses
    <3>4. LineRead'
      BY <1>1, <1>2, <2>4, <3>3 DEF LineRead, EarlyState
    <3>5. BeginsWith(stream.url, stream.url)
      <4>1. stream.url \in Seq(Nat)
        BY NothingIsRead DEF RunInv
      <4>2. QED
        BY <4>1, LenProperties DEF BeginsWith
    <3>6. QED
      BY <3>1, <3>3, <3>4, <3>5 DEF UrlKnown, BeginsWith
  <2>5. QED
    BY <1>7, <2>3, <2>4 DEF EarlyStep, LineMoves
<1>8. QED
  BY <1>6, <1>7

LEMMA WholeUrl ==
  ASSUME Placed PROVE BeginsWith(stream.url, stream.url)
<1>1. stream.url \in Seq(Nat)
  BY NothingIsRead
<1>2. QED
  BY <1>1, LenProperties DEF BeginsWith

\* What a step that does not fail leaves of the url.
UrlAfter ==
  /\ BeginsWith(stream.url, Called.req_url)
  /\ Len(sh.req_url) <= Len(Called.req_url)
  /\ Called.req_ready \in BOOLEAN
  /\ sh.req_ready => Called.req_ready /\ Called.req_url = sh.req_url
  /\ Called.req_ready /\ ~sh.req_ready =>
       sh.req_url = stream.url /\ Called.req_url = stream.url
  /\ ~Called.req_ready => LineRead'

LEMMA CalledCompletes ==
  ASSUME Calm(sh)
  PROVE  Called.req_ready = IF Completing THEN TRUE ELSE sh.req_ready
<1> DEFINE h == IF EmptyValue THEN HeaderValueCallback(sh, <<>>)
                ELSE OnMarks(sh, marks, marks')
<1>1. Calm(h)
  BY HeaderValueCallbackCalm, OnMarksCalm
<1>2. h.req_ready = sh.req_ready
  <2>1. HeaderValueCallback(sh, <<>>).req_ready = sh.req_ready
    BY DEF HeaderValueCallback, Calm, HandlerField
  <2>2. \A m : OnData(sh, m, text).req_ready = sh.req_ready
    BY OtherDataKeepsUrl DEF OnData, UrlCallback, Calm, HandlerField
  <2>3. OnMarks(sh, marks, marks').req_ready = sh.req_ready
    BY <2>2 DEF OnMarks
  <2>4. QED
    BY <2>1, <2>3
<1>3. Called = IF Completing THEN MessageComplete(h) ELSE h
  BY DEF Called, Completing
<1> HIDE DEF h
<1>4. QED
  BY <1>1, <1>2, <1>3, CalledReady

LEMMA HandlerAfter ==
  ASSUME Calm(sh), Parses, parser'.errno = "OK"
  PROVE  sh'.req_url = Called.req_url /\ sh'.req_ready = Called.req_ready
BY CalledCalm, AcceptsKeepsUrl DEF Parses

LEMMA StepsUrl ==
  ASSUME RunInv, UrlKnown, OneRequest, Calm(sh), Parses, parser'.errno = "OK"
  PROVE  UrlAfter
<1>1. /\ parser.errno = "OK" /\ sh.req_ready \in BOOLEAN
      /\ BeginsWith(stream.url, sh.req_url) /\ Len(sh.req_url) \in Nat
  <2>1. inCall
    BY StartLineFollows, HeaderFollows, BodyFollows DEF Parses, RunInv, ByteFollows
  <2>2. sh.req_url \in Seq(Nat)
    BY DEF UrlKnown, BeginsWith
  <2>3. QED
    BY <2>1, <2>2, LenProperties DEF RunInv, IInv, CallFits, UrlKnown
<1>2. CASE parser.state \in EarlyState
  <2>1. EarlyStep
    BY <1>2, EarlyIsLine, EarlyLineStep DEF Parses, RunInv
  <2>2. CASE ~sh.req_ready
    BY <1>1, <1>2, <2>1, <2>2, EarlyKnown, CalledCompletes DEF UrlAfter
  <2>3. CASE sh.req_ready
    <3>1. marks = {}
      BY <2>1, <2>3 DEF EarlyStep, OneRequest
    <3>2. Called.req_url = sh.req_url /\ Called.req_ready = TRUE
      BY <1>1, <2>3, <3>1, CalledKeepsUrl
    <3>3. QED
      <4>1. BeginsWith(stream.url, Called.req_url)
        BY <1>1, <2>3, <3>2 DEF BeginsWith
      <4>2. Len(sh.req_url) <= Len(Called.req_url)
        BY <1>1, <2>3, <3>2 DEF BeginsWith
      <4>3. Called.req_ready \in BOOLEAN
        BY <1>1, <2>3, <3>2 DEF BeginsWith
      <4>4. sh.req_ready => Called.req_ready /\ Called.req_url = sh.req_url
        BY <1>1, <2>3, <3>2 DEF BeginsWith
      <4>5. Called.req_ready /\ ~sh.req_ready =>
           sh.req_url = stream.url /\ Called.req_url = stream.url
        BY <1>1, <2>3, <3>2 DEF BeginsWith
      <4>6. ~Called.req_ready => LineRead'
        BY <1>1, <2>3, <3>2 DEF BeginsWith
      <4>7. QED
        BY <4>1, <4>2, <4>3, <4>4, <4>5, <4>6 DEF UrlAfter
  <2>4. QED
    BY <2>2, <2>3
<1>3. CASE parser.state \notin EarlyState
  <2>1. "url" \notin marks
    BY <1>3, UrlMarked DEF EarlyState, RunInv
  <2>2. /\ Called.req_url = sh.req_url
        /\ Called.req_ready = IF Completing THEN TRUE ELSE sh.req_ready
    BY <2>1, CalledKeepsUrl
  <2>3. ~sh.req_ready => sh.req_url = stream.url
    BY <1>1, <1>3 DEF UrlKnown, LineRead
  <2>4. ASSUME ~Called.req_ready PROVE LineRead'
    <3>1. LaterStep
      BY <1>3, LaterLineStep, LaterHeaderStep, LaterBodyStep DEF Parses, RunInv
    <3>2. parser'.state \notin EarlyState
      BY <2>2, <2>4, <3>1 DEF LaterStep, Completing
    <3>3. sh'.req_url = stream'.url
      BY <1>1, <2>2, <2>3, <2>4, HandlerAfter DEF Parses
    <3>4. QED
      BY <3>2, <3>3 DEF LineRead, EarlyState
  <2>5. QED
    <3>1. BeginsWith(stream.url, Called.req_url)
      BY <1>1, <2>2, <2>3, <2>4 DEF BeginsWith
    <3>2. Len(sh.req_url) <= Len(Called.req_url)
      BY <1>1, <2>2, <2>3, <2>4 DEF BeginsWith
    <3>3. Called.req_ready \in BOOLEAN
      BY <1>1, <2>2, <2>3, <2>4 DEF BeginsWith
    <3>4. sh.req_ready => Called.req_ready /\ Called.req_url = sh.req_url
      BY <1>1, <2>2, <2>3, <2>4 DEF BeginsWith
    <3>5. Called.req_ready /\ ~sh.req_ready =>
         sh.req_url = stream.url /\ Called.req_url = stream.url
      BY <1>1, <2>2, <2>3, <2>4 DEF BeginsWith
    <3>6. ~Called.req_ready => LineRead'
      BY <1>1, <2>2, <2>3, <2>4 DEF BeginsWith
    <3>7. QED
      BY <3>1, <3>2, <3>3, <3>4, <3>5, <3>6 DEF UrlAfter
<1>4. QED
  BY <1>2, <1>3

LEMMA ParsesKnown ==
  ASSUME RunInv, RunInv', UrlKnown, OneRequest, Calm(sh), Parses
  PROVE  UrlKnown' /\ Learns
<1>1. /\ inCall /\ byte # NoByte /\ byte' \in {byte, NoByte} /\ Bulk \in Nat
      /\ stream' = stream /\ pos' = pos + Bulk /\ pos' <= Len(stream.text)
  BY StartLineFollows, HeaderFollows, BodyFollows, BulkForward DEF Parses, RunInv, ByteFollows
<1>2. ByteIsGiven'
  <2>1. pos \in 1..Len(stream.text) /\ Len(stream.text) \in Nat
    <3>1. stream.text \in Seq(Byte)
      BY StreamsAssumption DEF RunInv, Placed
    <3>2. QED
      BY <1>1, <3>1, LenProperties DEF UrlKnown, ByteIsGiven
  <2>2. pos' \in 1..Len(stream.text)
    BY <1>1, <2>1
  <2>3. QED
    BY <1>1, <2>2 DEF ByteIsGiven
<1>3. text' \in Seq(Nat) /\ (marks' = {} => text' = <<>>)
  <2>1. text \in Seq(Nat) /\ pos \in Nat
    BY DEF UrlKnown, RunInv, Placed
  <2>2. <<>> \in Seq(Nat) /\ Append(text, pos) \in Seq(Nat)
    BY <2>1
  <2>3. QED
    BY <2>1, <2>2 DEF Parses
<1>4. inCall' => Undecided'
  <2>1. inCall' => verdict' = verdict
    BY DEF Parses, RunInv, IInv, CallFits
  <2>2. QED
    BY <1>1, <2>1 DEF UrlKnown, Undecided
<1>5. CASE parser'.errno # "OK"
  <2>1. UNCHANGED sh
    BY <1>5 DEF Parses
  <2>2. Len(sh.req_url) \in Nat
    BY LenProperties DEF UrlKnown, BeginsWith
  <2>3. UrlKnown'
    BY <1>1, <1>2, <1>3, <1>4, <1>5, <2>1 DEF UrlKnown, BeginsWith
  <2>4. QED
    BY <1>1, <2>1, <2>2, <2>3 DEF UrlKnown, Learns
<1>6. CASE parser'.errno = "OK"
  <2>1. UrlAfter /\ sh'.req_url = Called.req_url /\ sh'.req_ready = Called.req_ready
    BY <1>6, StepsUrl, HandlerAfter
  <2>2. /\ sh'.req_ready \in BOOLEAN /\ BeginsWith(stream.url, sh'.req_url)
        /\ sh'.req_ready => sh'.req_url = stream.url
        /\ ~sh'.req_ready => LineRead'
    BY <2>1 DEF UrlAfter, UrlKnown
  <2>3. UrlKnown'
    BY <1>1, <1>2, <1>3, <1>4, <2>2 DEF UrlKnown, BeginsWith
  <2>4. Learns
    BY <1>1, <2>1 DEF UrlAfter, Learns
  <2>5. QED
    BY <2>3, <2>4
<1>7. QED
  BY <1>5, <1>6

LEMMA NothingLearnt ==
  ASSUME UrlKnown, UNCHANGED <<stream, sh>>
  PROVE  Learns
<1>1. sh.req_url \in Seq(Nat)
  BY DEF UrlKnown, BeginsWith
<1>2. Len(sh.req_url) \in Nat
  BY <1>1, LenProperties
<1>3. QED
  BY <1>2 DEF UrlKnown, Learns

\* The parser is given a byte.
LEMMA GivenKnown ==
  ASSUME RunInv, UrlKnown, byte = NoByte, pos < Len(stream.text),
         byte' = stream.text[pos + 1], pos' = pos + 1, inCall', Undecided',
         UNCHANGED <<parser, stream, sh>>,
         \/ inCall /\ UNCHANGED <<marks, text>>
         \/ ~inCall /\ marks' = Resumed(parser.state) /\ text' = <<>>
  PROVE  UrlKnown'
<1>1. pos \in Nat /\ Len(stream.text) \in Nat
  <2>1. stream.text \in Seq(Byte)
    BY StreamsAssumption DEF RunInv, Placed
  <2>2. QED
    BY <2>1, LenProperties DEF RunInv, Placed
<1>2. byte' # NoByte
  <2>1. NoByte \notin Byte
    BY ByteAssumption DEF Byte, Token, Ends, Blank, NoByte
  <2>2. QED
    BY <2>1, BytesOfStream DEF RunInv
<1>3. Passed = pos /\ Passed' = pos
  BY <1>1, <1>2 DEF Passed
<1>4. ByteIsGiven'
  BY <1>1, <1>2 DEF ByteIsGiven
<1>5. text' \in Seq(Nat) /\ (marks' = {} => text' = <<>>)
  BY EmptySeq DEF UrlKnown
<1>6. ASSUME parser.errno = "OK", ~sh.req_ready PROVE LineRead'
  <2>1. LineRead
    BY <1>6 DEF UrlKnown
  <2>2. byte' = stream'.text[pos']
    OBVIOUS
  <2>3. parser.state \in {"start_req", "req_method"} => sh.req_url = <<>> /\ NoBlankTo(pos)
    BY <1>3, <2>1 DEF LineRead
  <2>4. parser.state = "req_spaces" => sh.req_url = <<>> /\ BlanksTo(pos)
    BY <1>3, <2>1 DEF LineRead
  <2>5. ASSUME parser.state = "req_url"
        PROVE  \E first \in Nat :
                 /\ UrlGoesOn(first, pos)
                 /\ sh.req_url \o text' = Places(first, pos)
                 /\ marks' = {"url"}
    <3>1. PICK first \in Nat :
            /\ UrlGoesOn(first, pos)
            /\ ~inCall => sh.req_url = Places(first, pos)
            /\ inCall => sh.req_url \o text = Places(first, pos) /\ marks = {"url"}
      BY <1>3, <2>1, <2>5 DEF LineRead
    <3>2. CASE inCall
      BY <3>1, <3>2
    <3>3. CASE ~inCall
      <4>1. marks' = {"url"} /\ text' = <<>>
        BY <2>5, <3>3 DEF Resumed, MarkOf
      <4>2. sh.req_url \o <<>> = sh.req_url
        BY ConcatEmptySeq DEF UrlKnown, BeginsWith
      <4>3. QED
        BY <3>1, <3>3, <4>1, <4>2
    <3>4. QED
      BY <3>2, <3>3
  <2>6. parser.state \notin EarlyState => sh.req_url = stream.url
    BY <2>1 DEF LineRead
  <2>7. QED
    BY <1>3, <2>2, <2>3, <2>4, <2>5, <2>6
    DEF LineRead, UrlGoesOn, BlanksTo, NoBlankTo, EarlyState, Places
<1>7. QED
  BY <1>4, <1>5, <1>6 DEF UrlKnown, BeginsWith

\* The data of a call ends: what there is of the url is handed over.
LEMMA DataEndsKnown ==
  ASSUME RunInv, UrlKnown, OneRequest, Calm(sh), DataEnds
  PROVE  UrlKnown' /\ Learns /\ Undecided
<1>1. /\ inCall /\ byte = NoByte /\ ~inCall' /\ marks' = {} /\ text' = <<>>
      /\ UNCHANGED <<parser, byte, stream, pos>>
      /\ Accepts(OnMarks(sh, marks, {}), pos)
  BY DEF DataEnds, EndOfData
<1>2. parser.errno = "OK" /\ Undecided
  BY <1>1 DEF RunInv, IInv, CallFits, UrlKnown
<1>3. /\ sh'.req_url = OnMarks(sh, marks, {}).req_url
      /\ sh'.req_ready = OnMarks(sh, marks, {}).req_ready
  BY <1>1, OnMarksCalm, AcceptsKeepsUrl
<1>4. /\ sh.req_url \in Seq(Nat) /\ Len(sh.req_url) \in Nat
      /\ sh.req_ready \in BOOLEAN /\ text \in Seq(Nat) /\ Len(text) \in Nat
  BY LenProperties DEF UrlKnown, BeginsWith
<1>5. Passed = pos /\ Passed' = pos /\ ByteIsGiven'
  BY <1>1 DEF Passed, ByteIsGiven, UrlKnown
<1>6. CASE sh.req_ready \/ parser.state # "req_url"
  <2>1. "url" \notin marks \ {}
    BY <1>6, UrlMarked DEF OneRequest, RunInv
  <2>2. sh'.req_url = sh.req_url /\ sh'.req_ready = sh.req_ready
    BY <1>3, <2>1, OtherMarksKeepUrl
  <2>3. ASSUME ~sh'.req_ready PROVE LineRead'
    <3>1. LineRead /\ parser.state # "req_url"
      BY <1>2, <1>6, <2>2, <2>3 DEF UrlKnown
    <3>2. /\ parser.state \in {"start_req", "req_method"} => sh.req_url = <<>> /\ NoBlankTo(pos)
          /\ parser.state = "req_spaces" => sh.req_url = <<>> /\ BlanksTo(pos)
          /\ parser.state \notin EarlyState => sh.req_url = stream.url
      BY <1>5, <3>1 DEF LineRead
    <3>3. QED
      BY <1>1, <1>5, <2>2, <3>1, <3>2 DEF LineRead, BlanksTo, NoBlankTo, EarlyState
  <2>4. UrlKnown'
    BY <1>1, <1>4, <1>5, <2>2, <2>3, EmptySeq DEF UrlKnown, BeginsWith
  <2>5. Learns
    BY <1>1, <1>4, <2>2 DEF UrlKnown, Learns, BeginsWith
  <2>6. QED
    BY <1>2, <2>4, <2>5
<1>7. CASE ~sh.req_ready /\ parser.state = "req_url"
  <2>1. PICK first \in Nat : /\ UrlGoesOn(first, pos)
                             /\ sh.req_url \o text = Places(first, pos)
                             /\ marks = {"url"}
    BY <1>1, <1>2, <1>5, <1>7 DEF UrlKnown, LineRead
  <2>2. sh'.req_url = Places(first, pos) /\ sh'.req_url = sh.req_url \o text /\ ~sh'.req_ready
    BY <1>3, <1>7, <2>1, UrlMarkAddsToUrl
  <2>3. sh'.req_ready \in BOOLEAN
    BY <1>3, <1>4, <2>1, UrlMarkAddsToUrl
  <2>4. BeginsWith(stream.url, Places(first, pos))
    BY <2>1, UrlBegins DEF RunInv, Placed, UrlKnown, ByteIsGiven
  <2>5. BeginsWith(stream.url, sh'.req_url)
    BY <2>2, <2>4 DEF BeginsWith
  <2>6. Len(sh.req_url) <= Len(sh'.req_url)
    <3>1. Len(sh.req_url \o text) = Len(sh.req_url) + Len(text)
      BY <1>4, ConcatProperties
    <3>2. QED
      BY <1>4, <2>2, <3>1
  <2>7. UrlGoesOn(first, pos)'
    BY <1>1, <2>1 DEF UrlGoesOn, BlanksTo, NoBlankTo
  <2>8. LineRead'
    BY <1>1, <1>5, <1>7, <2>2, <2>7 DEF LineRead, EarlyState, Places
  <2>9. UrlKnown'
    BY <1>1, <1>5, <2>2, <2>3, <2>5, <2>8, EmptySeq DEF UrlKnown, BeginsWith
  <2>10. Learns
    BY <1>1, <1>7, <2>2, <2>3, <2>5, <2>6 DEF Learns
  <2>11. QED
    BY <1>2, <2>9, <2>10
<1>8. QED
  BY <1>6, <1>7

LEMMA SameKnown ==
  ASSUME UrlKnown, UNCHANGED <<parser, byte, inCall, marks, stream, pos, text, sh>>,
         inCall => Undecided'
  PROVE  UrlKnown' /\ Learns
<1>1. Passed' = Passed /\ ByteIsGiven'
  BY DEF Passed, ByteIsGiven, UrlKnown
<1>2. ASSUME LineRead PROVE LineRead'
  <2>1. parser.state = "req_url" =>
          \E first \in Nat :
            /\ UrlGoesOn(first, Passed)'
            /\ ~inCall => sh.req_url = Places(first, Passed)
            /\ inCall => sh.req_url \o text = Places(first, Passed) /\ marks = {"url"}
    <3>1. SUFFICES ASSUME parser.state = "req_url"
                   PROVE  \E first \in Nat :
                            /\ UrlGoesOn(first, Passed)'
                            /\ ~inCall => sh.req_url = Places(first, Passed)
                            /\ inCall => /\ sh.req_url \o text = Places(first, Passed)
                                         /\ marks = {"url"}
      OBVIOUS
    <3>2. PICK first \in Nat :
            /\ UrlGoesOn(first, Passed)
            /\ ~inCall => sh.req_url = Places(first, Passed)
            /\ inCall => sh.req_url \o text = Places(first, Passed) /\ marks = {"url"}
      BY <1>2, <3>1 DEF LineRead
    <3>3. UrlGoesOn(first, Passed)'
      BY <1>1, <3>2 DEF UrlGoesOn, BlanksTo, NoBlankTo
    <3>4. QED
      BY <3>2, <3>3
  <2>2. /\ parser.state \in EarlyState /\ byte # NoByte => byte = stream.text[pos]
        /\ parser.state \in {"start_req", "req_method"} =>
             sh.req_url = <<>> /\ NoBlankTo(Passed)
        /\ parser.state = "req_spaces" => sh.req_url = <<>> /\ BlanksTo(Passed)
        /\ parser.state \notin EarlyState => sh.req_url = stream.url
    BY <1>2 DEF LineRead
  <2>3. QED
    BY <1>1, <2>1, <2>2 DEF LineRead, BlanksTo, NoBlankTo, EarlyState, Places
<1>3. UrlKnown'
  BY <1>1, <1>2 DEF UrlKnown, BeginsWith
<1>4. QED
  BY <1>3, NothingLearnt

LEMMA NextKnown ==
  ASSUME RunInv, RunInv', UrlKnown, OneRequest, Calm(sh), [ReceiverNext]_allVars
  PROVE  /\ UrlKnown'
         /\ (Learns /\ Undecided) \/ UNCHANGED <<stream, sh, verdict>>
<1>1. CASE Receive
  <2>1. /\ ~inCall /\ byte = NoByte /\ Undecided /\ Undecided' /\ inCall'
        /\ pos < Len(stream.text) /\ byte' = stream.text[pos + 1] /\ pos' = pos + 1
        /\ marks' = Resumed(parser.state) /\ text' = <<>>
        /\ UNCHANGED <<parser, stream, sh, verdict>>
    BY <1>1 DEF Receive, Receiving, Call, Undecided, RunInv, IInv, CallFits
  <2>2. QED
    BY <2>1, GivenKnown
<1>2. CASE MoreData
  <2>1. /\ inCall /\ byte = NoByte /\ inCall'
        /\ pos < Len(stream.text) /\ byte' = stream.text[pos + 1] /\ pos' = pos + 1
        /\ UNCHANGED <<parser, stream, sh, verdict, marks, text>>
    BY <1>2 DEF MoreData, NextByte
  <2>2. Undecided'
    BY <2>1 DEF UrlKnown, Undecided
  <2>3. QED
    BY <2>1, <2>2, GivenKnown
<1>3. CASE DataEnds
  BY <1>3, DataEndsKnown
<1>4. CASE Parses
  <2>1. inCall
    BY <1>4, StartLineFollows, HeaderFollows, BodyFollows DEF Parses, RunInv, ByteFollows
  <2>2. QED
    BY <1>4, <2>1, ParsesKnown DEF UrlKnown
<1>5. CASE ReceiveNothing
  <2>1. Undecided /\ ~inCall /\ UNCHANGED <<vars, stream, pos, text, sh>>
    BY <1>5 DEF ReceiveNothing, Receiving, Undecided
  <2>2. QED
    BY <2>1, SameKnown DEF vars
<1>6. CASE Done \/ UNCHANGED allVars
  <2>1. UNCHANGED allVars
    BY <1>6 DEF Done
  <2>2. /\ UNCHANGED <<parser, byte, inCall, marks, stream, pos, text, sh, verdict>>
        /\ inCall => Undecided'
    BY <2>1 DEF allVars, vars, receiverVars, UrlKnown, Undecided
  <2>3. QED
    BY <2>2, SameKnown
<1>7. QED
  BY <1>1, <1>2, <1>3, <1>4, <1>5, <1>6 DEF ReceiverNext

-----------------------------------------------------------------------------
(* What the proxy relies on.                                               *)

LEMMA BeginningIs ==
  ASSUME NEW url \in Seq(Nat), NEW part, BeginsWith(url, part)
  PROVE  part = SubSeq(url, 1, Len(part))
<1>1. part \in Seq(Nat) /\ Len(part) \in Nat /\ Len(url) \in Nat /\ Len(part) <= Len(url)
  BY LenProperties DEF BeginsWith
<1>2. /\ SubSeq(url, 1, Len(part)) \in Seq(Nat)
      /\ Len(SubSeq(url, 1, Len(part))) = Len(part)
      /\ \A i \in 1..Len(part) : SubSeq(url, 1, Len(part))[i] = url[i]
  <2>1. 1..Len(part) \subseteq 1..Len(url)
    BY <1>1
  <2>2. /\ SubSeq(url, 1, Len(part)) \in Seq(Nat)
        /\ Len(SubSeq(url, 1, Len(part))) = IF 1 <= Len(part) THEN Len(part) - 1 + 1 ELSE 0
        /\ \A i \in 1..(Len(part) - 1 + 1) : SubSeq(url, 1, Len(part))[i] = url[1 + i - 1]
    BY <1>1, <2>1, SubSeqProperties
  <2>3. \A i \in 1..Len(part) : 1 + i - 1 = i
    BY <1>1
  <2>4. Len(part) - 1 + 1 = Len(part) /\ (~(1 <= Len(part)) => Len(part) = 0)
    BY <1>1
  <2>5. QED
    BY <2>2, <2>3, <2>4
<1>3. \A i \in 1..Len(part) : SubSeq(url, 1, Len(part))[i] = part[i]
  BY <1>2 DEF BeginsWith
<1>4. QED
  BY <1>1, <1>2, <1>3, SeqEqual

LEMMA IntakeStep ==
  ASSUME Placed, UrlKnown, Undecided, Learns
  PROVE  [Intake!Next]_(Intake!vars)
<1> DEFINE refused == verdict \in {"closed", "unparsed", "bad_url"}
<1>1. ~refused
  BY DEF Undecided
<1>2. /\ stream' = stream /\ sh.req_ready \in BOOLEAN /\ sh'.req_ready \in BOOLEAN
      /\ sh.req_ready => sh'.req_ready /\ sh'.req_url = sh.req_url
      /\ sh'.req_ready /\ ~sh.req_ready =>
           sh.req_url = stream.url /\ sh'.req_url = stream.url
  BY DEF Learns, UrlKnown
<1>3. sh'.req_url \in Intake!Prefixes
  <2>1. stream.url \in Seq(Nat) /\ BeginsWith(stream.url, sh'.req_url)
    BY NothingIsRead DEF Learns
  <2>2. sh'.req_url = SubSeq(stream.url, 1, Len(sh'.req_url))
    BY <2>1, BeginningIs
  <2>3. Len(sh'.req_url) \in Len(sh.req_url)..Len(stream.url)
    <3>1. sh.req_url \in Seq(Nat) /\ sh'.req_url \in Seq(Nat)
      BY DEF UrlKnown, Learns, BeginsWith
    <3>2. Len(sh.req_url) \in Nat /\ Len(sh'.req_url) \in Nat /\ Len(stream.url) \in Nat
      BY <2>1, <3>1, LenProperties
    <3>3. Len(sh.req_url) <= Len(sh'.req_url) /\ Len(sh'.req_url) <= Len(stream.url)
      BY DEF Learns, BeginsWith
    <3>4. QED
      BY <3>2, <3>3
  <2>4. QED
    BY <2>2, <2>3 DEF Intake!Prefixes
<1>4. CASE refused'
  <2>1. sh'.req_url \in IF sh.req_ready THEN {sh.req_url} ELSE Intake!Prefixes
    BY <1>2, <1>3
  <2>2. sh'.req_ready \in {sh.req_ready} \cup IF sh.req_url = stream.url THEN {TRUE} ELSE {}
    BY <1>2
  <2>3. Intake!Refuse
    BY <1>1, <1>2, <1>4, <2>1, <2>2 DEF Intake!Refuse
  <2>4. QED
    BY <2>3 DEF Intake!Next
<1>5. CASE ~refused' /\ sh'.req_ready = sh.req_ready /\ ~sh.req_ready
  <2>1. Intake!Learn
    BY <1>1, <1>2, <1>3, <1>5 DEF Intake!Learn
  <2>2. QED
    BY <2>1 DEF Intake!Next
<1>6. CASE ~refused' /\ sh'.req_ready = sh.req_ready /\ sh.req_ready
  <2>1. UNCHANGED Intake!vars
    BY <1>1, <1>2, <1>6 DEF Intake!vars
  <2>2. QED
    BY <2>1
<1>7. CASE ~refused' /\ sh'.req_ready # sh.req_ready
  <2>1. sh'.req_ready = TRUE /\ ~sh.req_ready
    BY <1>2, <1>7
  <2>2. Intake!Complete
    BY <1>1, <1>2, <1>7, <2>1 DEF Intake!Complete
  <2>3. QED
    BY <2>2 DEF Intake!Next
<1>8. QED
  BY <1>4, <1>5, <1>6, <1>7

\* However a request is cut, and whatever of it is refused, the handler's url is
\* put together from the front of that of the request line, is whole when the
\* request is said to be there, and stays so: unless one recv() also brings the
\* url of a second request, which onURL would add to it (SocketHandler.cpp:59).
THEOREM RequestIntakeRefinement == ReceiverSpec /\ []OneRequest => ImplementsIntake
<1>1. ReceiverInit => Intake!Init /\ UrlKnown
  <2>1. SUFFICES ASSUME ReceiverInit PROVE Intake!Init /\ UrlKnown
    OBVIOUS
  <2>2. /\ parser.state = "start_req" /\ byte = NoByte /\ ~inCall /\ marks = {}
        /\ pos = 0 /\ text = <<>> /\ sh.req_url = <<>> /\ sh.req_ready = FALSE
        /\ verdict = "none" /\ stream \in Streams
    BY <2>1 DEF ReceiverInit, Init, Fresh, StartState, NewHandler
  <2>3. Placed
    BY <2>2 DEF Placed
  <2>4. BeginsWith(stream.url, sh.req_url)
    BY <2>2, <2>3, NothingIsRead DEF BeginsWith
  <2>5. ByteIsGiven
    <3>1. stream.text \in Seq(Byte)
      BY <2>2, StreamsAssumption
    <3>2. Len(stream.text) \in Nat
      BY <3>1, LenProperties
    <3>3. QED
      BY <2>2, <3>2 DEF ByteIsGiven
  <2>6. LineRead
    BY <2>2 DEF LineRead, NoBlankTo, Passed, EarlyState
  <2>7. UrlKnown
    BY <2>2, <2>4, <2>5, <2>6, EmptySeq DEF UrlKnown
  <2>8. QED
    BY <2>2, <2>7 DEF Intake!Init
<1>2. Calm(sh) /\ [ReceiverNext]_allVars => Calm(sh)'
  BY NextCalm DEF Calm, AnswersOne
<1>3. RunInv /\ RunInv' /\ Calm(sh) /\ OneRequest /\ UrlKnown /\ [ReceiverNext]_allVars
        => UrlKnown'
  BY NextKnown
<1>4. RunInv /\ RunInv' /\ Calm(sh) /\ OneRequest /\ UrlKnown /\ [ReceiverNext]_allVars
        => [Intake!Next]_(Intake!vars)
  <2>1. SUFFICES ASSUME RunInv, RunInv', Calm(sh), OneRequest, UrlKnown,
                        [ReceiverNext]_allVars
                 PROVE  [Intake!Next]_(Intake!vars)
    OBVIOUS
  <2>2. CASE UNCHANGED <<stream, sh, verdict>>
    BY <2>2 DEF Intake!vars
  <2>3. CASE Learns /\ Undecided
    BY <2>1, <2>3, IntakeStep DEF RunInv
  <2>4. QED
    BY <2>1, <2>2, <2>3, NextKnown
<1>5. QED
  BY <1>1, <1>2, <1>3, <1>4, InitCalm, RunInvariance, PTL
  DEF ReceiverSpec, ImplementsIntake, Intake!Spec

-----------------------------------------------------------------------------
(* Lines of headers: what lies in t up to place n.                         *)

\* A name is read.
NameGoesOn(t, first, n) ==
  /\ first \in 2..n
  /\ t[first - 1] = "LF"
  /\ \A i \in first..n : t[i] \in Token

NameBegun(t, n, name) ==
  \E first \in Nat : NameGoesOn(t, first, n) /\ name = Places(first, n)

\* A name is there, and only blanks after its colon.
NameKnown(t, n, name) ==
  \E first, last \in Nat :
    /\ NameGoesOn(t, first, last)
    /\ t[last + 1] = "COLON"
    /\ last + 1 <= n
    /\ \A i \in (last + 2)..n : t[i] \in Blank
    /\ name = Places(first, last)

\* A name is there, and the line has ended without a value.
NameAlone(t, n, name) ==
  \E k \in 1..n : NameKnown(t, k - 1, name) /\ t[k] \in Ends

\* A value is read.
ValueGoesTo(t, from, n) ==
  /\ from \in 1..n
  /\ t[from] \notin Blank
  /\ \A i \in from..n : t[i] \notin Ends

ValueBegun(t, n, name, at) ==
  \E from \in Nat :
    /\ NameKnown(t, from - 1, name)
    /\ ValueGoesTo(t, from, n)
    /\ at = Places(from, n)

LineStarts(t, n) == n \in 1..Len(t) /\ t[n] = "LF"

Pair(name, at) == [field |-> name, value |-> at]

\* A name begins.
LEMMA NameBegins ==
  ASSUME NEW t, NEW n \in Nat, LineStarts(t, n), t[n + 1] \in Token
  PROVE  NameBegun(t, n + 1, <<>> \o Append(<<>>, n + 1))
<1>1. NameGoesOn(t, n + 1, n + 1)
  BY DEF NameGoesOn, LineStarts
<1>2. <<>> \o Append(<<>>, n + 1) = Places(n + 1, n + 1)
  BY FirstPlace
<1>3. QED
  BY <1>1, <1>2 DEF NameBegun

LEMMA NameGrows ==
  ASSUME NEW t, NEW n \in Nat, NEW s \in Seq(Nat), NEW at \in Seq(Nat),
         NameBegun(t, n, s \o at), t[n + 1] \in Token
  PROVE  NameBegun(t, n + 1, s \o Append(at, n + 1))
<1>1. PICK first \in Nat : NameGoesOn(t, first, n) /\ s \o at = Places(first, n)
  BY DEF NameBegun
<1>2. first \in 1..n /\ first \in 2..(n + 1)
  BY <1>1 DEF NameGoesOn
<1>3. NameGoesOn(t, first, n + 1)
  <2>1. \A i \in first..(n + 1) : i \in first..n \/ i = n + 1
    BY <1>2
  <2>2. QED
    BY <1>1, <1>2, <2>1 DEF NameGoesOn
<1>4. s \o Append(at, n + 1) = Places(first, n + 1)
  BY <1>1, <1>2, PlacesLonger
<1>5. QED
  BY <1>3, <1>4 DEF NameBegun

LEMMA NameEnds ==
  ASSUME NEW t, NEW n \in Nat, NEW name, NameBegun(t, n, name), t[n + 1] = "COLON"
  PROVE  NameKnown(t, n + 1, name)
<1>1. PICK first \in Nat : NameGoesOn(t, first, n) /\ name = Places(first, n)
  BY DEF NameBegun
<1>2. \A i \in (n + 2)..(n + 1) : t[i] \in Blank
  OBVIOUS
<1>3. QED
  BY <1>1, <1>2 DEF NameKnown

LEMMA BlankFollows ==
  ASSUME NEW t, NEW n \in Nat, NEW name, NameKnown(t, n, name), t[n + 1] \in Blank
  PROVE  NameKnown(t, n + 1, name)
<1>1. PICK first \in Nat, last \in Nat :
        /\ NameGoesOn(t, first, last) /\ t[last + 1] = "COLON" /\ last + 1 <= n
        /\ \A i \in (last + 2)..n : t[i] \in Blank
        /\ name = Places(first, last)
  BY DEF NameKnown
<1>2. \A i \in (last + 2)..(n + 1) : i \in (last + 2)..n \/ i = n + 1
  OBVIOUS
<1>3. \A i \in (last + 2)..(n + 1) : t[i] \in Blank
  BY <1>1, <1>2
<1>4. last + 1 <= n + 1
  BY <1>1
<1>5. QED
  BY <1>1, <1>3, <1>4 DEF NameKnown

LEMMA NoValueFollows ==
  ASSUME NEW t, NEW n \in Nat, NEW name, NameKnown(t, n, name), t[n + 1] \in Ends
  PROVE  NameAlone(t, n + 1, name)
<1>1. n + 1 \in 1..(n + 1) /\ n + 1 - 1 = n
  OBVIOUS
<1>2. QED
  BY <1>1 DEF NameAlone

LEMMA StillAlone ==
  ASSUME NEW t, NEW n \in Nat, NEW name, NameAlone(t, n, name)
  PROVE  NameAlone(t, n + 1, name)
<1>1. \A k \in 1..n : k \in 1..(n + 1)
  OBVIOUS
<1>2. QED
  BY <1>1 DEF NameAlone

LEMMA ValueStarts ==
  ASSUME NEW t, NEW n \in Nat, NEW name, NameKnown(t, n, name),
         t[n + 1] \notin Ends \cup Blank
  PROVE  ValueBegun(t, n + 1, name, Append(<<>>, n + 1))
<1>1. n + 1 \in Nat /\ n + 1 - 1 = n
  OBVIOUS
<1>2. ValueGoesTo(t, n + 1, n + 1)
  BY DEF ValueGoesTo
<1>3. Append(<<>>, n + 1) = Places(n + 1, n + 1)
  <2>1. <<>> \o Append(<<>>, n + 1) = Places(n + 1, n + 1)
    BY FirstPlace
  <2>2. <<>> \o Append(<<>>, n + 1) = Append(<<>>, n + 1)
    OBVIOUS
  <2>3. QED
    BY <2>1, <2>2
<1>4. QED
  BY <1>1, <1>2, <1>3 DEF ValueBegun

LEMMA ValueGrows ==
  ASSUME NEW t, NEW n \in Nat, NEW name, NEW at \in Seq(Nat),
         ValueBegun(t, n, name, at), t[n + 1] \notin Ends
  PROVE  ValueBegun(t, n + 1, name, Append(at, n + 1))
<1>1. PICK from \in Nat : NameKnown(t, from - 1, name) /\ ValueGoesTo(t, from, n)
                          /\ at = Places(from, n)
  BY DEF ValueBegun
<1>2. from \in 1..n /\ from \in 1..(n + 1)
  BY <1>1 DEF ValueGoesTo
<1>3. ValueGoesTo(t, from, n + 1)
  <2>1. \A i \in from..(n + 1) : i \in from..n \/ i = n + 1
    BY <1>2
  <2>2. QED
    BY <1>1, <1>2, <2>1 DEF ValueGoesTo
<1>4. Append(at, n + 1) = Places(from, n + 1)
  <2>1. <<>> \in Seq(Nat) /\ n + 1 \in Nat
    OBVIOUS
  <2>2. <<>> \o at = at
    BY ConcatEmptySeq
  <2>3. <<>> \o Append(at, n + 1) = Places(from, n + 1)
    BY <1>1, <1>2, <2>1, <2>2, PlacesLonger
  <2>4. Append(at, n + 1) \in Seq(Nat)
    BY <2>1, AppendProperties
  <2>5. <<>> \o Append(at, n + 1) = Append(at, n + 1)
    BY <2>4, ConcatEmptySeq
  <2>6. QED
    BY <2>3, <2>5
<1>5. QED
  BY <1>1, <1>3, <1>4 DEF ValueBegun

\* A header whose line has ended is one of the stream's.
LEMMA HeaderIsThere ==
  ASSUME Placed, NEW name, NEW from \in Nat, NEW upto \in Nat,
         NameKnown(stream.text, from - 1, name),
         from <= upto + 1, upto < Len(stream.text),
         from <= upto => stream.text[from] \notin Blank,
         \A i \in from..upto : stream.text[i] \notin Ends,
         stream.text[upto + 1] \in Ends
  PROVE  Pair(name, Places(from, upto)) \in stream.headers
<1>1. Len(stream.text) \in Nat /\ DOMAIN stream.text = 1..Len(stream.text)
  BY StreamsAssumption, LenProperties DEF Placed
<1>2. PICK first \in Nat, last \in Nat :
        /\ NameGoesOn(stream.text, first, last) /\ stream.text[last + 1] = "COLON"
        /\ last + 1 <= from - 1
        /\ \A i \in (last + 2)..(from - 1) : stream.text[i] \in Blank
        /\ name = Places(first, last)
  BY DEF NameKnown
<1>3. first \in 2..last
  BY <1>2 DEF NameGoesOn
<1>4. /\ first \in DOMAIN stream.text /\ last \in DOMAIN stream.text
      /\ from \in DOMAIN stream.text /\ upto \in DOMAIN stream.text
  BY <1>1, <1>2, <1>3
<1>5. HeaderLies(stream.text, first, last, from, upto)
  BY <1>2, <1>3 DEF HeaderLies, NameGoesOn
<1>6. [field |-> Places(first, last), value |-> Places(from, upto)] \in stream.headers
  <2>1. stream \in Streams
    BY DEF Placed
  <2>2. QED
    BY <1>4, <1>5, <2>1, LinesAssumption
<1>7. QED
  BY <1>2, <1>6 DEF Pair

LEMMA ValueIsThere ==
  ASSUME Placed, NEW name, NEW at, NEW n \in Nat,
         ValueBegun(stream.text, n, name, at),
         n < Len(stream.text), stream.text[n + 1] \in Ends
  PROVE  Pair(name, at) \in stream.headers
<1>1. PICK from \in Nat : /\ NameKnown(stream.text, from - 1, name)
                          /\ ValueGoesTo(stream.text, from, n)
                          /\ at = Places(from, n)
  BY DEF ValueBegun
<1>2. /\ from <= n + 1 /\ (from <= n => stream.text[from] \notin Blank)
      /\ \A i \in from..n : stream.text[i] \notin Ends
  BY <1>1 DEF ValueGoesTo
<1>3. Pair(name, Places(from, n)) \in stream.headers
  BY <1>1, <1>2, HeaderIsThere
<1>4. QED
  BY <1>1, <1>3

LEMMA NoValueIsThere ==
  ASSUME Placed, NEW name, NEW n \in Nat, n <= Len(stream.text),
         NameAlone(stream.text, n, name)
  PROVE  Pair(name, <<>>) \in stream.headers
<1>1. Len(stream.text) \in Nat
  BY StreamsAssumption, LenProperties DEF Placed
<1>2. PICK k \in 1..n : NameKnown(stream.text, k - 1, name) /\ stream.text[k] \in Ends
  BY DEF NameAlone
<1>3. /\ k \in Nat /\ k - 1 \in Nat /\ k <= k - 1 + 1 /\ k - 1 < Len(stream.text)
      /\ k - 1 + 1 = k
  BY <1>1
<1>4. ~(k <= k - 1) /\ \A i \in k..(k - 1) : stream.text[i] \notin Ends
  BY <1>3
<1>5. Pair(name, Places(k, k - 1)) \in stream.headers
  BY <1>2, <1>3, <1>4, HeaderIsThere
<1>6. Places(k, k - 1) = <<>>
  BY <1>3 DEF Places
<1>7. QED
  BY <1>5, <1>6

-----------------------------------------------------------------------------
(* The parser within a line of the headers.                                *)

ValueAhead == {"header_value_discard_ws", "header_value_discard_ws_almost_done",
               "header_value_discard_lws", "header_value_start"}

AfterValue == {"header_almost_done", "header_value_lws"}

ReadingState == {"header_field_start", "header_field", "header_value"} \cup ValueAhead
                  \cup AfterValue

\* The case of the switch for each of the states.
ReadingCases ==
  /\ parser.state = "header_field_start" => HeaderFieldStart
  /\ parser.state = "header_field" => HeaderField
  /\ parser.state = "header_value_discard_ws" => DiscardWs
  /\ parser.state = "header_value_discard_ws_almost_done" => DiscardWsAlmostDone
  /\ parser.state = "header_value_discard_lws" => DiscardLws
  /\ parser.state = "header_value_start" => HeaderValueStart
  /\ parser.state = "header_value" => HeaderValue \/ ContentLength \/ HeaderValueEnds
  /\ parser.state = "header_almost_done" => HeaderAlmostDone
  /\ parser.state = "header_value_lws" => HeaderValueLws

LEMMA ReadingIsHeader ==
  ASSUME parser.state \in ReadingState, StartLineNext \/ HeaderNext \/ BodyNext
  PROVE  ReadingCases
<1>1. ~StartLineNext /\ ~BodyNext
  BY DEF ReadingState, ValueAhead, AfterValue, StartLineNext, BlankLine, Dead, StartRes,
         StartReq, ResLine, ResStatus, ReqMethod, ReqSpaces, ReqUrl, ReqHttp,
         LineAlmostDone, BodyNext, BodyPart, BodyIdentity, BodyIdentityEof, MessageDone,
         ChunkSizeStart, ChunkSize, ChunkParameters, ChunkSizeAlmostDone, ChunkData,
         ChunkDataAlmostDone, ChunkDataDone, In
<1>2. HeaderNext
  BY <1>1
<1>3. ~HeadersAlmostDone /\ ~HeadersDone
  BY DEF ReadingState, ValueAhead, AfterValue, HeadersAlmostDone, HeadersDone, In
<1>4. QED
  BY <1>2, <1>3 DEF ReadingCases, HeaderNext, HeaderFieldStart, HeaderField, DiscardWs,
       DiscardWsAlmostDone, DiscardLws, HeaderValueStart, HeaderValue, ContentLength,
       HeaderValueEnds, HeaderAlmostDone, HeaderValueLws, In

LEMMA Failed ==
  ASSUME NEW p \in Record, NEW e, Fails(p, e)
  PROVE  parser'.errno = e
BY DEF Fails, Record

LEMMA NameStartMoves ==
  ASSUME IInv, HeaderFieldStart, parser'.errno = "OK"
  PROVE  /\ inCall'
         /\ \/ byte \in Ends /\ parser'.state = "headers_almost_done" /\ marks' = {}
            \/ /\ byte \in Token /\ byte' = NoByte
               /\ parser'.state = "header_field" /\ marks' = {"header_field"}
<1>1. "header_field_start" \in States /\ "headers_almost_done" \in States
      /\ "header_field" \in States
  BY DEF States, HeadState
<1>2. inCall /\ parser \in Record /\ marks = {}
  BY <1>1, AtByte, MarksOf DEF HeaderFieldStart
<1>3. ~Fails(parser, "INVALID_HEADER_TOKEN")
  BY <1>2, Failed
<1>4. /\ At("headers_almost_done").state = "headers_almost_done"
      /\ At("header_field").state = "header_field"
  BY <1>1, <1>2, AtFields
<1>5. QED
  BY <1>2, <1>3, <1>4 DEF HeaderFieldStart, Takes, Again, Step, Ends

LEMMA NameMoves ==
  ASSUME IInv, HeaderField, parser'.errno = "OK"
  PROVE  /\ inCall' /\ byte' = NoByte
         /\ \/ byte \in Token /\ parser'.state = "header_field" /\ marks' = marks
            \/ /\ byte = "COLON" /\ marks' = {}
               /\ parser'.state = "header_value_discard_ws"
<1>1. "header_field" \in States
  BY DEF States, HeadState
<1>2. inCall /\ parser \in Record /\ marks \subseteq {"header_field"}
      /\ parser.state = "header_field"
  BY <1>1, AtByte, MarksOf DEF HeaderField
<1>3. ~Fails(parser, "INVALID_HEADER_TOKEN")
  BY <1>2, Failed
<1>4. ASSUME NEW h, NEW te
      PROVE  [At("header_value_discard_ws") EXCEPT !.header = h, !.usesTE = @ \/ te].state
               = "header_value_discard_ws"
  BY <1>2 DEF At, Record
<1>5. QED
  BY <1>2, <1>3, <1>4 DEF HeaderField, Takes, Step

LEMMA BlanksMoves ==
  ASSUME IInv, DiscardWs
  PROVE  /\ inCall' /\ marks' = {}
         /\ \/ /\ byte \in Blank /\ byte' = NoByte
               /\ parser'.state = "header_value_discard_ws"
            \/ /\ byte \in Ends /\ byte' = NoByte
               /\ parser'.state = "header_value_discard_ws_almost_done"
            \/ /\ byte = "LF" /\ byte' = NoByte
               /\ parser'.state = "header_value_discard_lws"
            \/ /\ byte \notin Ends \cup Blank /\ byte' = byte
               /\ parser'.state = "header_value_start"
<1>1. /\ "header_value_discard_ws" \in States /\ "header_value_start" \in States
      /\ "header_value_discard_ws_almost_done" \in States
      /\ "header_value_discard_lws" \in States
  BY DEF States, HeadState
<1>2. /\ inCall /\ parser \in Record /\ marks = {}
      /\ parser.state = "header_value_discard_ws"
  BY <1>1, AtByte, MarksOf DEF DiscardWs
<1>3. /\ At("header_value_start").state = "header_value_start"
      /\ At("header_value_discard_ws_almost_done").state =
           "header_value_discard_ws_almost_done"
      /\ At("header_value_discard_lws").state = "header_value_discard_lws"
  BY <1>1, <1>2, AtFields
<1>4. QED
  BY <1>2, <1>3 DEF DiscardWs, Takes, Again, Step, Ends

LEMMA NoValueMoves ==
  ASSUME IInv, DiscardWsAlmostDone, parser'.errno = "OK"
  PROVE  /\ inCall' /\ marks' = {} /\ byte = "LF" /\ byte' = NoByte
         /\ parser'.state = "header_value_discard_lws"
<1>1. /\ "header_value_discard_ws_almost_done" \in States
      /\ "header_value_discard_lws" \in States
  BY DEF States, HeadState
<1>2. inCall /\ parser \in Record /\ marks = {}
  BY <1>1, AtByte, MarksOf DEF DiscardWsAlmostDone
<1>3. At("header_value_discard_lws").state = "header_value_discard_lws"
  BY <1>1, <1>2, AtFields
<1>4. ~Fails(parser, "STRICT")
  BY <1>2, Failed
<1>5. QED
  BY <1>2, <1>3, <1>4 DEF DiscardWsAlmostDone, Takes, Step

LEMMA EmptyMoves ==
  ASSUME IInv, NoLineGoesOn, DiscardLws, parser'.errno = "OK"
  PROVE  /\ inCall' /\ marks' = {} /\ byte' = byte
         /\ parser'.state = "header_field_start"
<1>1. "header_value_discard_lws" \in States
  BY DEF States, HeadState
<1>2. /\ inCall /\ parser \in Record /\ marks = {}
      /\ parser.state = "header_value_discard_lws"
  BY <1>1, AtByte, MarksOf DEF DiscardLws
<1>3. byte \notin Blank
  BY <1>2 DEF NoLineGoesOn
<1>4. HeaderDone(parser).state = "header_field_start"
  BY <1>2, HeaderDoneFields
<1>5. ~Fails(parser, "INVALID_CONTENT_LENGTH")
  BY <1>2, Failed
<1>6. QED
  BY <1>2, <1>3, <1>4, <1>5 DEF DiscardLws, Again, Step

LEMMA ValueStartMoves ==
  ASSUME IInv, HeaderValueStart, parser'.errno = "OK"
  PROVE  /\ inCall' /\ marks = {} /\ marks' = {"header_value"} /\ byte' = NoByte
         /\ parser'.state = "header_value"
<1>1. "header_value_start" \in States /\ "header_value" \in States
  BY DEF States, HeadState
<1>2. inCall /\ parser \in Record /\ marks = {}
  BY <1>1, AtByte, MarksOf DEF HeaderValueStart
<1>3. /\ At("header_value") \in Record /\ At("header_value").state = "header_value"
      /\ At("header_value").header = parser.header
  BY <1>1, <1>2, AtFields
<1>4. ASSUME NEW p \in ValueBegins(At("header_value")), parser.header # "content_length"
      PROVE  p.state = "header_value"
  BY <1>3, <1>4, ValueBeginsFields
<1>5. ASSUME NEW d PROVE FirstDigit(At("header_value"), d).state = "header_value"
  BY <1>3 DEF FirstDigit, Record
<1>6. ~Fails(At("header_value"), "CONTENT_LENGTH")
  BY <1>3, Failed
<1>7. QED
  BY <1>2, <1>4, <1>5, <1>6 DEF HeaderValueStart, Takes, Step

LEMMA ValueMoves ==
  ASSUME IInv, HeaderValue \/ ContentLength \/ HeaderValueEnds, parser'.errno = "OK"
  PROVE  /\ inCall'
         /\ \/ /\ byte \notin Ends /\ byte' = NoByte /\ marks' = marks
               /\ parser'.state = "header_value"
            \/ byte \in Ends /\ marks' = {} /\ parser'.state = "header_almost_done"
<1>1. "header_value" \in States /\ "header_almost_done" \in States
  BY DEF States, HeadState
<1>2. inCall /\ parser \in Record /\ marks \subseteq {"header_value"}
      /\ parser.state = "header_value"
  BY <1>1, AtByte, MarksOf DEF HeaderValue, ContentLength, HeaderValueEnds
<1>3. CASE HeaderValue
  <2>1. ASSUME NEW h PROVE [OptionEnds(parser) EXCEPT !.header = h].state = parser.state
    <3>1. OptionEnds(parser) \in Record /\ OptionEnds(parser).state = parser.state
      BY <1>2, SaidFields DEF OptionEnds
    <3>2. QED
      BY <3>1 DEF Record
  <2>2. QED
    BY <1>2, <1>3, <2>1 DEF HeaderValue, Takes, Step
<1>4. CASE ContentLength
  <2>1. ~Fails(parser, "INVALID_CONTENT_LENGTH")
    BY <1>2, Failed
  <2>2. /\ \A h : [parser EXCEPT !.header = h].state = parser.state
        /\ \A d : Fold(parser, 10, d).state = parser.state
    BY <1>2 DEF Fold, Record
  <2>3. QED
    BY <1>2, <1>4, <2>1, <2>2 DEF ContentLength, Takes, Step
<1>5. CASE HeaderValueEnds
  <2>1. ~Fails(parser, "INVALID_HEADER_TOKEN")
    BY <1>2, Failed
  <2>2. At("header_almost_done").state = "header_almost_done"
    BY <1>1, <1>2, AtFields
  <2>3. QED
    BY <1>2, <1>5, <2>1, <2>2 DEF HeaderValueEnds, Takes, Again, Step, Ends
<1>6. QED
  BY <1>3, <1>4, <1>5

LEMMA LineEndMoves ==
  ASSUME IInv, HeaderAlmostDone, parser'.errno = "OK"
  PROVE  /\ inCall' /\ marks' = {} /\ byte = "LF" /\ byte' = NoByte
         /\ parser'.state = "header_value_lws"
<1>1. "header_almost_done" \in States /\ "header_value_lws" \in States
  BY DEF States, HeadState
<1>2. inCall /\ parser \in Record /\ marks = {}
  BY <1>1, AtByte, MarksOf DEF HeaderAlmostDone
<1>3. At("header_value_lws").state = "header_value_lws"
  BY <1>1, <1>2, AtFields
<1>4. ~Fails(parser, "LF_EXPECTED")
  BY <1>2, Failed
<1>5. QED
  BY <1>2, <1>3, <1>4 DEF HeaderAlmostDone, Takes, Step

LEMMA NextLineMoves ==
  ASSUME IInv, NoLineGoesOn, HeaderValueLws
  PROVE  /\ inCall' /\ marks' = {} /\ byte' = byte
         /\ parser'.state = "header_field_start"
<1>1. "header_value_lws" \in States
  BY DEF States, HeadState
<1>2. inCall /\ parser \in Record /\ marks = {} /\ parser.state = "header_value_lws"
  BY <1>1, AtByte, MarksOf DEF HeaderValueLws
<1>3. byte \notin Blank
  BY <1>2 DEF NoLineGoesOn
<1>4. HeaderDone(parser).state = "header_field_start"
  BY <1>2, HeaderDoneFields
<1>5. QED
  BY <1>2, <1>3, <1>4 DEF HeaderValueLws, Again, Step

\* Any other step leads to the headers only by the end of a line.
OtherStep ==
  \/ parser'.state \notin ReadingState
  \/ parser'.state = "header_field_start" /\ byte = "LF" /\ byte' = NoByte

LEMMA OtherLineStep ==
  ASSUME IInv, StartLineNext
  PROVE  OtherStep
<1> USE AtByte DEF OtherStep, ReadingState, ValueAhead, AfterValue, States, HeadState
<1>1. parser \in Record
  BY DEF IInv, Typed
<1>2. CASE BlankLine \/ Dead
  BY <1>1, <1>2 DEF BlankLine, Dead, Takes, Step, Fails, Record, In
<1>3. CASE LineAlmostDone
  <2>1. At("header_field_start").state = "header_field_start"
    BY <1>1, AtFields
  <2>2. parser.state = "line_almost_done"
    BY <1>3 DEF LineAlmostDone, In
  <2>3. QED
    BY <1>1, <1>3, <2>1, <2>2 DEF LineAlmostDone, Takes, Step, Fails, Record
<1>4. CASE StartRes \/ StartReq
  <2>1. Cleared(parser) \in Record /\ Cleared(parser).state \in {"start_res", "start_req"}
    BY <1>1, <1>4, ClearedFields DEF StartRes, StartReq, In
  <2>2. \A t : [Cleared(parser) EXCEPT !.state = t].state = t
    BY <2>1 DEF Record
  <2>3. \A e : [Cleared(parser) EXCEPT !.errno = e].state \in {"start_res", "start_req"}
    BY <2>1 DEF Record
  <2>4. QED
    BY <1>4, <2>2, <2>3 DEF StartRes, StartReq, Begins, Step, Fails
<1>5. CASE ResLine
  <2>1. ASSUME NEW v \in BOOLEAN, NEW status \in {"none", "switching", "plain"}
        PROVE  StatusLine(parser, v, status).state = "res_status"
    BY <1>1 DEF StatusLine, Record
  <2>2. CASE parser' = parser \/ Fails(parser, "INVALID_STATUS")
    BY <1>1, <1>5, <2>2 DEF ResLine, In, Fails, Record
  <2>3. QED
    BY <1>5, <2>1, <2>2 DEF ResLine, Takes, Again, Step
<1>6. CASE ResStatus
  <2>1. /\ At("line_almost_done").state = "line_almost_done"
        /\ At("header_field_start").state = "header_field_start"
    BY <1>1, AtFields
  <2>2. parser.state = "res_status"
    BY <1>6 DEF ResStatus, In
  <2>3. QED
    BY <1>6, <2>1, <2>2 DEF ResStatus, Takes, Step
<1>7. CASE ReqHttp \/ ReqUrl
  <2>1. ASSUME NEW v \in BOOLEAN, byte \in Ends
        PROVE  \/ RequestLine(v).state = "line_almost_done"
               \/ RequestLine(v).state = "header_field_start" /\ byte = "LF"
    BY <1>1, <2>1 DEF RequestLine, Record, Ends
  <2>2. At("req_http").state = "req_http"
    BY <1>1, AtFields
  <2>3. parser.state \in {"req_http", "req_url"}
    BY <1>7 DEF ReqHttp, ReqUrl, In
  <2>4. CASE ReqHttp
    BY <1>1, <2>1, <2>3, <2>4 DEF ReqHttp, Takes, Step, Fails, Record
  <2>5. CASE ReqUrl
    BY <1>1, <2>1, <2>2, <2>3, <2>5 DEF ReqUrl, Takes, Step, Fails, Record
  <2>6. QED
    BY <1>7, <2>4, <2>5
<1>8. CASE ReqMethod
  <2>1. \A c : [At("req_spaces") EXCEPT !.connect = c].state = "req_spaces"
    BY <1>1 DEF At, Record
  <2>2. QED
    BY <1>1, <1>8, <2>1 DEF ReqMethod, Takes, Step, Fails, Record, In
<1>9. CASE ReqSpaces
  <2>1. At("req_url").state = "req_url"
    BY <1>1, AtFields
  <2>2. QED
    BY <1>1, <1>9, <2>1 DEF ReqSpaces, Takes, Step, Fails, Record, In
<1>10. QED
  BY <1>2, <1>3, <1>4, <1>5, <1>6, <1>7, <1>8, <1>9 DEF StartLineNext

LEMMA OtherHeaderStep ==
  ASSUME IInv, HeaderNext, parser.state \notin ReadingState
  PROVE  OtherStep
<1> USE AtByte DEF OtherStep, ReadingState, ValueAhead, AfterValue, States, HeadState
<1>1. parser \in Record
  BY DEF IInv, Typed
<1>2. HeadersAlmostDone \/ HeadersDone
  BY DEF HeaderNext, HeaderFieldStart, HeaderField, DiscardWs, DiscardWsAlmostDone,
         DiscardLws, HeaderValueStart, HeaderValue, ContentLength, HeaderValueEnds,
         HeaderAlmostDone, HeaderValueLws, In
<1>3. CASE HeadersAlmostDone
  <2>1. [At("headers_done") EXCEPT !.upgrade = Upgrades(parser)].state = "headers_done"
    BY <1>1 DEF At, Record
  <2>2. At("message_done").state = "message_done"
    BY <1>1 DEF At, Record
  <2>3. parser.state = "headers_almost_done"
    BY <1>3 DEF HeadersAlmostDone, In
  <2>4. QED
    BY <1>1, <1>3, <2>1, <2>2, <2>3 DEF HeadersAlmostDone, Again, Step, Fails, Record
<1>4. CASE HeadersDone
  <2>1. parser.state = "headers_done"
    BY <1>4 DEF HeadersDone, In
  <2>2. /\ BodyStart(parser) \in {"chunk_size_start", "body_identity", "body_identity_eof"}
        /\ BodyStart(parser) \in States
    BY DEF BodyStart, BodyState
  <2>3. CASE Completes
    <3>1. /\ NewMessage(parser) \in {"start_req", "start_res", "dead"}
      BY <1>1 DEF NewMessage, StartState
    <3>2. At(NewMessage(parser)).state = NewMessage(parser)
      BY <1>1, <3>1, AtFields
    <3>3. QED
      BY <2>3, <3>1, <3>2 DEF Completes
  <2>4. CASE ~Completes
    <3>1. At(BodyStart(parser)).state = BodyStart(parser)
      BY <1>1, <2>2, AtFields
    <3>2. QED
      BY <1>1, <1>4, <2>1, <2>2, <2>4, <3>1 DEF HeadersDone, Record
  <2>5. QED
    BY <2>3, <2>4
<1>5. QED
  BY <1>2, <1>3, <1>4

LEMMA OtherBodyStep ==
  ASSUME IInv, BodyNext
  PROVE  OtherStep
<1> USE AtByte DEF OtherStep, ReadingState, ValueAhead, AfterValue, States, HeadState,
                   BodyState, Takes, Step, Fails
<1>1. parser \in Record
  BY DEF IInv, Typed
<1>2. CASE \E k \in 1..(MaxLength - 1) : BodyPart(k)
  BY <1>1, <1>2 DEF BodyPart, PartOf, Read, Record, In
<1>3. CASE BodyIdentity \/ BodyIdentityEof \/ ChunkData
  BY <1>1, <1>3, ReadAllFields DEF BodyIdentity, BodyIdentityEof, ChunkData, In
<1>4. CASE MessageDone
  <2>1. NewMessage(parser) \in {"start_req", "start_res", "dead"}
    BY <1>1 DEF NewMessage, StartState
  <2>2. At(NewMessage(parser)).state = NewMessage(parser)
    BY <1>1, <2>1, AtFields
  <2>3. QED
    BY <1>4, <2>1, <2>2 DEF MessageDone, Completes
<1>5. CASE ChunkSizeStart
  <2>1. \A d : [At("chunk_size") EXCEPT !.length = d].state = "chunk_size"
    BY <1>1 DEF At, Record
  <2>2. parser.state = "chunk_size_start"
    BY <1>5 DEF ChunkSizeStart, In
  <2>3. QED
    BY <1>1, <1>5, <2>1, <2>2 DEF ChunkSizeStart, Record
<1>6. CASE ChunkSize \/ ChunkParameters
  BY <1>1, <1>6, AtFields DEF ChunkSize, ChunkParameters, Fold, Record, In
<1>7. CASE ChunkSizeAlmostDone
  <2>1. At("chunk_data").state = "chunk_data"
    BY <1>1, AtFields
  <2>2. [At("header_field_start") EXCEPT !.flags = @ \cup {"trailing"}].state
          = "header_field_start"
    BY <1>1 DEF At, Record
  <2>3. parser.state = "chunk_size_almost_done"
    BY <1>7 DEF ChunkSizeAlmostDone, In
  <2>4. QED
    BY <1>1, <1>7, <2>1, <2>2, <2>3 DEF ChunkSizeAlmostDone, Record
<1>8. CASE ChunkDataAlmostDone \/ ChunkDataDone
  BY <1>1, <1>8, AtFields DEF ChunkDataAlmostDone, ChunkDataDone, Record, In
<1>9. QED
  BY <1>2, <1>3, <1>4, <1>5, <1>6, <1>7, <1>8 DEF BodyNext

\* A byte that stays to be looked at is the one at the place, but at the end of a
\* body.
LEMMA BulkStays ==
  ASSUME IInv, StartLineNext \/ HeaderNext \/ BodyNext,
         \/ byte' # NoByte /\ parser'.state # "message_done"
         \/ parser'.state = "header_field_start"
  PROVE  Bulk = 0 /\ parser.state # "message_done"
<1>1. parser \in Record
  BY DEF IInv, Typed
<1>2. CASE parser.state \in {"body_identity", "chunk_data"}
  <2>1. (\E k \in 1..(MaxLength - 1) : BodyPart(k)) \/ BodyIdentity \/ ChunkData
    BY <1>2, BodyShrinks
  <2>2. \A k : Read(k).state = parser.state
    BY <1>1, <1>2 DEF Read, Record
  <2>3. \A t \in States : [Read(parser.length) EXCEPT !.state = t].state = t
    BY <1>1, ReadAllFields
  <2>4. QED
    BY <1>2, <2>1, <2>2, <2>3 DEF BodyPart, PartOf, BodyIdentity, ChunkData, Step, States, BodyState
<1>3. CASE parser.state = "message_done"
  <2>1. MessageDone
    BY <1>3 DEF StartLineNext, BlankLine, Dead, StartRes, StartReq, ResLine, ResStatus,
         ReqMethod, ReqSpaces, ReqUrl, ReqHttp, LineAlmostDone, HeaderNext,
         HeaderFieldStart, HeaderField, DiscardWs, DiscardWsAlmostDone, DiscardLws,
         HeaderValueStart, HeaderValue, ContentLength, HeaderValueEnds,
         HeaderAlmostDone, HeaderValueLws, HeadersAlmostDone, HeadersDone, BodyNext,
         BodyPart, BodyIdentity, BodyIdentityEof, ChunkSizeStart, ChunkSize,
         ChunkParameters, ChunkSizeAlmostDone, ChunkData, ChunkDataAlmostDone,
         ChunkDataDone, In
  <2>2. NewMessage(parser) \in {"start_req", "start_res", "dead"}
    BY <1>1 DEF NewMessage, StartState
  <2>3. At(NewMessage(parser)).state = NewMessage(parser)
    BY <1>1, <2>2, AtFields DEF States, HeadState
  <2>4. QED
    BY <2>1, <2>2, <2>3 DEF MessageDone, Completes
<1>4. CASE parser.state \notin {"body_identity", "chunk_data", "message_done"}
  BY <1>4 DEF Bulk
<1>5. QED
  BY <1>2, <1>3, <1>4

-----------------------------------------------------------------------------
(* What the callbacks leave of the headers.                                *)

SameHeaders(g, h) ==
  /\ g.req_headers = h.req_headers
  /\ g.cur_header_field = h.cur_header_field
  /\ g.cur_header_value = h.cur_header_value
  /\ g.last_was_value = h.last_was_value

LEMMA InsertKnown ==
  ASSUME NEW S, NEW headers \in SUBSET S, NEW name, NEW at, Pair(name, at) \in S
  PROVE  Insert(headers, name, at) \subseteq S
BY DEF Insert, Pair

LEMMA CalledHeaders ==
  ASSUME NEW h, Calm(h), Called = IF Completing THEN MessageComplete(h) ELSE h
  PROVE  SameHeaders(Called, h)
BY DEF MessageComplete, Calm, HandlerField, SameHeaders

LEMMA MarksKeepHeaders ==
  ASSUME Calm(sh), NEW after,
         marks \subseteq after \/ marks \cap {"header_field", "header_value"} = {}
  PROVE  SameHeaders(OnMarks(sh, marks, after), sh)
<1>1. CASE marks \subseteq after
  BY <1>1 DEF OnMarks, SameHeaders
<1>2. CASE ~(marks \subseteq after)
  <2> DEFINE m == CHOOSE x \in marks \ after : TRUE
  <2>1. m \in marks \ after
    BY <1>2
  <2>2. m \notin {"header_field", "header_value"}
    BY <1>2, <2>1
  <2>3. OnMarks(sh, marks, after) = OnData(sh, m, text)
    BY <1>2 DEF OnMarks
  <2> HIDE DEF m
  <2>4. QED
    BY <2>2, <2>3 DEF OnData, UrlCallback, Calm, HandlerField, SameHeaders
<1>3. QED
  BY <1>1, <1>2

LEMMA CalledKeepsHeaders ==
  ASSUME Calm(sh), ~EmptyValue,
         marks \subseteq marks' \/ marks \cap {"header_field", "header_value"} = {}
  PROVE  SameHeaders(Called, sh)
<1> DEFINE h == OnMarks(sh, marks, marks')
<1>1. Calm(h) /\ SameHeaders(h, sh)
  BY OnMarksCalm, MarksKeepHeaders
<1>2. Called = IF Completing THEN MessageComplete(h) ELSE h
  BY DEF Called, Completing
<1> HIDE DEF h
<1>3. SameHeaders(Called, h)
  BY <1>1, <1>2, CalledHeaders
<1>4. QED
  BY <1>1, <1>3 DEF SameHeaders

LEMMA MarkHandsOver ==
  ASSUME NEW h, NEW m \in {"header_field", "header_value"}
  PROVE  OnMarks(h, {m}, {}) = IF m = "header_field" THEN HeaderFieldCallback(h, text)
                               ELSE HeaderValueCallback(h, text)
<1>1. ~({m} \subseteq {}) /\ {m} \ {} = {m} /\ (CHOOSE x \in {m} : TRUE) = m
  OBVIOUS
<1>2. OnMarks(h, {m}, {}) = OnData(h, m, text)
  BY <1>1 DEF OnMarks
<1>3. QED
  BY <1>2 DEF OnData

LEMMA CalledNames ==
  ASSUME Calm(sh), ~EmptyValue, marks = {"header_field"}, marks' = {}
  PROVE  SameHeaders(Called, HeaderFieldCallback(sh, text))
<1> DEFINE h == HeaderFieldCallback(sh, text)
<1>1. OnMarks(sh, marks, marks') = h /\ Calm(h)
  BY MarkHandsOver, HeaderFieldCallbackCalm
<1>2. Called = IF Completing THEN MessageComplete(h) ELSE h
  BY <1>1 DEF Called, Completing
<1> HIDE DEF h
<1>3. SameHeaders(Called, h)
  BY <1>1, <1>2, CalledHeaders
<1>4. QED
  BY <1>3 DEF h

LEMMA CalledValue ==
  ASSUME Calm(sh), ~EmptyValue, marks = {"header_value"}, marks' = {}
  PROVE  SameHeaders(Called, HeaderValueCallback(sh, text))
<1> DEFINE h == HeaderValueCallback(sh, text)
<1>1. OnMarks(sh, marks, marks') = h /\ Calm(h)
  BY MarkHandsOver, HeaderValueCallbackCalm
<1>2. Called = IF Completing THEN MessageComplete(h) ELSE h
  BY <1>1 DEF Called, Completing
<1> HIDE DEF h
<1>3. SameHeaders(Called, h)
  BY <1>1, <1>2, CalledHeaders
<1>4. QED
  BY <1>3 DEF h

LEMMA CalledEmpty ==
  ASSUME Calm(sh), EmptyValue
  PROVE  SameHeaders(Called, HeaderValueCallback(sh, <<>>))
<1> DEFINE h == HeaderValueCallback(sh, <<>>)
<1>1. Calm(h)
  BY HeaderValueCallbackCalm
<1>2. Called = IF Completing THEN MessageComplete(h) ELSE h
  BY DEF Called, Completing
<1> HIDE DEF h
<1>3. SameHeaders(Called, h)
  BY <1>1, <1>2, CalledHeaders
<1>4. QED
  BY <1>3 DEF h

LEMMA AcceptsHeaders ==
  ASSUME NEW h, Calm(h), NEW upto, Accepts(h, upto)
  PROVE  SameHeaders(sh', h)
BY DEF Accepts, Calm, HandlerField, SameHeaders

LEMMA HandlerHeaders ==
  ASSUME Calm(sh), Parses, parser'.errno = "OK"
  PROVE  SameHeaders(sh', Called)
<1>1. Calm(Called)
  BY CalledCalm
<1>2. CASE sh' = Called
  BY <1>2 DEF SameHeaders
<1>3. CASE Accepts(Called, pos')
  BY <1>1, <1>3, AcceptsHeaders
<1>4. QED
  BY <1>2, <1>3 DEF Parses

\* A name is handed over: the header before it, if any, is inserted.
LEMMA NameHandedOver ==
  ASSUME Calm(sh), NEW S, sh.req_headers \subseteq S,
         sh.last_was_value => Pair(sh.cur_header_field, sh.cur_header_value) \in S,
         text \in Seq(Nat)
  PROVE  LET h == HeaderFieldCallback(sh, text)
         IN  /\ h.req_headers \subseteq S /\ ~h.last_was_value
             /\ h.cur_header_field =
                  (IF sh.last_was_value THEN <<>> ELSE sh.cur_header_field) \o text
<1>1. CASE sh.last_was_value
  <2>1. Insert(sh.req_headers, sh.cur_header_field, sh.cur_header_value) \subseteq S
    BY <1>1, InsertKnown
  <2>2. <<>> \o text = text
    BY ConcatEmptySeq
  <2>3. QED
    BY <1>1, <2>1, <2>2 DEF HeaderFieldCallback, Calm, HandlerField
<1>2. CASE ~sh.last_was_value
  BY <1>2 DEF HeaderFieldCallback, Calm, HandlerField
<1>3. QED
  BY <1>1, <1>2

\* The first part of a value is handed over.
LEMMA ValueHandedOver ==
  ASSUME Calm(sh), ~sh.last_was_value, NEW at
  PROVE  LET h == HeaderValueCallback(sh, at)
         IN  /\ h.req_headers = sh.req_headers /\ h.last_was_value
             /\ h.cur_header_field = sh.cur_header_field
             /\ h.cur_header_value = at
BY DEF HeaderValueCallback, Calm, HandlerField

-----------------------------------------------------------------------------
(* The names and values of a request.                                      *)

\* The header that was read last can be inserted.
PairThere == Pair(sh.cur_header_field, sh.cur_header_value) \in stream.headers

\* No name has begun since.
Settled == IF sh.last_was_value THEN PairThere ELSE sh.cur_header_field = <<>>

\* What was handed over of the name that is read.
NameSoFar == IF sh.last_was_value THEN <<>> ELSE sh.cur_header_field

NameIsKnown ==
  ~sh.last_was_value /\ NameKnown(stream.text, Passed, sh.cur_header_field)

ByteRead == byte # NoByte /\ parser.state # "message_done" => byte = stream.text[pos]

\* How far the lines of headers have been read, and what of them is known.
LinesRead ==
  /\ parser.state \notin ReadingState => Settled
  /\ parser.state = "header_field_start" => Settled /\ LineStarts(stream.text, Passed)
  /\ parser.state = "header_field" =>
       /\ NameBegun(stream.text, Passed, NameSoFar \o text)
       /\ sh.last_was_value => inCall /\ PairThere
       /\ IF inCall THEN marks = {"header_field"} ELSE text = <<>>
  /\ parser.state = "header_value_discard_ws" => NameIsKnown
  /\ parser.state = "header_value_start" =>
       NameIsKnown /\ byte # NoByte /\ byte \notin Ends \cup Blank
  /\ parser.state \in {"header_value_discard_ws_almost_done", "header_value_discard_lws"} =>
       ~sh.last_was_value /\ NameAlone(stream.text, Passed, sh.cur_header_field)
  /\ parser.state \in {"header_value_discard_lws", "header_value_lws"} =>
       LineStarts(stream.text, Passed)
  /\ parser.state = "header_value" =>
       /\ inCall /\ marks = {"header_value"}
       /\ ~sh.last_was_value
       /\ ValueBegun(stream.text, Passed, sh.cur_header_field, text)
  /\ parser.state \in AfterValue => sh.last_was_value /\ PairThere

\* Bytes that are looked at or marked.
TextGiven ==
  /\ ByteIsGiven
  /\ text \in Seq(Nat)
  /\ marks = {} => text = <<>>
  /\ ByteRead

StillKnown == sh.req_headers \subseteq stream.headers /\ (parser.errno = "OK" => LinesRead)

HeadersKnown == TextGiven /\ (~cut => StillKnown)

\* What a step of the parser starts from.
Reading ==
  /\ RunInv /\ TextGiven /\ Calm(sh) /\ sh.cur_header_field \in Seq(Nat)
  /\ sh.req_headers \subseteq stream.headers /\ LinesRead /\ NoLineGoesOn
  /\ Parses /\ parser'.errno = "OK"

\* How a step within a line goes on.
ReadingStep ==
  /\ stream' = stream /\ Passed \in Nat /\ Passed < Len(stream.text)
  /\ Len(stream.text) \in Nat
  /\ byte = stream.text[Passed + 1]
  /\ Passed' = IF byte' = NoByte THEN Passed + 1 ELSE Passed
  /\ text' = IF marks' = {} THEN <<>>
             ELSE IF byte' = NoByte THEN Append(text, Passed + 1) ELSE text
  /\ text \in Seq(Nat) /\ (marks = {} => text = <<>>)
  /\ SameHeaders(sh', Called)

LEMMA ReadingSteps ==
  ASSUME Reading, parser.state \in ReadingState
  PROVE  ReadingStep
<1>1. inCall /\ byte # NoByte /\ byte' \in {byte, NoByte}
  BY ReadingIsHeader, StartLineFollows, HeaderFollows, BodyFollows
  DEF Reading, RunInv, Parses, ByteFollows
<1>2. Len(stream.text) \in Nat /\ pos \in 1..Len(stream.text)
  BY <1>1, StreamsAssumption, LenProperties
  DEF Reading, RunInv, Placed, TextGiven, ByteIsGiven
<1>3. Passed = pos - 1 /\ Passed + 1 = pos
  BY <1>1, <1>2 DEF Passed
<1>4. byte = stream.text[pos]
  BY <1>1 DEF Reading, TextGiven, ByteRead, ReadingState, ValueAhead, AfterValue
<1>5. pos' = pos
  BY <1>2 DEF Reading, Parses, Bulk, ReadingState, ValueAhead, AfterValue
<1>6. Passed' = IF byte' = NoByte THEN Passed + 1 ELSE Passed
  BY <1>1, <1>2, <1>3, <1>5 DEF Passed
<1>7. SameHeaders(sh', Called)
  BY HandlerHeaders DEF Reading
<1>8. text' = IF marks' = {} THEN <<>>
              ELSE IF byte' = NoByte THEN Append(text, Passed + 1) ELSE text
  BY <1>3 DEF Reading, Parses
<1>9. stream' = stream /\ text \in Seq(Nat) /\ (marks = {} => text = <<>>)
  BY DEF Reading, Parses, TextGiven
<1>10. Passed \in Nat /\ Passed < Len(stream.text)
  BY <1>2, <1>3
<1>11. QED
  BY <1>2, <1>3, <1>4, <1>6, <1>7, <1>8, <1>9, <1>10 DEF ReadingStep

\* Between the headers.
LEMMA AtNameStart ==
  ASSUME Reading, parser.state = "header_field_start"
  PROVE  StillKnown'
<1> DEFINE n == Passed
<1>1. ReadingStep
  BY ReadingSteps DEF ReadingState
<1>2. HeaderFieldStart
  BY ReadingIsHeader DEF Reading, Parses, ReadingState, ReadingCases
<1>3. /\ inCall'
      /\ \/ byte \in Ends /\ parser'.state = "headers_almost_done" /\ marks' = {}
         \/ /\ byte \in Token /\ byte' = NoByte
            /\ parser'.state = "header_field" /\ marks' = {"header_field"}
  BY <1>2, NameStartMoves DEF Reading, RunInv
<1>4. marks = {}
  BY AtByte, MarksOf, <1>2 DEF Reading, RunInv, HeaderFieldStart, States, HeadState
<1>5. SameHeaders(Called, sh)
  BY <1>4, CalledKeepsHeaders DEF Reading, EmptyValue
<1>6. SameHeaders(sh', sh)
  BY <1>1, <1>5 DEF ReadingStep, SameHeaders
<1>7. Settled /\ LineStarts(stream.text, n)
  BY DEF Reading, LinesRead
<1>8. sh'.req_headers \subseteq stream'.headers
  BY <1>1, <1>6 DEF Reading, ReadingStep, SameHeaders
<1>9. /\ sh'.last_was_value = sh.last_was_value
      /\ PairThere' <=> PairThere
      /\ NameSoFar' = <<>>
      /\ Settled'
  <2>1. PairThere' <=> PairThere
    BY <1>1, <1>6 DEF PairThere, Pair, SameHeaders, ReadingStep
  <2>2. QED
    BY <1>6, <1>7, <2>1 DEF Settled, NameSoFar, SameHeaders
<1>10. CASE parser'.state = "headers_almost_done"
  BY <1>8, <1>9, <1>10 DEF StillKnown, LinesRead, ReadingState, ValueAhead, AfterValue
<1>11. CASE parser'.state = "header_field"
  <2>1. /\ byte' = NoByte /\ marks' = {"header_field"} /\ stream.text[n + 1] \in Token
        /\ n \in Nat /\ text' = Append(<<>>, n + 1) /\ Passed' = n + 1
    BY <1>1, <1>3, <1>4, <1>11 DEF ReadingStep
  <2>2. NameBegun(stream.text, n + 1, <<>> \o Append(<<>>, n + 1))
    BY <1>7, <2>1, NameBegins
  <2>3. NameBegun(stream'.text, Passed', NameSoFar' \o text')
    <3>1. stream' = stream
      BY <1>1 DEF ReadingStep
    <3> HIDE DEF n
    <3>2. QED
      BY <1>9, <2>1, <2>2, <3>1, Zenon
  <2>4. sh'.last_was_value => PairThere'
    BY <1>7, <1>9 DEF Settled
  <2>5. QED
    BY <1>3, <1>8, <1>11, <2>1, <2>3, <2>4
    DEF StillKnown, LinesRead, ReadingState, ValueAhead, AfterValue
<1>12. QED
  BY <1>3, <1>10, <1>11

LEMMA KeptHeaders ==
  ASSUME Reading, ReadingStep, SameHeaders(Called, sh)
  PROVE  /\ SameHeaders(sh', sh)
         /\ sh'.req_headers \subseteq stream'.headers
         /\ PairThere' <=> PairThere
<1>1. SameHeaders(sh', sh)
  BY DEF ReadingStep, SameHeaders
<1>2. QED
  BY <1>1 DEF Reading, ReadingStep, PairThere, Pair, SameHeaders

LEMMA InName ==
  ASSUME Reading, parser.state = "header_field"
  PROVE  StillKnown'
<1> DEFINE n == Passed
<1>1. ReadingStep
  BY ReadingSteps DEF ReadingState
<1>2. HeaderField
  BY ReadingIsHeader DEF Reading, Parses, ReadingState, ReadingCases
<1>3. /\ inCall' /\ byte' = NoByte
      /\ \/ byte \in Token /\ parser'.state = "header_field" /\ marks' = marks
         \/ /\ byte = "COLON" /\ marks' = {}
            /\ parser'.state = "header_value_discard_ws"
  BY <1>2, NameMoves DEF Reading, RunInv
<1>4. /\ inCall /\ marks = {"header_field"}
      /\ NameBegun(stream.text, n, NameSoFar \o text)
      /\ sh.last_was_value => PairThere
  BY <1>2 DEF HeaderField, In, Reading, LinesRead
<1>5. /\ n \in Nat /\ Passed' = n + 1 /\ stream' = stream /\ text \in Seq(Nat)
      /\ byte = stream.text[n + 1]
  BY <1>1, <1>3 DEF ReadingStep
<1>6. NameSoFar \in Seq(Nat)
  BY EmptySeq DEF NameSoFar, Reading
<1>7. CASE parser'.state = "header_field"
  <2>1. byte \in Token /\ marks' = marks /\ text' = Append(text, n + 1)
    BY <1>1, <1>3, <1>4, <1>7 DEF ReadingStep
  <2>2. SameHeaders(Called, sh)
    BY <2>1, CalledKeepsHeaders DEF Reading, EmptyValue
  <2>3. SameHeaders(sh', sh) /\ sh'.req_headers \subseteq stream'.headers
        /\ (PairThere' <=> PairThere)
    BY <1>1, <2>2, KeptHeaders
  <2>4. NameSoFar' = NameSoFar /\ sh'.last_was_value = sh.last_was_value
    BY <2>3 DEF NameSoFar, SameHeaders
  <2>5. NameBegun(stream.text, n + 1, NameSoFar \o Append(text, n + 1))
    BY <1>4, <1>5, <1>6, <2>1, NameGrows
  <2> HIDE DEF n
  <2>6. NameBegun(stream'.text, Passed', NameSoFar' \o text')
    BY <1>5, <2>1, <2>4, <2>5, Zenon
  <2>7. QED
    BY <1>3, <1>4, <1>7, <2>1, <2>3, <2>4, <2>6
    DEF StillKnown, LinesRead, ReadingState, ValueAhead, AfterValue
<1>8. CASE parser'.state = "header_value_discard_ws"
  <2> DEFINE h == HeaderFieldCallback(sh, text)
  <2>1. byte = "COLON" /\ marks' = {}
    BY <1>3, <1>8
  <2>2. SameHeaders(Called, h)
    BY <1>4, <2>1, CalledNames DEF Reading, EmptyValue
  <2>3. /\ h.req_headers \subseteq stream.headers /\ ~h.last_was_value
        /\ h.cur_header_field = NameSoFar \o text
    BY <1>4, <1>5, NameHandedOver DEF Reading, PairThere, NameSoFar
  <2> HIDE DEF h
  <2>4. /\ sh'.req_headers \subseteq stream'.headers /\ ~sh'.last_was_value
        /\ sh'.cur_header_field = NameSoFar \o text
    BY <1>1, <2>2, <2>3 DEF ReadingStep, SameHeaders
  <2>5. NameKnown(stream.text, n + 1, NameSoFar \o text)
    BY <1>4, <1>5, <2>1, NameEnds
  <2> HIDE DEF n
  <2>6. NameKnown(stream'.text, Passed', sh'.cur_header_field)
    BY <1>5, <2>4, <2>5, Zenon
  <2>7. QED
    BY <1>8, <2>4, <2>6
    DEF StillKnown, LinesRead, NameIsKnown, ReadingState, ValueAhead, AfterValue
<1>9. QED
  BY <1>3, <1>7, <1>8

LEMMA BeforeValue ==
  ASSUME Reading, parser.state = "header_value_discard_ws"
  PROVE  StillKnown'
<1> DEFINE n == Passed
<1>1. ReadingStep
  BY ReadingSteps DEF ReadingState, ValueAhead
<1>2. DiscardWs
  BY ReadingIsHeader DEF Reading, Parses, ReadingState, ValueAhead, ReadingCases
<1>3. /\ inCall' /\ marks' = {}
      /\ \/ /\ byte \in Blank /\ byte' = NoByte
            /\ parser'.state = "header_value_discard_ws"
         \/ /\ byte \in Ends /\ byte' = NoByte
            /\ parser'.state = "header_value_discard_ws_almost_done"
         \/ /\ byte = "LF" /\ byte' = NoByte
            /\ parser'.state = "header_value_discard_lws"
         \/ /\ byte \notin Ends \cup Blank /\ byte' = byte
            /\ parser'.state = "header_value_start"
  BY <1>2, BlanksMoves DEF Reading, RunInv
<1>4. marks = {} /\ byte # NoByte
  BY AtByte, MarksOf, <1>2 DEF Reading, RunInv, DiscardWs, States, HeadState
<1>5. SameHeaders(Called, sh)
  BY <1>4, CalledKeepsHeaders DEF Reading, EmptyValue
<1>6. SameHeaders(sh', sh) /\ sh'.req_headers \subseteq stream'.headers
  BY <1>1, <1>5, KeptHeaders
<1>7. ~sh.last_was_value /\ NameKnown(stream.text, n, sh.cur_header_field)
  BY DEF Reading, LinesRead, NameIsKnown
<1>8. /\ ~sh'.last_was_value /\ sh'.cur_header_field = sh.cur_header_field
      /\ stream' = stream /\ n \in Nat /\ byte = stream.text[n + 1]
      /\ Passed' = IF byte' = NoByte THEN n + 1 ELSE n
      /\ n + 1 \in 1..Len(stream.text)
  BY <1>1, <1>6, <1>7 DEF SameHeaders, ReadingStep
<1> USE DEF ReadingState, ValueAhead, AfterValue
<1>9. CASE parser'.state = "header_value_discard_ws"
  <2>1. NameKnown(stream.text, n + 1, sh.cur_header_field) /\ Passed' = n + 1
    BY <1>3, <1>7, <1>8, <1>9, BlankFollows
  <2> HIDE DEF n
  <2>2. NameKnown(stream'.text, Passed', sh'.cur_header_field)
    BY <1>8, <2>1, Zenon
  <2>3. QED
    BY <1>6, <1>8, <1>9, <2>2 DEF StillKnown, LinesRead, NameIsKnown
<1>10. CASE parser'.state = "header_value_start"
  <2>1. Passed' = n /\ byte' # NoByte /\ byte' \notin Ends \cup Blank
    BY <1>3, <1>4, <1>8, <1>10
  <2> HIDE DEF n
  <2>2. NameKnown(stream'.text, Passed', sh'.cur_header_field)
    BY <1>7, <1>8, <2>1, Zenon
  <2>3. QED
    BY <1>6, <1>8, <1>10, <2>1, <2>2 DEF StillKnown, LinesRead, NameIsKnown
<1>11. CASE parser'.state \in {"header_value_discard_ws_almost_done",
                               "header_value_discard_lws"}
  <2>1. byte \in Ends /\ byte' = NoByte
    BY <1>3, <1>11 DEF Ends
  <2>2. NameAlone(stream.text, n + 1, sh.cur_header_field) /\ Passed' = n + 1
    BY <1>7, <1>8, <2>1, NoValueFollows
  <2>3. parser'.state = "header_value_discard_lws" => LineStarts(stream.text, n + 1)
    BY <1>3, <1>8, <1>11 DEF LineStarts
  <2> HIDE DEF n
  <2>4. /\ NameAlone(stream'.text, Passed', sh'.cur_header_field)
        /\ parser'.state = "header_value_discard_lws" => LineStarts(stream'.text, Passed')
    BY <1>8, <2>2, <2>3, Zenon
  <2>5. QED
    BY <1>6, <1>8, <1>11, <2>4 DEF StillKnown, LinesRead
<1>12. QED
  BY <1>3, <1>9, <1>10, <1>11

LEMMA AtEmptyLineEnd ==
  ASSUME Reading, parser.state = "header_value_discard_ws_almost_done"
  PROVE  StillKnown'
<1> DEFINE n == Passed
<1> USE DEF ReadingState, ValueAhead, AfterValue
<1>1. ReadingStep
  BY ReadingSteps
<1>2. DiscardWsAlmostDone
  BY ReadingIsHeader DEF Reading, Parses, ReadingCases
<1>3. /\ marks' = {} /\ byte = "LF" /\ byte' = NoByte
      /\ parser'.state = "header_value_discard_lws"
  BY <1>2, NoValueMoves DEF Reading, RunInv
<1>4. marks = {}
  BY AtByte, MarksOf, <1>2 DEF Reading, RunInv, DiscardWsAlmostDone, States, HeadState
<1>5. SameHeaders(Called, sh)
  BY <1>4, CalledKeepsHeaders DEF Reading, EmptyValue
<1>6. SameHeaders(sh', sh) /\ sh'.req_headers \subseteq stream'.headers
  BY <1>1, <1>5, KeptHeaders
<1>7. ~sh.last_was_value /\ NameAlone(stream.text, n, sh.cur_header_field)
  BY DEF Reading, LinesRead
<1>8. /\ ~sh'.last_was_value /\ sh'.cur_header_field = sh.cur_header_field
      /\ stream' = stream /\ n \in Nat /\ Passed' = n + 1
      /\ n + 1 \in 1..Len(stream.text) /\ stream.text[n + 1] = "LF"
  BY <1>1, <1>3, <1>6, <1>7 DEF SameHeaders, ReadingStep
<1>9. NameAlone(stream.text, n + 1, sh.cur_header_field) /\ LineStarts(stream.text, n + 1)
  BY <1>7, <1>8, StillAlone DEF LineStarts
<1> HIDE DEF n
<1>10. NameAlone(stream'.text, Passed', sh'.cur_header_field)
       /\ LineStarts(stream'.text, Passed')
  BY <1>8, <1>9, Zenon
<1>11. QED
  BY <1>3, <1>6, <1>8, <1>10 DEF StillKnown, LinesRead

LEMMA AfterEmptyLine ==
  ASSUME Reading, parser.state = "header_value_discard_lws"
  PROVE  StillKnown'
<1> DEFINE n == Passed
           h == HeaderValueCallback(sh, <<>>)
<1> USE DEF ReadingState, ValueAhead, AfterValue
<1>1. ReadingStep
  BY ReadingSteps
<1>2. DiscardLws
  BY ReadingIsHeader DEF Reading, Parses, ReadingCases
<1>3. marks' = {} /\ byte' = byte /\ parser'.state = "header_field_start"
  BY <1>2, EmptyMoves DEF Reading, RunInv
<1>4. byte # NoByte
  BY <1>2 DEF DiscardLws, In
<1>5. SameHeaders(Called, h)
  BY <1>3, CalledEmpty DEF Reading, EmptyValue
<1>6. /\ ~sh.last_was_value /\ NameAlone(stream.text, n, sh.cur_header_field)
      /\ LineStarts(stream.text, n)
  BY DEF Reading, LinesRead
<1>7. /\ h.req_headers = sh.req_headers /\ h.last_was_value
      /\ h.cur_header_field = sh.cur_header_field /\ h.cur_header_value = <<>>
  BY <1>6, ValueHandedOver DEF Reading
<1> HIDE DEF h
<1>8. /\ stream' = stream /\ n \in Nat /\ Passed' = n /\ n <= Len(stream.text)
      /\ sh'.req_headers = sh.req_headers /\ sh'.last_was_value
      /\ sh'.cur_header_field = sh.cur_header_field /\ sh'.cur_header_value = <<>>
  BY <1>1, <1>3, <1>4, <1>5, <1>7 DEF ReadingStep, SameHeaders
<1>9. Pair(sh.cur_header_field, <<>>) \in stream.headers
  BY <1>6, <1>8, NoValueIsThere DEF Reading, RunInv
<1>10. Settled'
  BY <1>8, <1>9 DEF Settled, PairThere, Pair
<1> HIDE DEF n
<1>11. LineStarts(stream'.text, Passed')
  BY <1>6, <1>8, Zenon
<1>12. sh'.req_headers \subseteq stream'.headers
  BY <1>8 DEF Reading
<1>13. QED
  BY <1>3, <1>10, <1>11, <1>12 DEF StillKnown, LinesRead

LEMMA AtValueStart ==
  ASSUME Reading, parser.state = "header_value_start"
  PROVE  StillKnown'
<1> DEFINE n == Passed
<1> USE DEF ReadingState, ValueAhead, AfterValue
<1>1. ReadingStep
  BY ReadingSteps
<1>2. HeaderValueStart
  BY ReadingIsHeader DEF Reading, Parses, ReadingCases
<1>3. /\ inCall' /\ marks = {} /\ marks' = {"header_value"} /\ byte' = NoByte
      /\ parser'.state = "header_value"
  BY <1>2, ValueStartMoves DEF Reading, RunInv
<1>4. SameHeaders(Called, sh)
  BY <1>3, CalledKeepsHeaders DEF Reading, EmptyValue
<1>5. SameHeaders(sh', sh) /\ sh'.req_headers \subseteq stream'.headers
  BY <1>1, <1>4, KeptHeaders
<1>6. /\ ~sh.last_was_value /\ NameKnown(stream.text, n, sh.cur_header_field)
      /\ byte \notin Ends \cup Blank
  BY DEF Reading, LinesRead, NameIsKnown
<1>7. /\ ~sh'.last_was_value /\ sh'.cur_header_field = sh.cur_header_field
      /\ stream' = stream /\ n \in Nat /\ Passed' = n + 1 /\ byte = stream.text[n + 1]
      /\ text' = Append(<<>>, n + 1)
  BY <1>1, <1>3, <1>5, <1>6 DEF SameHeaders, ReadingStep
<1>8. ValueBegun(stream.text, n + 1, sh.cur_header_field, Append(<<>>, n + 1))
  BY <1>6, <1>7, ValueStarts
<1> HIDE DEF n
<1>9. ValueBegun(stream'.text, Passed', sh'.cur_header_field, text')
  BY <1>7, <1>8, Zenon
<1>10. QED
  BY <1>3, <1>5, <1>7, <1>9 DEF StillKnown, LinesRead

LEMMA InValue ==
  ASSUME Reading, parser.state = "header_value"
  PROVE  StillKnown'
<1> DEFINE n == Passed
<1> USE DEF ReadingState, ValueAhead, AfterValue
<1>1. ReadingStep
  BY ReadingSteps
<1>2. HeaderValue \/ ContentLength \/ HeaderValueEnds
  BY ReadingIsHeader DEF Reading, Parses, ReadingCases
<1>3. /\ inCall'
      /\ \/ /\ byte \notin Ends /\ byte' = NoByte /\ marks' = marks
            /\ parser'.state = "header_value"
         \/ byte \in Ends /\ marks' = {} /\ parser'.state = "header_almost_done"
  BY <1>2, ValueMoves DEF Reading, RunInv
<1>4. /\ marks = {"header_value"} /\ ~sh.last_was_value
      /\ ValueBegun(stream.text, n, sh.cur_header_field, text)
  BY DEF Reading, LinesRead
<1>5. /\ stream' = stream /\ n \in Nat /\ byte = stream.text[n + 1]
      /\ n < Len(stream.text) /\ text \in Seq(Nat)
  BY <1>1 DEF ReadingStep
<1>6. CASE parser'.state = "header_value"
  <2>1. /\ byte \notin Ends /\ marks' = marks /\ Passed' = n + 1
        /\ text' = Append(text, n + 1)
    BY <1>1, <1>3, <1>4, <1>6 DEF ReadingStep
  <2>2. SameHeaders(Called, sh)
    BY <2>1, CalledKeepsHeaders DEF Reading, EmptyValue
  <2>3. SameHeaders(sh', sh) /\ sh'.req_headers \subseteq stream'.headers
    BY <1>1, <2>2, KeptHeaders
  <2>4. ~sh'.last_was_value /\ sh'.cur_header_field = sh.cur_header_field
    BY <1>4, <2>3 DEF SameHeaders
  <2>5. ValueBegun(stream.text, n + 1, sh.cur_header_field, Append(text, n + 1))
    BY <1>4, <1>5, <2>1, ValueGrows
  <2> HIDE DEF n
  <2>6. ValueBegun(stream'.text, Passed', sh'.cur_header_field, text')
    BY <1>5, <2>1, <2>4, <2>5, Zenon
  <2>7. QED
    BY <1>3, <1>4, <1>6, <2>1, <2>3, <2>4, <2>6 DEF StillKnown, LinesRead
<1>7. CASE parser'.state = "header_almost_done"
  <2> DEFINE h == HeaderValueCallback(sh, text)
  <2>1. byte \in Ends /\ marks' = {}
    BY <1>3, <1>7
  <2>2. SameHeaders(Called, h)
    BY <1>4, <2>1, CalledValue DEF Reading, EmptyValue
  <2>3. /\ h.req_headers = sh.req_headers /\ h.last_was_value
        /\ h.cur_header_field = sh.cur_header_field /\ h.cur_header_value = text
    BY <1>4, ValueHandedOver DEF Reading
  <2> HIDE DEF h
  <2>4. /\ sh'.req_headers = sh.req_headers /\ sh'.last_was_value
        /\ sh'.cur_header_field = sh.cur_header_field /\ sh'.cur_header_value = text
    BY <1>1, <2>2, <2>3 DEF ReadingStep, SameHeaders
  <2>5. Pair(sh.cur_header_field, text) \in stream.headers
    BY <1>4, <1>5, <2>1, ValueIsThere DEF Reading, RunInv
  <2>6. PairThere'
    BY <1>5, <2>4, <2>5 DEF PairThere, Pair
  <2>7. sh'.req_headers \subseteq stream'.headers
    BY <1>5, <2>4 DEF Reading
  <2>8. QED
    BY <1>7, <2>4, <2>6, <2>7 DEF StillKnown, LinesRead
<1>8. QED
  BY <1>3, <1>6, <1>7

LEMMA AfterValueRead ==
  ASSUME Reading, parser.state \in AfterValue
  PROVE  StillKnown'
<1> DEFINE n == Passed
<1> USE DEF ReadingState, ValueAhead, AfterValue
<1>1. ReadingStep
  BY ReadingSteps
<1>2. marks = {} /\ byte # NoByte
  BY AtByte, MarksOf, ReadingIsHeader
  DEF Reading, RunInv, Parses, ReadingCases, HeaderAlmostDone, HeaderValueLws,
      States, HeadState
<1>3. SameHeaders(Called, sh)
  BY <1>2, CalledKeepsHeaders DEF Reading, EmptyValue
<1>4. SameHeaders(sh', sh) /\ sh'.req_headers \subseteq stream'.headers
      /\ (PairThere' <=> PairThere)
  BY <1>1, <1>3, KeptHeaders
<1>5. sh.last_was_value /\ PairThere
  BY DEF Reading, LinesRead
<1>6. sh'.last_was_value /\ PairThere'
  BY <1>4, <1>5 DEF SameHeaders
<1>7. /\ stream' = stream /\ n \in Nat /\ byte = stream.text[n + 1]
      /\ Passed' = IF byte' = NoByte THEN n + 1 ELSE n
      /\ n + 1 \in 1..Len(stream.text)
  BY <1>1 DEF ReadingStep
<1>8. CASE parser.state = "header_almost_done"
  <2>1. HeaderAlmostDone
    BY <1>8, ReadingIsHeader DEF Reading, Parses, ReadingCases
  <2>2. byte = "LF" /\ byte' = NoByte /\ parser'.state = "header_value_lws"
    BY <2>1, LineEndMoves DEF Reading, RunInv
  <2>3. LineStarts(stream.text, n + 1) /\ Passed' = n + 1
    BY <1>7, <2>2 DEF LineStarts
  <2> HIDE DEF n
  <2>4. LineStarts(stream'.text, Passed')
    BY <1>7, <2>3, Zenon
  <2>5. QED
    BY <1>4, <1>6, <2>2, <2>4 DEF StillKnown, LinesRead
<1>9. CASE parser.state = "header_value_lws"
  <2>1. HeaderValueLws
    BY <1>9, ReadingIsHeader DEF Reading, Parses, ReadingCases
  <2>2. byte' = byte /\ parser'.state = "header_field_start"
    BY <2>1, NextLineMoves DEF Reading, RunInv
  <2>3. LineStarts(stream.text, n) /\ Passed' = n
    BY <1>2, <1>7, <1>9, <2>2 DEF Reading, LinesRead
  <2> HIDE DEF n
  <2>4. LineStarts(stream'.text, Passed')
    BY <1>7, <2>3, Zenon
  <2>5. QED
    BY <1>4, <1>6, <2>2, <2>4 DEF StillKnown, LinesRead, Settled
<1>10. QED
  BY <1>8, <1>9

LEMMA BetweenLines ==
  ASSUME Reading, parser.state \notin ReadingState
  PROVE  StillKnown'
<1>1. parser.state \in States /\ marks \subseteq MarkFor(parser.state)
  BY DEF Reading, RunInv, IInv, Typed, Record, Marked, States
<1>2. marks \cap {"header_field", "header_value"} = {}
  BY <1>1, MarksOf DEF ReadingState
<1>3. SameHeaders(sh', Called) /\ SameHeaders(Called, sh)
  BY <1>2, HandlerHeaders, CalledKeepsHeaders
  DEF Reading, EmptyValue, ReadingState, ValueAhead
<1>4. /\ SameHeaders(sh', sh) /\ stream' = stream
      /\ sh'.req_headers \subseteq stream'.headers
  BY <1>3 DEF SameHeaders, Reading, Parses
<1>5. Settled
  BY DEF Reading, LinesRead
<1>6. Settled'
  BY <1>4, <1>5 DEF Settled, PairThere, Pair, SameHeaders
<1>7. OtherStep
  BY OtherLineStep, OtherHeaderStep, OtherBodyStep DEF Reading, RunInv, Parses
<1>8. CASE parser'.state \notin ReadingState
  BY <1>4, <1>6, <1>8 DEF StillKnown, LinesRead, ReadingState, ValueAhead, AfterValue
<1>9. CASE parser'.state = "header_field_start" /\ byte = "LF" /\ byte' = NoByte
  <2>1. inCall /\ byte # NoByte
    BY StartLineFollows, HeaderFollows, BodyFollows
    DEF Reading, RunInv, Parses, ByteFollows
  <2>2. Bulk = 0 /\ parser.state # "message_done"
    BY <1>9, BulkStays DEF Reading, RunInv, Parses
  <2>3. pos \in 1..Len(stream.text) /\ stream.text[pos] = "LF" /\ pos \in Nat
    BY <1>9, <2>1, <2>2 DEF Reading, TextGiven, ByteIsGiven, ByteRead, RunInv, Placed
  <2>4. Passed' = pos
    BY <1>9, <2>2, <2>3 DEF Passed, Reading, Parses
  <2>5. LineStarts(stream.text, pos)
    BY <2>3 DEF LineStarts
  <2>6. LineStarts(stream'.text, Passed')
    BY <1>4, <2>4, <2>5, Zenon
  <2>7. QED
    BY <1>4, <1>6, <1>9, <2>6
    DEF StillKnown, LinesRead, ReadingState, ValueAhead, AfterValue
<1>10. QED
  BY <1>7, <1>8, <1>9 DEF OtherStep

LEMMA ParsesGiven ==
  ASSUME RunInv, TextGiven, Parses
  PROVE  TextGiven'
<1>1. /\ inCall /\ byte # NoByte /\ byte' \in {byte, NoByte} /\ Bulk \in Nat
      /\ stream' = stream /\ pos' = pos + Bulk /\ pos' <= Len(stream.text)
  BY StartLineFollows, HeaderFollows, BodyFollows, BulkForward DEF Parses, RunInv, ByteFollows
<1>2. pos \in 1..Len(stream.text) /\ Len(stream.text) \in Nat
  BY <1>1, StreamsAssumption, LenProperties DEF RunInv, Placed, TextGiven, ByteIsGiven
<1>3. ByteIsGiven'
  <2>1. pos' \in 1..Len(stream.text)
    BY <1>1, <1>2
  <2>2. QED
    BY <1>1, <2>1 DEF ByteIsGiven
<1>4. text' \in Seq(Nat) /\ (marks' = {} => text' = <<>>)
  <2>1. text \in Seq(Nat) /\ pos \in Nat
    BY DEF TextGiven, RunInv, Placed
  <2>2. <<>> \in Seq(Nat) /\ Append(text, pos) \in Seq(Nat)
    BY <2>1
  <2>3. QED
    BY <2>1, <2>2 DEF Parses
<1>5. ASSUME byte' # NoByte, parser'.state # "message_done"
      PROVE  byte' = stream'.text[pos']
  <2>1. Bulk = 0 /\ parser.state # "message_done"
    BY <1>5, BulkStays DEF RunInv, Parses
  <2>2. pos' = pos
    BY <1>1, <1>2, <2>1
  <2>3. byte = stream.text[pos]
    BY <1>1, <2>1 DEF TextGiven, ByteRead
  <2>4. QED
    BY <1>1, <1>5, <2>2, <2>3
<1>6. QED
  BY <1>3, <1>4, <1>5 DEF TextGiven, ByteRead

LEMMA ParsesHeaders ==
  ASSUME RunInv, TextGiven, Calm(sh), sh.cur_header_field \in Seq(Nat), StillKnown,
         NoLineGoesOn, Parses
  PROVE  StillKnown'
<1>1. inCall /\ parser.errno = "OK"
  BY StartLineFollows, HeaderFollows, BodyFollows
  DEF RunInv, Parses, ByteFollows, IInv, CallFits
<1>2. CASE parser'.errno # "OK"
  BY <1>2 DEF StillKnown, Parses
<1>3. CASE parser'.errno = "OK"
  <2>1. Reading
    BY <1>1, <1>3 DEF Reading, StillKnown
  <2>2. QED
    BY <2>1, AtNameStart, InName, BeforeValue, AtEmptyLineEnd, AfterEmptyLine,
       AtValueStart, InValue, AfterValueRead, BetweenLines
    DEF ReadingState, ValueAhead
<1>4. QED
  BY <1>2, <1>3

\* The parser is given a byte.
LEMMA GivenHeaders ==
  ASSUME RunInv, TextGiven, byte = NoByte, pos < Len(stream.text),
         byte' = stream.text[pos + 1], pos' = pos + 1, inCall',
         UNCHANGED <<parser, stream, sh>>,
         \/ inCall /\ UNCHANGED <<marks, text>>
         \/ ~inCall /\ marks' = Resumed(parser.state) /\ text' = <<>>
  PROVE  TextGiven' /\ (StillKnown => StillKnown')
<1>1. pos \in Nat /\ Len(stream.text) \in Nat
  BY StreamsAssumption, LenProperties DEF RunInv, Placed
<1>2. byte' # NoByte
  BY BytesOfStream, ByteIsByte DEF RunInv
<1>3. Passed = pos /\ Passed' = Passed
  BY <1>1, <1>2 DEF Passed
<1>4. ByteIsGiven' /\ ByteRead'
  BY <1>1, <1>2 DEF ByteIsGiven, ByteRead
<1>5. text' \in Seq(Nat) /\ (marks' = {} => text' = <<>>)
  BY EmptySeq DEF TextGiven
<1>6. ASSUME StillKnown PROVE StillKnown'
  <2>1. CASE parser.errno # "OK"
    BY <1>6, <2>1 DEF StillKnown
  <2>2. CASE parser.errno = "OK"
    <3>1. LinesRead
      BY <1>6, <2>2 DEF StillKnown
    <3>2. parser.state \in {"header_field", "header_value"} => text' = text
      BY <3>1 DEF LinesRead
    <3>3. (Settled' <=> Settled) /\ (PairThere' <=> PairThere) /\ NameSoFar' = NameSoFar
      BY DEF Settled, PairThere, Pair, NameSoFar
    <3>4. /\ NameIsKnown' <=> NameIsKnown
          /\ LineStarts(stream'.text, Passed') <=> LineStarts(stream.text, Passed)
          /\ NameAlone(stream'.text, Passed', sh'.cur_header_field)
               <=> NameAlone(stream.text, Passed, sh.cur_header_field)
      <4>1. stream' = stream /\ sh' = sh
        OBVIOUS
      <4>2. NameIsKnown' <=> NameIsKnown
        BY <1>3, <4>1, Zenon DEF NameIsKnown
      <4>3. LineStarts(stream'.text, Passed') <=> LineStarts(stream.text, Passed)
        BY <1>3, <4>1, Zenon
      <4>4. NameAlone(stream'.text, Passed', sh'.cur_header_field)
              <=> NameAlone(stream.text, Passed, sh.cur_header_field)
        BY <1>3, <4>1, Zenon
      <4>5. QED
        BY <4>2, <4>3, <4>4
    <3>5. parser.state = "header_field" =>
            /\ NameBegun(stream'.text, Passed', NameSoFar' \o text')
            /\ marks' = {"header_field"}
      <4>1. SUFFICES ASSUME parser.state = "header_field"
                     PROVE  /\ NameBegun(stream'.text, Passed', NameSoFar' \o text')
                            /\ marks' = {"header_field"}
        OBVIOUS
      <4>2. stream' = stream /\ text' = text /\ NameBegun(stream.text, Passed, NameSoFar \o text)
        BY <3>1, <3>2, <4>1 DEF LinesRead
      <4>3. NameBegun(stream'.text, Passed', NameSoFar' \o text')
        BY <1>3, <3>3, <4>2, Zenon
      <4>4. marks' = {"header_field"}
        BY <3>1, <4>1 DEF LinesRead, Resumed, MarkOf
      <4>5. QED
        BY <4>3, <4>4
    <3>6. parser.state = "header_value" =>
            /\ marks' = {"header_value"} /\ ~sh'.last_was_value
            /\ ValueBegun(stream'.text, Passed', sh'.cur_header_field, text')
      <4>1. SUFFICES ASSUME parser.state = "header_value"
                     PROVE  /\ marks' = {"header_value"} /\ ~sh'.last_was_value
                            /\ ValueBegun(stream'.text, Passed', sh'.cur_header_field, text')
        OBVIOUS
      <4>2. /\ stream' = stream /\ text' = text /\ sh' = sh
            /\ inCall /\ marks = {"header_value"} /\ ~sh.last_was_value
            /\ ValueBegun(stream.text, Passed, sh.cur_header_field, text)
        BY <3>1, <3>2, <4>1 DEF LinesRead
      <4>3. ValueBegun(stream'.text, Passed', sh'.cur_header_field, text')
        BY <1>3, <4>2, Zenon
      <4>4. QED
        BY <4>2, <4>3
    <3>7. parser.state # "header_value_start"
      BY <3>1 DEF LinesRead
    <3>8. LinesRead'
      BY <3>1, <3>3, <3>4, <3>5, <3>6, <3>7
      DEF LinesRead, ReadingState, ValueAhead, AfterValue
    <3>9. QED
      BY <1>6, <3>8 DEF StillKnown
  <2>3. QED
    BY <2>1, <2>2
<1>7. QED
  BY <1>4, <1>5, <1>6 DEF TextGiven

\* The data of a call ends: what there is of a name is handed over.
LEMMA DataEndsHeaders ==
  ASSUME RunInv, TextGiven, Calm(sh), sh.cur_header_field \in Seq(Nat), DataEnds
  PROVE  TextGiven' /\ (StillKnown /\ ~cut' => StillKnown')
<1>1. /\ inCall /\ byte = NoByte /\ ~inCall' /\ marks' = {} /\ text' = <<>>
      /\ parser' = parser /\ byte' = byte /\ stream' = stream /\ pos' = pos
      /\ Accepts(OnMarks(sh, marks, {}), pos)
      /\ ~cut' => "header_value" \notin marks
  BY DEF DataEnds, EndOfData
<1>2. TextGiven'
  BY <1>1, EmptySeq DEF TextGiven, ByteIsGiven, ByteRead
<1>3. SameHeaders(sh', OnMarks(sh, marks, {}))
  BY <1>1, OnMarksCalm, AcceptsHeaders
<1>4. Passed' = Passed
  BY <1>1 DEF Passed
<1>5. ASSUME StillKnown, ~cut' PROVE StillKnown'
  <2>1. parser.errno = "OK" /\ LinesRead
    BY <1>1, <1>5 DEF RunInv, IInv, CallFits, StillKnown
  <2>2. parser.state # "header_value" /\ parser.state # "header_value_start"
    BY <1>1, <1>5, <2>1 DEF LinesRead
  <2>3. CASE parser.state = "header_field"
    <3> DEFINE h == HeaderFieldCallback(sh, text)
    <3>1. /\ marks = {"header_field"} /\ text \in Seq(Nat)
          /\ NameBegun(stream.text, Passed, NameSoFar \o text)
          /\ sh.last_was_value => PairThere
      BY <1>1, <2>1, <2>3 DEF LinesRead, TextGiven
    <3>2. SameHeaders(sh', h)
      BY <1>3, <3>1, MarkHandsOver
    <3>3. /\ h.req_headers \subseteq stream.headers /\ ~h.last_was_value
          /\ h.cur_header_field = NameSoFar \o text
      BY <1>5, <3>1, NameHandedOver DEF StillKnown, PairThere, NameSoFar
    <3> HIDE DEF h
    <3>4. /\ sh'.req_headers \subseteq stream'.headers /\ ~sh'.last_was_value
          /\ sh'.cur_header_field = NameSoFar \o text
      BY <1>1, <3>2, <3>3 DEF SameHeaders
    <3>5. NameSoFar' \o text' = NameSoFar \o text
      <4>1. NameSoFar \in Seq(Nat)
        BY EmptySeq DEF NameSoFar
      <4>2. NameSoFar \o text \in Seq(Nat)
        BY <3>1, <4>1, ConcatProperties
      <4>3. (NameSoFar \o text) \o <<>> = NameSoFar \o text
        BY <4>2, ConcatEmptySeq
      <4>4. NameSoFar' = NameSoFar \o text
        BY <3>4 DEF NameSoFar
      <4>5. QED
        BY <1>1, <4>3, <4>4
    <3>6. NameBegun(stream'.text, Passed', NameSoFar' \o text')
      BY <1>1, <1>4, <3>1, <3>5, Zenon
    <3>7. QED
      BY <1>1, <2>3, <3>4, <3>6
      DEF StillKnown, LinesRead, ReadingState, ValueAhead, AfterValue
  <2>4. CASE parser.state # "header_field"
    <3>1. marks \cap {"header_field", "header_value"} = {}
      <4>1. parser.state \in States /\ marks \subseteq MarkFor(parser.state)
        BY DEF RunInv, IInv, Typed, Record, Marked, States
      <4>2. QED
        BY <2>2, <2>4, <4>1, MarksOf
    <3>2. SameHeaders(sh', sh)
      BY <1>3, <3>1, MarksKeepHeaders DEF SameHeaders
    <3>3. sh'.req_headers \subseteq stream'.headers
      BY <1>1, <1>5, <3>2 DEF StillKnown, SameHeaders
    <3>4. (Settled' <=> Settled) /\ (PairThere' <=> PairThere)
          /\ sh'.last_was_value = sh.last_was_value
          /\ sh'.cur_header_field = sh.cur_header_field
      BY <1>1, <3>2 DEF Settled, PairThere, Pair, SameHeaders
    <3>5. NameIsKnown' <=> NameIsKnown
      BY <1>1, <1>4, <3>4, Zenon DEF NameIsKnown
    <3>6. LineStarts(stream'.text, Passed') <=> LineStarts(stream.text, Passed)
      BY <1>1, <1>4, Zenon
    <3>7. NameAlone(stream'.text, Passed', sh'.cur_header_field)
            <=> NameAlone(stream.text, Passed, sh.cur_header_field)
      BY <1>1, <1>4, <3>4, Zenon
    <3>8. LinesRead'
      BY <1>1, <2>1, <2>2, <2>4, <3>4, <3>5, <3>6, <3>7
      DEF LinesRead, ReadingState, ValueAhead, AfterValue
    <3>9. QED
      BY <3>3, <3>8 DEF StillKnown
  <2>5. QED
    BY <2>3, <2>4
<1>6. QED
  BY <1>2, <1>5

LEMMA SameLines ==
  ASSUME TextGiven, UNCHANGED <<parser, byte, inCall, marks, stream, pos, text, sh>>
  PROVE  TextGiven' /\ (StillKnown => StillKnown')
<1>1. Passed' = Passed
  BY DEF Passed
<1>2. TextGiven'
  BY DEF TextGiven, ByteIsGiven, ByteRead
<1>3. (Settled' <=> Settled) /\ (PairThere' <=> PairThere) /\ NameSoFar' = NameSoFar
  BY DEF Settled, PairThere, Pair, NameSoFar
<1>4. /\ NameIsKnown' <=> NameIsKnown
      /\ LineStarts(stream'.text, Passed') <=> LineStarts(stream.text, Passed)
      /\ NameAlone(stream'.text, Passed', sh'.cur_header_field)
           <=> NameAlone(stream.text, Passed, sh.cur_header_field)
      /\ NameBegun(stream'.text, Passed', NameSoFar' \o text')
           <=> NameBegun(stream.text, Passed, NameSoFar \o text)
      /\ ValueBegun(stream'.text, Passed', sh'.cur_header_field, text')
           <=> ValueBegun(stream.text, Passed, sh.cur_header_field, text)
  <2>1. stream' = stream /\ sh' = sh /\ text' = text
    OBVIOUS
  <2>2. NameIsKnown' <=> NameIsKnown
    BY <1>1, <2>1, Zenon DEF NameIsKnown
  <2>3. LineStarts(stream'.text, Passed') <=> LineStarts(stream.text, Passed)
    BY <1>1, <2>1, Zenon
  <2>4. NameAlone(stream'.text, Passed', sh'.cur_header_field)
          <=> NameAlone(stream.text, Passed, sh.cur_header_field)
    BY <1>1, <2>1, Zenon
  <2>5. NameBegun(stream'.text, Passed', NameSoFar' \o text')
          <=> NameBegun(stream.text, Passed, NameSoFar \o text)
    BY <1>1, <1>3, <2>1, Zenon
  <2>6. ValueBegun(stream'.text, Passed', sh'.cur_header_field, text')
          <=> ValueBegun(stream.text, Passed, sh.cur_header_field, text)
    BY <1>1, <2>1, Zenon
  <2>7. QED
    BY <2>2, <2>3, <2>4, <2>5, <2>6
<1>5. LinesRead => LinesRead'
  BY <1>3, <1>4 DEF LinesRead, ReadingState, ValueAhead, AfterValue
<1>6. QED
  BY <1>2, <1>5 DEF StillKnown

LEMMA NextHeaders ==
  ASSUME RunInv, Calm(sh), sh.cur_header_field \in Seq(Nat), HeadersKnown, NoLineGoesOn,
         [ReceiverNext]_allVars
  PROVE  HeadersKnown'
<1>1. CASE Receive
  <2>1. /\ ~inCall /\ byte = NoByte /\ inCall' /\ pos < Len(stream.text)
        /\ byte' = stream.text[pos + 1] /\ pos' = pos + 1
        /\ marks' = Resumed(parser.state) /\ text' = <<>>
        /\ UNCHANGED <<parser, stream, sh, cut>>
    BY <1>1 DEF Receive, Call, RunInv, IInv, CallFits
  <2>2. QED
    BY <2>1, GivenHeaders DEF HeadersKnown
<1>2. CASE MoreData
  <2>1. /\ inCall /\ byte = NoByte /\ inCall' /\ pos < Len(stream.text)
        /\ byte' = stream.text[pos + 1] /\ pos' = pos + 1
        /\ UNCHANGED <<parser, stream, sh, cut, marks, text>>
    BY <1>2 DEF MoreData, NextByte
  <2>2. QED
    BY <2>1, GivenHeaders DEF HeadersKnown
<1>3. CASE DataEnds
  <2>1. ~cut' => ~cut
    BY <1>3 DEF DataEnds
  <2>2. QED
    BY <1>3, <2>1, DataEndsHeaders DEF HeadersKnown
<1>4. CASE Parses
  <2>1. cut' = cut
    BY <1>4 DEF Parses
  <2>2. QED
    BY <1>4, <2>1, ParsesGiven, ParsesHeaders DEF HeadersKnown
<1>5. CASE ReceiveNothing \/ Done \/ UNCHANGED allVars
  <2>1. UNCHANGED <<parser, byte, inCall, marks, stream, pos, text, sh, cut>>
    BY <1>5 DEF ReceiveNothing, Done, allVars, vars, receiverVars
  <2>2. QED
    BY <2>1, SameLines DEF HeadersKnown
<1>6. QED
  BY <1>1, <1>2, <1>3, <1>4, <1>5 DEF ReceiverNext

LEMMA InitHeaders == ReceiverInit => HeadersKnown
<1>1. SUFFICES ASSUME ReceiverInit PROVE HeadersKnown
  OBVIOUS
<1>2. /\ parser.state = "start_req" /\ byte = NoByte /\ marks = {} /\ pos = 0 /\ text = <<>>
      /\ sh.cur_header_field = <<>> /\ sh.last_was_value = FALSE /\ sh.req_headers = {}
      /\ stream \in Streams
  BY <1>1 DEF ReceiverInit, Init, Fresh, StartState, NewHandler
<1>3. Len(stream.text) \in Nat
  BY <1>2, StreamsAssumption, LenProperties
<1>4. TextGiven
  BY <1>2, <1>3, EmptySeq DEF TextGiven, ByteIsGiven, ByteRead
<1>5. LinesRead
  BY <1>2 DEF LinesRead, Settled, ReadingState, ValueAhead, AfterValue
<1>6. QED
  BY <1>2, <1>4, <1>5 DEF HeadersKnown, StillKnown

\* However a client cuts its request outside of values, and as long as no header goes
\* on in another line, the headers that the handler keeps are headers of the
\* request, each name whole and with its own value: on_header_field appends the
\* parts of a name and clears it for the next (SocketHandler.cpp:74-106).
THEOREM NamesAreWhole == ReceiverSpec /\ []NoLineGoesOn => []NamesSurviveCuts
<1>1. RunInv /\ Collected => Calm(sh) /\ sh.cur_header_field \in Seq(Nat)
  <2>1. SUFFICES ASSUME RunInv, NEW lim \in Nat, Neat(sh, lim)
                 PROVE  Calm(sh) /\ sh.cur_header_field \in Seq(Nat)
    BY DEF Collected
  <2>2. sh.cur_header_field \in Seq(1..lim)
    BY <2>1 DEF Neat, Str
  <2>3. QED
    BY <2>1, <2>2 DEF Neat
<1>2. RunInv /\ Collected /\ NoLineGoesOn /\ HeadersKnown /\ [ReceiverNext]_allVars
        => HeadersKnown'
  BY <1>1, NextHeaders
<1>3. HeadersKnown => NamesSurviveCuts
  BY DEF HeadersKnown, StillKnown, NamesSurviveCuts
<1>4. QED
  BY <1>2, <1>3, InitHeaders, RunInvariance, CollectedInvariance, PTL DEF ReceiverSpec

=============================================================================
