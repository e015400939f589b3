# Verification of proxy_syn

proxy_syn is a caching HTTP proxy in one thread: a `poll()` loop accepts
clients, reads their requests, opens connections to servers, caches responses
by url while they arrive and serves further clients of a url from its page. The
interesting part is what happens when somebody leaves: a client that loads a
page may hand its server connection over to a client that reads it.

All references are to files of the repository. Line numbers of a definition are
in the `map` of `PROJECT.json`.

## 1. The system

| Component | Source | State it keeps | Operations |
|---|---|---|---|
| Poll loop and socket tables | `src/proxy/Proxy.cpp` | `poll_fds`, `sockets`, `socketHandlers` | `launch`, `tryAcceptClient`, `removeClient`, `tryChooseDeputy`, `removeServer`, `findByServerSocket`, `insertSocket` |
| Connection handler | `src/proxy/SocketHandler.cpp` | role (`type`), `client_socket`, `server_socket`, `req_url`, four flags, `cur_cache_pos`, `has_heir`, two parsers | `work` and what it calls, `becomeHeir`, `becomeMaster`, the parser callbacks, the destructor |
| Response cache | `src/casher/Casher.cpp` | url -> page; a page is bytes and `fully_loaded` | `isCached`, `isFullyLoaded`, `appendCache`, `setFullyLoaded`, `acquireChunk`, `deletePage` |
| HTTP message parser | `src/http_parser/http_parser.c` | `http_parser`: state, header state, flags, `content_length`, `nread`, `upgrade`, error | `http_parser_init`, `http_parser_execute`, `http_should_keep_alive`, `http_message_needs_eof` |
| URL parser | the same file | none between calls | `http_parser_parse_url` |
| Logger, constants, `main` | `src/logger.cpp`, `include/Constants.h`, `utils/Application.cpp` | a log level | output, start-up |

How they interact. `launch()` polls, then walks `poll_fds` in order. A client's
descriptor is the key of its handler; the handler of a server's descriptor is
found by searching all handlers for one whose `server_socket` is that number
(`findByServerSocket`). The loop calls `work()`, which receives, feeds the
parser (its callbacks set `req_ready`, `resp_ready` and complete the page),
appends to the cache and sends. `work()` answers whether the socket is to be
removed, and the loop calls `removeClient` or `removeServer`. Most branches
`break`, so that the loop polls again and starts over at the first slot.

Roles of a handler (`HandlerType`): `STANDBY` until it has a request; then
`CASH`, a reader, when its url has a page, complete or not, and `LOAD_CASHING`
otherwise; `LOAD_TRANSIENT` once `appendCache` ran out of memory: it forwards
without caching. When a handler that owns a server leaves, a reader of the same
url that has read something becomes `HEIR`: it reads the page to its end, then
turns `LOAD_CASHING` (`becomeMaster`) and goes on from the server.

### What is hard here

There is one thread, and nothing is persisted: no data races and no recovery.
What is hard is *whose socket a number is*, *what is left behind when one of
several parties goes*, and *where a stream is when it changes hands*.

- **Stale descriptors.** `removeServer` closes a socket and tells no handler;
  the kernel gives the number to the next `accept()` or `socket()`.
- **Stale handlers.** A client's socket closed as somebody's server socket
  leaves its handler in `socketHandlers`; `map::insert` does not overwrite it
  when the number is accepted again.
- **Handover.** The heir must neither lose nor repeat a byte, must not receive
  before it has caught up, and inherits a number that may be stale.
- **Two loaders.** Requests for a url that arrive before the first byte of its
  response all become loaders and append to one page. One that leaves without a
  reader to take over drops it, and the others go on with a page whose front is missing.
- **Partial failure.** `appendCache`, `connect()`, `send()` and the parser fail
  half-way through a step; the end of a connection counts as the end of a
  response; a destructor may throw; `has_heir` is read uninitialised.
- **Progress.** The loop starts over at the first slot after most events, and
  readers wait for a loader nobody watches.
- **Bytes arrive in any pieces.** The parser keeps its place between calls,
  reads bodies in bulk, does arithmetic of fixed width on lengths that come
  over the wire, and uses `ULLONG_MAX` for "no length". Its callbacks are handed
  parts of urls, names and values, and run in the middle of a call: after the
  data was stored and before it is sent on.
- **Urls are taken apart in place.** One loop finds fields, a second takes the
  server apart and counts the length of the host anew while that length delimits
  it, a third reads the port through an offset of 16 bits.

`PROJECT.json` lists these hazards at the line where each bites, with the
properties that speak of it, or why none does.

### What makes each component correct

- *Loop and tables*: the poll set, the socket table and the open descriptors
  stay one set; every slot has a handler; a step closes its own sockets only;
  the index stays inside `poll_fds`.
- *Handler*: flags and server fit its role; its client gets a response in order
  and without repetition; a reader keeps its page; a finished client leaves.
- *Cache*: a page grows only at its end, is not touched once complete except by
  growing, is not dropped once complete, and holds responses to its url only.
- *Handler, byte by byte*: a request is the same however it was cut; a page is
  complete only with the whole message in it, and always when its loader stops.
- *Url parser*: exactly the urls of a grammar, with the grammar's fields.
- *Parser*: its `assert`s; no data is left over for a callback it does not
  belong to; a length is exactly what its digits spell; no message is complete
  before all the bytes announced for it have been handed over.

## 2. The modules

| Module | Models | How |
|---|---|---|
| `Cacher` | `Casher.cpp` | operators on the map of pages; no state of its own |
| `SocketHandler` | the handler's own part of `SocketHandler.cpp` | a handler is a record; operators for what changes only it |
| `Proxy` | `Proxy.cpp`, `work()`, the kernel's descriptors | the state machine; EXTENDS the two above |
| `PageStore` | what the cache promises | abstract specification; `CacheIsPageStore` in `Proxy` |
| `HttpParser` | `http_parser_execute` | a state machine of its own |
| `MessageStream` | what the parser's callbacks promise | abstract specification; `CallbacksAreStream` in `HttpParser` |
| `Url` | classes of bytes, `parse_url_char` | operators, shared as the code shares it |
| `UrlParser` | `http_parser_parse_url`, `http_parse_host` | a state machine: the passes of three loops |
| `UrlGrammar` | what a url is | the reference; `ResultIsTheGrammar` in `UrlParser` |
| `RequestReceiver` | `receiveAndParseRequest` and its callbacks | EXTENDS `HttpParser`; urls by `UrlGrammar` |
| `RequestIntake` | what a request's url may go through | abstract specification; `ImplementsIntake` in `RequestReceiver` |
| `ResponseReceiver` | `receiveAndParseResponse` and its callback | EXTENDS `HttpParser` |
| `MC...` | | constants and symmetry for TLC |
| `ProxyProofs` | | `RemoveFirst`, `Append`, minimum and maximum; the inductive invariant of `Proxy` and four theorems |
| `ProxyDelivery` | | what clients are sent: readers and pages, order, handover; five theorems |
| `ProxyRefinement` | | the cache implements `PageStore` |
| `RequestProofs` | | the receiver runs the parser; callbacks never stop it, every byte is collected once, the url is taken in as `RequestIntake` says, and names survive cuts |
| `ResponseProofs` | | the receiver runs the parser; a loader that stops leaves a complete page, which has the whole response, and its client has been sent it |
| `UrlProofs` | | the call stays inside the url, and its fields lie apart |
| `UrlGrammarProofs` | | the call accepts the urls of the grammar, and finds their parts |
| `HttpProofs` | | what the parser promises, for every width and any cut of the bytes; five theorems |

Definitions whose comment starts with `Fault` are what a bug in the definition
that follows might look like. No specification uses them; they are there to
check that each property notices.

### Proxy

One action is one iteration of the loop over `poll_fds`, with everything it
calls: `removeClient` with `tryChooseDeputy`, the destructor and the page it
drops, `work()` with the callbacks. No other step comes between, as in the code,
whose thread is the only one.

| Variable | In the code |
|---|---|
| `pollFds`, `sockets`, `handlers`, `pages` | `poll_fds`, `sockets`, `socketHandlers`, the cache's map |
| `cursor` | the index of the for loop; 1 is also "about to poll" |
| `status` | running, or how the process ended: `stopped` (`poll()` failed), `terminated` (exception), `segfault` (`poll_fds.erase(end())`) |
| `peer` | kernel: the open descriptors and what is at the other end |
| `accepted`, `connects` | counts that name clients and connections, and bound them |

What the environment decides is a choice in the action: what `poll()` reports
for the slot, how much `recv()` returns, whether `connect()` and `send()`
succeed, whether memory suffices, and what the parser makes of the data (nothing
yet, end of message, refusal). The uninitialised `has_heir` is either value. The
kernel takes the lowest free descriptor, as POSIX has it; that is what makes the
reuse of numbers happen.

Data. A response is a sequence of units; a unit says which connection it came
on, for which url, and its index there, which is all the properties tell apart.
A handler has two histories: `handed`, the units that the client it has now was
sent, and `since`, its position when it got that client. They begin anew when a
handler that was left behind is kept for a new client (`ForNewClient`), who then
starts where the last one stopped. `lost` of a connection is a history too: how far
its units had got when a page that held some of them was last dropped.
Descriptor 0
stands for the listening socket; its handler, which the loop never looks up, is
left out. A position in a page is in units, and `ChunkSize` is
`CACHE_CHUNK_SIZE` in units.

Actions: `PollFails`; `AcceptClient`, `NoAccept` for the listener;
`ReleaseFinished`, `DropClient`, `ClientIdle`, `RequestFromCache`,
`RequestFromServer`, `ConnectFails`, `SendRequestFails`, `ServeReader`,
`ServeHeir`, `DropReader` for a client's slot; `ServerGone`, `ServerIdle`,
`ServerEof`, `ServerData`, `ServerDataRefused`, `ServeHeirFromServerSlot`,
`HeirChunkLost` for a server's.

### HttpParser

One action is one `case` of the switch of `http_parser_execute`, for one byte;
`REEXECUTE` is an action that leaves the byte to the next one. A body is read in
bulk as in the code: as much as the call has (`BodyPart`), or the rest at once
(`BodyIdentity`, `ChunkData`). `Call` and `EndOfData` begin and end a call, and a
call may end after any byte.

| Variable | In the code |
|---|---|
| `parser` | the fields of `http_parser`; `http11`, `noBody`, `switching`, `connect` are what the code computes from version, status code and method |
| `nread` | 0, 1 or more: one assertion compares it with 1; above 1 the header may at any byte turn out too long |
| `byte`, `inCall` | `*p` while it is to be looked at; whether a call is on |
| `marks` | which of `header_field_mark`, ... are set |
| `value`, `phase`, `owed`, `pending` | history: the number the digits spell, unbounded; the part of the message; bytes announced and not handed over; bytes behind `body_mark` |

Bytes are classes: end of line, blank, colon, comma, semicolon, digits with
their values, other token bytes, bytes that no name has and only urls tell apart
(`Others`), and bytes not allowed in a header. Which name a
header has, and whether a value spells `chunked`, `close`, `keep-alive` or
`upgrade`, is a choice when the name or value may be complete; so is the outcome
of the checks of the start line and of a url in it. For a receiver the message itself
decides it (`ReadsAs`): it says which name stands before a colon, and what each byte
of such a value makes of it. `content_length` has the
width given by `MaxLength` and wraps.

Left out, because the proxy never does it: `len = 0`, pausing, lenient parsing,
`on_headers_complete` (hence `F_SKIPBODY`), callbacks that answer other than 0,
`HTTP_BOTH`. The parser is strict, as its header sets it.

### UrlParser

An action is one pass of a loop or what follows it: `FieldsDead`,
`FieldsDelimiter`, `FieldsByte` and `FieldsEnd` for the loop over the url;
`HostByte` and `HostLoopEnd` for `http_parse_host`; `PortByte` and `PortEnd` for
the port. `u` is the `http_parser_url`, `s` the state of the loop that runs,
`old_uf`, `found_at`, `buflen` and `v` are the locals of those names, `ret` what
is returned. The bytes of `buf` are chosen as the first loop reaches them, which
is the same as choosing the url beforehand and spares TLC the choices no loop
looks at; after the byte that ends the call, `Rests` adds some that are there
and not read.

A byte is the class of those no test tells apart (`Url`): "f" is a letter that
is a hexadecimal digit, "x" one that is not, "+" any byte of user information
only, "bad" any byte not allowed at all. For the loop over the port, which
computes `*p - '0'` of whatever it finds, a class has the number of one of its
bytes. Offsets and lengths wrap at `Width`; ports go to `MaxPort`.

`UrlGrammar` says what a url is by places only: the first colon, the first `/` or
`?` of the server, the one `@`. It shares with the parser the classes of bytes
and none of the states.

### RequestReceiver and ResponseReceiver

Both run `HttpParser` over what one peer sends and add what a call of the
handler does before, in the middle and after. `stream` is what the peer sends,
with what is in it (where its url and headers are; where its message ends); a
byte is its place there, so a byte that is lost, repeated or put in a wrong string
is seen. `Call` begins with a `recv()`, and a `recv()` may end after any byte.
Where `HttpParser` leaves a choice about the data (which method, which status,
which header, which word a value is, whether a byte may stand in a url), the stream
decides. All that the parser knows is among what it may decide: lengths, chunks with
their trailers, other codings, `Connection` and `Upgrade`. What is read in bulk, of a
body or of a chunk, moves the place in the stream by as much (`Bulk`).

`RequestReceiver`: `sh` has the fields of the handler that the callbacks write,
`text` the bytes between the mark and `p`, `url_state` the part of
`parser->state` that `HttpParser` folds into one state. `Receive`, `MoreData`,
`Parses` and `DataEnds` are `recv()` with the beginning of
`http_parser_execute`, its next byte, one case of its switch, and its end; the
end appends to `request_full` and parses the url, as far as it is there.
`verdict` is what the call came to. The url of a CONNECT, a host and a port, is
refused by `http_parser_parse_url`, which is called without `is_connect`, as in the
code. A value that is cut is continued in the name of its header, as in the code
(`SocketHandler.cpp:97`); `NamesSurviveCuts` is about requests that are not cut
within a value (`cut` remembers it), `EachByteOnce` about all. Requests are shorter
than `max_header_size`.

`ResponseReceiver`: a page and what the client was sent are prefixes of the
stream, and counted. `Receive` is `recv()`, `appendCache`, which may run out of
memory after any byte, and the beginning of `http_parser_execute`; a step of
`Parses` that ends a message runs `messageCompleteCallback`, which completes the
page; the end of the call sends what was received, or fails after a part of it. Only
one page, one loader, no handover: that is `Proxy`. There, where a message ends in the
data of a `recv()` is a choice; here it is the parser's doing. A response that
changes the protocol is over with its headers, and what comes behind them is
not parsed.

## 3. The runs

### Runs that pass

| Run | Instance | Distinct states | Shows |
|---|---|---|---|
| `safety` | 4 descriptors, 3 clients, 2 units per connection, chunks and receives of up to two units, memory suffices | 1.1 million | `TablesAgree`, `SlotsHaveHandlers`, `ReaderMirrorsCache`, `DeliveryInOrder`, `PageEndsWhereServerIs` |
| `out_of_memory` | 3 descriptors, 3 clients, 2 units, two urls, `appendCache` may fail | 938 thousand | `TypeOK`, `RoleConsistent`, `CompletionSealsPage`, `CacheIsPageStore`, `ServerIsHandedOn` |
| `liveness` | 3 descriptors, 3 clients, 2 units, memory suffices | 48 thousand | `FinishedLeaves`, `ReaderFinishes`, `HeirCatchesUp` |
| `parser` | lengths of 5 bits; Content-Length, Transfer-Encoding, Connection, Upgrade | 1.6 million | `TypeOK`, `AssertsHold`, `OneMark`, `LengthIsExact`, `CallbacksAreStream` |
| `urls` | offsets up to 9; any class of byte, 2 or 3 after one of 5 beginnings; bytes of a server, 3 or 4 after one of 4 | 0.6 million | `TypeOK`, `AssertsHold`, `FieldsApart`, `ResultIsTheGrammar`, `PortCharsAreDigits` |
| `request_intake` | 10 requests, cut anywhere | 17 thousand | `EachByteOnce`, `CallbacksAnswerZero`, `NamesSurviveCuts`, `ImplementsIntake`, `EveryRequestIsDecided` |
| `response_page` | 15 responses, received in any parts, memory ending anywhere | 1.3 million | `CompletePageIsWhole`, `ReadyLeavesCompletePage`, `ClientGotThePage`, `ResponseEnds` |

Why the bounds are enough. `MaxFd`, `MaxClients`, `MaxUnits` and `RecvMax` bound
`Proxy`. Three clients are a loader, its heir and a stranger who gets a reused
descriptor, or two loaders of one page and a reader. Four descriptors hold a
loader, its server, a reader and one more; with three, `accept()` and `socket()`
also fail for lack of them. Two units are what it takes for a page to be
incomplete and not empty, for an heir to be behind, and for the order of two
units to matter. The cache is per url, so one url is enough where a property is about
one page. `ServerIsHandedOn` asks whether who goes on with a connection is there for the
same url, and `out_of_memory` has two, which are interchangeable (`UrlSymmetry`);
`foreign_page` has two also. `PageEndsWhereServerIs` is checked with one and is false
with two (section 4, `EInv`), which is why it has the hypothesis `OneUrl`.
`MaxUnits` and `MaxClients` are bounds of the model, in guards; the theorems of
section 4 hold for any value of them.

For the parser, five bits of length leave room for several digits below the
limit and for every way to reach it: the largest length the test admits (23 in
base 10 with these digits, 15 in base 16), those it refuses although they would
fit, those that would wrap, and the value that stands for none.
Digits are 0, 2 and 3, and f for chunk sizes: zero, two digits that differ in
which limit they pass, and the largest. `OneConcern` bounds the combinations of
headers: no message goes on with Transfer-Encoding together with Connection or
Upgrade. The code asks about both in two places only, whether a message that
upgrades has a body, where Content-Length takes the same branch, and whether a
response without length ends with the connection.

For urls, each beginning puts one of the loops, or a part of the server, where
three or four bytes more reach all that the states tell apart: user information,
host, colon and port are four bytes; after `[f` a zone and the bracket's end, or a
colon and a port, are three. Ports have one digit up to 9, so that a second digit passes
the limit. Offsets hold up to 9, and the urls have up to 11 bytes: the run goes
over that border, beyond which offsets and lengths wrap. `FieldsApart`,
`ResultIsTheGrammar` and `PortCharsAreDigits` speak of the urls below it (`Fits`).
They are false above: http_parser.c:2526 says that the characters of a port are
"already validated", but with 16 bits and a port behind place 65535, which a
request line of 80 * 1024 bytes has room for, the loop reads the front of the
url.

The requests have a header whose name and value are two bytes long, so that
each is cut inside, the same name twice, empty values first and between, a body
with a length, one in chunks of more than a byte with a trailer behind, an upgrade,
urls that are refused at different places, CONNECT without and with data behind it,
and one without a version.
The responses have a length of two and of none, a length among blanks and on a
line of its own, no length, no body by status, a status that changes protocol with
the headers that make it so and without, bytes of another message behind; chunks of
two bytes that are an end of line, with a trailer that would be a length in the head,
a chunk of nothing with an extension, and chunks cut off by the server; another coding;
two lengths, a length beside a coding, and a body shorter than its length. Servers close or
do not. Both receivers are checked for every way to cut these streams. A response
that is cut off or is not understood has more bytes to it than were sent, so that any
page it completed would violate `CompletePageIsWhole`.

Deadlock is checked in all of them. `Done` is the step of a call that has
returned and of a peer with nothing left to send; `Halted` and `CallAfterError` those
of a process that has ended and of a parser that refuses calls after an error.

### Fairness

`FairSpec` in `Proxy` has two parts.

- `WF(Next)`: the loop goes on. `poll()` has no timeout, but each connection
  asks for `POLLOUT`, which a socket with room in its send buffer reports at
  once.
- `SF` of serving an heir, or dropping one whose page is lost, in its own
  slot: a client that takes what it is sent is writable again and again when its
  slot is reached. It is strong fairness because the slot is not always that one.

Nothing is assumed of servers, of further clients, or of the choices between
data, errors and silence. That arrivals are bounded by `MaxClients` is an
assumption of the liveness results: each accepted client sends the loop back to
the listener (`Proxy.cpp:130`), and endless arrivals starve the other slots. A
reader is promised an end only once its page is complete: when the server is
lost before that, nobody tells it, and it waits for good.

`FairSpec` in the receivers: the peer sends all it has (`WF` of `Receive`), and a
call goes on until it returns (`WF` of its steps), as a loop does. That the
loop calls the handler again is `WF(Next)` of `Proxy` and the readiness of a
socket with data. A server that closes is seen to (`WF(ReceiveNothing)`); a client is
never assumed to close.

### Runs that find a violation

Each checks what a comment of the repository says.

| Run | Property | What happens |
|---|---|---|
| `segfault` | `NoSegfault` | a handler inherits, as server socket, a stale number that is its own descriptor; its removal erases `end()` (`Proxy.cpp:177`, where a TODO reports a segfault of unknown cause) |
| `foreign_page` | `PageHoldsItsUrl` | a handler with a stale number is found first and receives another one's response into its page |
| `handover_out_of_memory` | `PageEndsWhereServerIs` | a loader that has stopped caching leaves, and the page of its heir ends before the place where the server goes on |
| `request_cut_url` | `CutUrlsAreTaken` | a `recv()` ends within the schema of a good url; the part is parsed as a url and the client dropped (`SocketHandler.cpp:143`) |
| `head_response` | `HeadResponseEnds` | a response to HEAD with a length, on a connection that stays open, is never over (`SocketHandler.cpp:48-55`) |

The first two have one cause: `removeServer` does not reset `server_socket`. A
server goes away, its number is given to a new client or server, and the handler
that still names it closes (`Proxy.cpp:161`) or is found for what is not its own.
`TablesAgree`, `SlotsHaveHandlers` and `DeliveryInOrder` hold in spite of it.

## 4. The proofs

Checked by TLAPS. Those about `Proxy` are for every `MaxFd`, `MaxClients`,
`MaxUnits`, `RecvMax`, `ChunkSize`, set of urls and either `MemoryFails`, under
`BoundsAssumption`, `ChunkSizeAssumption` and `NoUrlAssumption` only; those about
`HttpParser` for every width of a length (`MaxLength` not below 16), every
set of digits, every set of headers that may meet, and any bytes cut anywhere;
those about the receivers for every set of requests or responses that are sequences
of bytes (`StreamsAssumption`, `ResponsesAssumption`), with whatever headers and codings.
The other assumptions about them say that what a message says of itself is what its
bytes say. Of a request: its url is what its request line has there (`UrlAssumption`), its
headers at least those of its lines (`LinesAssumption`). Of a response: names are before
colons and those that begin with transfer-encoding are that (`NamesAssumption`), digits
spell their numbers (`NumbersAssumption`), chunks begin where those before them end
(`ChunksAssumption`), and the whole is what lengths, chunks, status and the end of the
connection make it (`WholeAssumption`).

| Theorem | Statement |
|---|---|
| `ProxyProofs!Invariance` | `Spec => []IInv` |
| `ProxyProofs!TypeCorrectness` | `Spec => []TypeOK` |
| `ProxyProofs!TableConsistency` | `Spec => []TablesAgree` |
| `ProxyProofs!EverySlotIsServed` | `Spec => []SlotsHaveHandlers` |
| `ProxyProofs!RoleConsistency` | `Spec => []RoleConsistent` |
| `ProxyRefinement!CacheRefinement` | `Spec => CacheIsPageStore` |
| `ProxyDelivery!ReaderCorrectness` | `Spec => []ReaderMirrorsCache` |
| `ProxyDelivery!CompletionCorrectness` | `Spec => []CompletionSealsPage` |
| `ProxyDelivery!DeliveryCorrectness` | `Spec => []DeliveryInOrder` |
| `ProxyDelivery!HandoverCorrectness` | `Spec => ServerIsHandedOn` |
| `ProxyDelivery!HandoverIsSeamless` | `Spec => []PageEndsWhereServerIs`, if memory suffices |
| `HttpProofs!TypeCorrectness` | `Spec => []TypeOK` |
| `HttpProofs!AssertsCorrectness` | `Spec => []AssertsHold` |
| `HttpProofs!MarksCorrectness` | `Spec => []OneMark` |
| `HttpProofs!LengthCorrectness` | `Spec => []LengthIsExact` |
| `HttpProofs!StreamRefinement` | `Spec => CallbacksAreStream` |
| `RequestProofs!CallbacksNeverStop` | `ReceiverSpec => []CallbacksAnswerZero` |
| `RequestProofs!RequestsAreParsed` | `ReceiverSpec => Spec` of `HttpParser` |
| `RequestProofs!BytesCollectedOnce` | `ReceiverSpec => []EachByteOnce` |
| `RequestProofs!RequestIntakeRefinement` | `ReceiverSpec /\ []OneRequest => ImplementsIntake` |
| `RequestProofs!NamesAreWhole` | `ReceiverSpec /\ []NoLineGoesOn => []NamesSurviveCuts` |
| `ResponseProofs!ReadyPagesAreComplete` | `ReceiverSpec => []ReadyLeavesCompletePage` |
| `ResponseProofs!ResponsesAreParsed` | `ReceiverSpec => Spec` of `HttpParser` |
| `ResponseProofs!ClientsGetThePage` | `ReceiverSpec => []ClientGotThePage` |
| `ResponseProofs!CompletePagesAreWhole` | `ReceiverSpec => []CompletePageIsWhole` |
| `UrlProofs!TypeCorrectness` | `Spec => []TypeOK`, for every url, `Width` and `MaxPort` |
| `UrlProofs!AssertsCorrectness` | `Spec => []AssertsHold`, likewise |
| `UrlProofs!FieldsCorrectness` | `Spec => []FieldsApart`: urls below `Width` |
| `UrlProofs!PortCharsCorrectness` | `Spec => []PortCharsAreDigits`: urls below `Width` |
| `UrlGrammarProofs!ResultCorrectness` | `Spec => []ResultIsTheGrammar`: urls below `Width`, every `MaxPort` |

None of the properties is inductive. `IInv` has a part for each piece of state.

- `Tables`: `pollFds` has no duplicate and starts with the listener, its range
  is the domain of `sockets`, which is the open descriptors and the listener.
  That the listener is first and is not a descriptor of `Fd` is what keeps
  `removeServer` of a stale number from closing it, and `pollFds` from becoming
  empty. It is stated of three variables as parameters, because `removeClient`
  works on tables that `connectToServer` has already changed.
- `HandlersFit`: every handler has its type and `RoleFits`. `becomeHeir` turns a
  reader into an owner of a server, so one needs that a reader owns none
  (`DeputyIsReader`), and that who hands over has a url and has sent its
  request.
- `Served`: every client's socket has a handler, and every server's an owner.
  The second is the delicate one: handlers name closed descriptors, and the
  removal of the last handler that names an open one has to close it or pass it
  on (`RemoveClientServed`).
- `PagesFit`: pages are sequences of units; what is appended and handed over is
  typed by it.

`NextPreserves` has a lemma per action. `removeClient` is proved once
(`RemoveClientPreserves`), for a handler and tables that may have changed in
the same step, and used by the five actions that end in it. The refinement needs
`PagesFit` from `IInv`; each action grows one page, drops one that is not
complete, or leaves `pages` alone.

`ProxyDelivery` adds what handlers, pages and peers say of each other; each of its
invariants contains the one before.

- `RInv`: a handler without a role has handed nothing over; a reader has handed
  over as many units as its position has moved since it got its client, and they
  are those of its page behind that place, unit by unit (`Mirrors`, `Behind`); who counts its response as complete has a complete page
  (`Seals`). A page is dropped only by a `LOAD_CASHING` handler without a deputy, and
  a reader that has read anything of the page is one (`DropsPage`, `Deputies`); all other
  steps leave the beginning of every page as it was (`Extends`).
- `DInv`: connections are numbered once (`Numbered`); every unit in a page or
  at a client was received, not beyond what its connection has sent (`Known`);
  the units of a connection are in order in both, and what stands in a page behind a
  reader's or an heir's position comes after all that it was sent (`Continues`).
  The last is the delicate one: an heir can lose its page, which another loader
  then makes anew, and its position means nothing there. It holds because what is
  received later is later than all units known (`Later`, `Fresh`). A master or a
  transient handler sends what it has received just now, so it needs no such bound.
- `HandedOn` is about one step: the urls of the handlers that name an open
  connection do not become fewer. `removeClient` either closes the connection of the
  one that leaves, or has given its number and its url to a deputy, also when a stale
  number makes it somebody else's connection.
- `EInv`, for `~MemoryFails`: no handler is `LOAD_TRANSIENT`; every open
  connection is named; and of a connection that handlers of one url name, the page of
  that url holds exactly the units from `lost + 1` to the last one sent, and no other
  page holds any (`UpToServer`, `Reached`). There are two steps at the heart of it. A unit that arrives
  follows all that the page holds (`ReceiveUpTo`). A page that is dropped
  takes with it what it held: if that was anything, it ended with the last unit sent,
  so that `lost` is `sent` from there on (`LosesWhatItHeld`, `DropUpTo`), also for a
  connection that another loader of that page goes on with. So no unit is missing
  between two that are there, and an heir goes on with the unit that follows its page;
  what went with a page before stays lost. The hypothesis `OneUrl` came from the attempt to prove it:
  with two urls, TLC found an heir with a stale number that takes units of a
  connection to the page of its own url and leaves before the connection goes on
  with its owner, behind a hole. It is the fault that `foreign_page` shows.

`DeliveryInOrder` holds whether memory suffices or not; the hole of
`handover_out_of_memory` is in what is missing, not in the order.

The invariant of `HttpParser` has five parts. `Typed` and `Marked` (marks
are those that the state reads, which is what makes `Resumed` right) hold always.
`Bounded` holds of the length also after an error, since `LengthIsExact` speaks of
all states: while digits are read nothing has wrapped, and while a body is read the
length is what is owed. `CallFits` is about calls. `Running` holds until an error:
`PhaseFits` says which part of a message a state belongs to (trailers are headers,
after the body); `HeaderFits`, that a number is `Spelled` from its first digit until
its line is through, also when it is folded, and that of Content-Length until the
body; `OwedFits`, that nothing is owed between bodies; `SizeCounted`, that the first
byte of a chunk's size is the one `nread` has counted, which is the assertion at
http_parser.c:1998. Most cases of the switch move within a part of a message:
`HeadStep` and `SizeStep` say once what such a move keeps, `FailStep` what an error
leaves, and the cases that change the length or the history have a lemma each. The
test before the multiplication is where `MaxLength` and the base meet:
`length * base + digit` stays below `MaxLength` when `length <= (MaxLength - base) / base`.
`StreamRefinement` maps every case to a step of `MessageStream` or to none.

`CallbacksAnswerZero` is inductive once the handler is known to be a record
(`Calm`): there is a value only when the last callback was for a value. The
proof needs nothing of the parser, so it covers every order of callbacks.
`ReadyLeavesCompletePage` needs that there is a page whenever the parser runs
(`Stored`): `Receive` makes one before the call, also when memory ends, and no
step of a call drops it; and that the parser's steps are made within a call
(`ParserInCall`, over all the cases of the switch).

The other proofs about the receivers rest on what is proved of the parser.
`RequestsAreParsed` and `ResponsesAreParsed` say that a receiver's steps are steps of
`HttpParser`; for that one needs that it hands over bytes (`Placed`: its position lies in the
stream). So all invariants of `HttpParser` hold of the parser in a receiver, and its
exact length is why a receiver only goes forward: a body or a chunk that is read in bulk moves
`pos` by what `content_length` went down by (`BodyShrinks`).

- `EachByteOnce`: all that callbacks were given lies before some place of the stream,
  all that is marked behind it, and both in order (`Collected`). A callback moves
  that place to the end of what is marked, whichever string it appends to, and a step
  that makes no callback leaves it. The strings then are apart because what is new
  in one of them lies behind all of them; that a value that was cut goes to the name
  does not matter.
- `ImplementsIntake`: until the request is ready, `LineRead` says what has been read
  of its line: no blank, blanks only after the first one, or the url from the first byte
  after them, which is what `sh.req_url` has with `text` behind it. `EarlyStep` and
  `LaterStep` say that the parser enters and leaves the url there, and nowhere else until a
  message ends. That a part of the url is a beginning of the whole needs that the url ends
  somewhere (`UrlBegins`). The hypothesis `OneRequest` came from the attempt to prove it:
  once a request is ready, the parser may go on with a second one in the data of the same
  call, and as soon as it marks the url of that, the url that was whole grows
  (`SocketHandler.cpp:59`). Streams of one request, as those of the run `request_intake`, have
  no url to come.
- `NamesSurviveCuts`: `LinesRead` says for each state of a header's line what was read of
  it. In `header_field` the bytes from the beginning of the line up to here are what the
  handler has of the name with `text` behind it, or `text` alone while the header before is
  still to be inserted (`NameSoFar`); behind the colon the name is whole and only blanks follow
  it; in `header_value`, in the call the value began in, `text` is the value so far; and where no
  header is read, the last one is a header of the stream, or there is none (`Settled`).
  `OtherStep` says that the parser comes to a header only behind the end of a line, of the
  request line as of the last chunk, so that trailers are headers like the others. The hypothesis `NoLineGoesOn` is the other half of what
  `cut` excludes: a value that goes on in the next line is handed over in parts too, and
  the second part goes to the name (`SocketHandler.cpp:97`). A grammar of a header's line
  (`HeaderLies`) is needed because a request names its headers itself.
- `ClientGotThePage`: until memory ends the page has all that was received, and a handler that is
  through with its client has sent it all of that, or has met the end of the connection, after
  which it receives no more (`Delivery`). What it has sent then reaches to the end of the
  response whether the page does or not, because a message ends where `PageCovered` says, in what the parser
  was given.
- `CompletePageIsWhole` compares with where the bytes of a response say that it ends.
  `WholeAssumption` defines that without the parser: the headers end with the first
  empty line (`HeadEnd`); the body has the number behind the colon of the only
  length header (`NumberEnds`), as the digits spell it (`numbers` and `hexes`, which
  say for each byte what the digits up to it spell); or its codings end in the word chunked
  (`Chunks`), and it ends with the first empty line behind a chunk of no bytes
  (`LastEnds`), where each chunk has a line with its size (`SizeLine`) and begins where the
  one before ends (`ChunkBefore`); or else it is empty or ends with the connection,
  according to the status. Of a response that is not `Framed` (no end of its headers, two
  lengths, a length beside a coding, a last chunk that does not come) nothing is assumed, and
  the theorem says that no message of it completes a page. `FirstMessage` is
  what the parser knows in each state of the first message. `LinesSeen`: the last byte passed was an
  LF in those states that begin a line, and in no others, and an empty line is recognized with its CR
  or without, in the head as among trailers. `NamesSeen` and `OneLength`: the state is
  `header_field` from the first byte of a name on, so that the colon of no length and of no coding
  is missed, and a second length does not get beyond
  its value. `LengthSeen`: `value` has the digits so far, and once they end, the number; also when blanks
  or the end of a line come before it or after it. With `Spelled` of `HttpProofs`, `content_length`
  then is the length of the response when its headers end, and `BodyLeft`
  counts it down with the bytes. `CodingsSeen`: the parser believes in chunks only when a
  value has said so, to its end. `ChunksSeen`: what it takes for the line of a chunk is one, and the
  length that is left of its data leads to where the next begins. The lemmas before that
  (`FirstMoves`) leave out of the 30 cases of the
  switch what does not matter here. Once a page is complete it stays so, and more bytes only add to it.

The proofs about `UrlParser` rest on `UrlAssumption` alone: `Width` above 1, and
urls and what follows them sequences of bytes. The invariant of `UrlProofs` has two parts.
`Safe` holds for every url. A field that wraps ends too early, never too late
(`i % Width <= i`), so no field and no loop reaches beyond the url; and each byte of
a url that is taken apart was accepted by the first loop, so that `c - '0'` is a
number in the loop over the port. That the host has length 0 until its first byte
is found is needed here, because its offset is then moved to `p`. `Laid` holds while
`Fits`. `InOrder` says that fields follow each other in the order of `Rank`, and for
each loop one has to know more: `FieldsLaid`, that the field of the state, and no
other, ends at `p`, and which fields can have been found in a state (`Found`);
`HostLaid`, that what follows the server begins behind `buflen`, what precedes it ends
before `p`, and the host is empty while its bytes are still ahead. `FieldGrows` is the
step that all loops share: a field that goes on or begins at `p` keeps the order.

`ResultIsTheGrammar` compares a state machine with a grammar that has no states: `Parsed`
is what the loops have read so far, in the words of the grammar. In the first loop,
`ReadSoFar` says for each state which bytes lie at the places of the fields that have a
length: a schema of letters, the slashes, a server of bytes that may be in one, a path, a query
behind its `?`, the `#` before a fragment. In the loop over the server, `ServerSoFar` says it
of user information, host and port, where `HostSoFar` tells apart a name, an address in brackets,
and one with a zone. In the loop over the port, `v` is the value of the digits before
`p`, and what the first two loops found are the parts of the grammar. Three kinds of
lemmas keep this, most of them of any url and any lengths and of no state:

- A byte that leads on keeps the account (`ReadStep`, `ServerSoFarStep`). The url grows
  by that byte while it is read, so the account speaks only of bytes that have been read.
- A byte that leads nowhere, or an end that comes too early, is one that no url of the
  grammar has (`ReadDead`, `ReadStops`, `HostDead`). The
  grammar speaks of a whole url, and is refuted here from what was read of a beginning.
- At the end of a loop the account is what the grammar says (`ReadIsGrammar`,
  `HostIsGrammar`), so that the places of the fields are the parts.

`PortValue` is a recursive function over the places of the port, and of such a function it has
first to be shown that there is one: a lowest length without one does not exist
(`WorthExists`, by `LowestIn`, which follows from the well-foundedness of `<`). In the same way
two of them agree (`WorthAgrees`), and a digit more is worth ten times what was before it and the
digit (`PortMore`). The loop stops as soon as the value is above `MaxPort`; that the whole
port then is too large needs that the value never falls (`PortGrows`).

Not proved, model-checked only: liveness (`FinishedLeaves`, `ReaderFinishes`,
`HeirCatchesUp`, `EveryRequestIsDecided`, `ResponseEnds`), which is out of the prover's reach.
The properties of section 3 that are violated have, of course, no proof.

## 5. Not modelled

- Blocking: `send()` to a slow client, `connect()` and `gethostbyname()` block
  the thread and so the whole loop; a step of the model is atomic and has no
  duration.
- What becomes of readers of a page whose front went with another loader: they are sent
  what the page has, which `PageEndsWhereServerIs` and `DeliveryInOrder` describe and the
  code does not prevent. No line of the repository promises otherwise.
- In `Proxy`, what a request says besides its url, and the bytes of requests and
  responses: `RequestReceiver` and `ResponseReceiver` have them, for one handler.
- Several requests on one connection: `RequestReceiver` lets one follow another
  in its steps, but its streams hold one. Which address a url leads to: the proxy
  connects to port 80 of it whatever it says (`SocketHandler.cpp:220`).
- `sendRequest` when `send()` takes less than the request
  (`SocketHandler.cpp:257`): to the model it is a server that does not answer.
- The logger, the constants, `main`, build files.

## 6. Plan

In this order; all of it is done.

1. `Cacher`, `SocketHandler`, `Proxy`: the loop and the handover, safety.
2. `PageStore`; liveness; the findings.
3. `ProxyProofs`: type invariant, tables, roles, ownership.
4. `ProxyRefinement`.
5. `HttpParser`, `MessageStream`.
6. `Url`, `UrlGrammar`, `UrlParser`: urls.
7. `RequestReceiver`, `RequestIntake`, `RequestProofs`: requests and the
   callbacks that collect them.
8. `ResponseReceiver`, `ResponseProofs`: when a message ends in relation to the
   page and the client.
9. `UrlProofs`: `TypeOK` and `AssertsHold` for every url, `FieldsApart` and
   `PortCharsAreDigits` for those below `Width`.
10. `HttpProofs`: `TypeOK`, `AssertsHold`, `OneMark`, `LengthIsExact` for every
    width and every base, and `CallbacksAreStream`.
11. `ProxyDelivery`: `ReaderMirrorsCache`, `CompletionSealsPage`,
    `DeliveryInOrder`, `ServerIsHandedOn`, and `PageEndsWhereServerIs` while memory
    suffices.
12. `RequestProofs` and `ResponseProofs` on top of `HttpProofs`: that the receivers run the
    parser, `EachByteOnce`, `ImplementsIntake`, `ClientGotThePage`.
13. `RequestProofs`: `NamesSurviveCuts`, with a grammar of a header's line
    (`LinesAssumption`), as `UrlAssumption` is one of a request line.
14. `CompletePageIsWhole` for every stream, with a grammar of framed messages, chunked
    ones included.
15. `UrlGrammarProofs`: `ResultIsTheGrammar` for every url below `Width`.
