# awake-in-tenerife: models and proofs

awake-in-tenerife is a web server with its own templating system and data
abstraction layer, written in D (`src/core`), on top of libowfat and the
MongoDB C driver (`src/common`, vendored). One thread runs `main_loop`: it
waits for descriptors, writes what is pending, accepts, reads, and makes pages
while it reads. All the difficulty of the program comes from that design:
everything a request touches -- the current connection, socket, session, user,
the arguments, the output buffer -- is a global that the request before has
left behind, connection structures and data objects are reused, and counters
and jump targets are kept by hand.

## 1. The system

| Part | Source | State it keeps | Operations | What makes it correct |
|---|---|---|---|---|
| Connection pool | `core.d` 278-443 (`dyn_connection`) | a list of structures that only grows, five static counters | `init`, `connect`, `end`, stage changes in `main_loop` | the counters count; a structure serves one descriptor; a free one is clean |
| Main loop | `core.d` 1493-1870 | `cur_conn`, `cur_sock`, `output_len`, `cur_ptr`, libowfat's table | wait, write, accept, read, end | each open descriptor has one structure; responses finish; output stays in bounds; bounded connections |
| Sessions, logins | `core.d` 424-443, 600-660, 1030-1168; `session.d` | `cur_session`, `user_session`, `uid`, rows in Mongo | `make_session`, `get_session`, `login`, `logout`, `print_cookie`, `save` | a page is made as its own user; a row changes only for its visitor; one row per sid |
| Data objects | `edb.d` 1-1000 | per object: `_id`, fields, cursor, `current`, `skip_loop` | query, load, `loop`, `save`, `destroy` | a loop gives each row of its page once; a document changes only through its object |
| Panel compiler | `panel.d` 1363-2270 | bytecode, pending jumps per level, `loop_return` | a tag at a time | jumps go where the template says |
| Panel renderer | `panel.d` 2410-2792 | instruction pointer, output | one instruction | prints what the template means, ends |
| Request parsing | `core.d` 1068-1490 | input, `header_len`, `content_len`, POST, COOKIE | `process_header`, `process_qs`, `process_cookie`, `process_post` | a request split over reads is parsed as in one piece |
| Template objects | `objects.d`, `templates/*.d` | arguments of one tag | print HTML | arithmetic of pages and links |
| Helpers | `lib.d` | none | string functions, `expressions` | return what they say |
| Files, configuration, photos | `core.d` 660-760, 1876-2200 | `FILES`, `FILES_GZIP`, settings | read at start, `reload_panels` | a response keeps its bytes |
| HTTP client | `addon/http_request.d` | a socket | one blocking request | |
| Bindings | `common/mongodb.d`, `common/kxml/xml.d`, `common/resolve.c` | | | |
| MongoDB driver | `mongo-c-driver/src/mongo.c`, `bson.c`, `md5.c` | a connection (`left_opts`, `right_opts`, `sock`, `connected`), a cursor (`mm`, `current`), a document being built | connect, reconnect, fail over, insert, update, remove, find, next, destroy, commands; append, finish, iterate | it talks to the server it believes in; a reply belongs to its request; a cursor gives each document once; what is built is read back |
| Descriptors and events | `libowfat/io` | the table of descriptors, the lists of ready ones, `io_wanted_fds` | `io_fd`, `io_wantread`, `io_waituntil2`, `io_canread`, `io_tryread`, `io_close` ... | counter, kernel and flags agree; a wake-up is for its own connection; none is lost |
| Batches and buffers | `libowfat/io/iob_*`, `buffer`, `array`, `stralloc` | bytes on their way | add, send, get, put, allocate | bytes go on in order, none lost or twice |
| Formats | `libowfat/textcode`, `fmt`, `scan`, `socket`, `tai`, `taia` | none | encode, print, scan, add | what is printed is read back; no overrun |
| Names, databases | `libowfat/dns`, `cdb` | one query; one file | ask, retry, answer; write, search | the answer is to the question; what is stored is found |

`core.d` calls the panel renderer, the sessions and the data objects; `edb.d`
calls the driver for every row; `main_loop` calls `libowfat/io` for every
descriptor. The vendored libraries are modelled because the program is only as
right as they are, and because what they keep by hand -- linked lists threaded
through a table, a counter beside flags, pointers into a message -- is where
an order of calls nobody tested goes wrong.

The parts interact by calls in one thread and by the globals above. The peers
and the database are the only actors beside that thread; they move between any
two of its steps. There is no persistence but the database, so a restart
forgets everything except the rows.

### Behaviours that are hard

* **Globals of the request before.** `cur_conn`, `cur_sock`, `cur_session`,
  `user_session`, `uid` keep their values between requests. The write loop
  (`core.d:1553`) promotes whatever `cur_conn` points at, not the connection it
  writes to; `end()` closes `cur_sock` (`core.d:375`); `logout()` saves whatever
  session is current (`session.d:88`).
* **Reuse.** A `dyn_connection` serves one peer after another, an object one row
  after another. What is not reset is inherited.
* **Many reads, one request.** Each read that completes nothing parses the
  header again from its first byte; a second request on a connection lengthens
  a response that is half written.
* **Hand-kept counters.** `used`, `connected`, `reading`, `writing` are changed
  one at a time in five places, are unsigned, and steer the accept loop.
* **Look up now, insert later.** `make_session` looks for a row and the insert
  follows pages of code further on, with other requests in between; ids come
  from `rand()`, which is never seeded.
* **Jumps filled in afterwards.** The compiler of templates writes jumps whose
  goal it does not know and fills them in when a later tag is met, at another
  level of its recursion. One that is forgotten leads to byte 0, and the only
  thread of the server never comes back.
* **Read-ahead.** A query fetches its first row before anybody calls `loop()`,
  which then has to hand that row out without fetching.

* **A descriptor number is reused** while its closed predecessor is still in a
  list of ready descriptors.
* **A reply is whatever comes next.** The driver compares no `responseTo`;
  after an error, a failover or an early end of a loop the next reply must
  still be the right one.
* **Parts of a message.** A request is parsed again with each read, a batch is
  sent in pieces, an answer comes in two segments, a cursor in batches: each
  cut is kept as a pointer or a count, and the end of each is a comparison.
* **A length announced and then written.** Encoders, printers and documents
  compute first how much they will write.

PROJECT.json lists these as hazards, each at its line, with the property that
would catch it, or the reason why none does yet.

## 2. Modules

    ConnPool        the pool and its counters: operators from pools to pools
    ConnLife        abstract: the life of a connection
    MainLoop        main_loop over ConnPool, with the kernel and the peers;
                    implements ConnLife
    MainLoopProofs  each operator of the pool keeps PoolOK; the inductive
                    invariant of MainLoop; it implements ConnLife
    Session         visitors, sessions and logins
    SessionProofs   types, one row per sid, whose page is made and whose row
                    is written
    Edb             data objects over a collection
    EdbProofs       what a loop hands out, and who changes a document
    Template        abstract: what a template means
    Panel           compiler and renderer; implements Template
    PanelProofs     render stays inside the bytecode
    Request         a request cut into reads, and what an earlier one has left
    RequestProofs   what is posted is acted on once and whole; a request that
                    has arrived is answered
    Driver          the MongoDB driver, its servers and their faults
    DriverProofs    which server a connection is to, which reply comes, and
                    what the calls promise of documents and cursors
    Io              libowfat's table of descriptors, over the kernel
    IoProofs        the counter of wanted descriptors, and stale wake-ups
    Dns             one DNS query over its servers, UDP and TCP
    Bson            documents: append, finish, iterate, search
    Arrays, Buffer, Batch, Digest    growing memory, buffered bytes, batches,
                    the blocks that md5 hashes
    Streams         the four side by side: bytes in their order
    LibowfatProofs  Dns: what a query holds, and what it hands on; Arrays:
                    what is in use, and what it holds; Streams and its
                    components: bytes in their order
    TextCodes, FmtScan, Addresses,   what is printed and read back
    HttpDate, Taia
    DnsNames, Cdb   domain names and answers; constant databases
    MC*             values of the constants for TLC; MCData composes the
                    formats, which share no state, into one run, four
                    of them as Streams; MCPage does so with Edb and Request

`MainLoop` extends `ConnPool`; `MainLoop` and `Panel` instantiate their
abstract specification with a refinement mapping. `Session` and `Edb` stand by
themselves: `Session` has the part of data objects it needs (look up, insert or
update by `_id`) as three operators, since the rows of a session are fetched by
a query of one row.

### ConnPool, MainLoop, ConnLife

`ConnPool` is `dyn_connection` (`core.d:278-443`). A pool is a record: the
counters `allocated`, `used`, `connected`, `reading`, `writing`, and for each
structure its `socket` and `cur_stage`. `InitPool` is `init()`, `Connect` is
`connect()` with the assignments of the accept loop behind it, `StartReading`
and `StartWriting` are the changes of stage in `main_loop`, `Release` is
`end()`.

`MainLoop` is `main_loop` (`core.d:1493-1870`). `phase` says which loop the
thread is in: `WaitUntil2` is `io_waituntil2`, `WriteSome` and `WriteFails`
one iteration of the write loop (including the promotion of `cur_conn`, which
need not be the connection written to), `WritesDone` its end; `StartAccepting`,
`Accept` and `AcceptDone` the accept loop, `ReadBytes`, `ReadRejected`,
`ReadNothing`, `ReadError` one iteration of the read loop, `ReadsDone` its end.
`inuse`, `wantwrite`, `cookie`, `canread`, `canwrite` are the table of
libowfat as far as `main_loop` uses it. Environment actions are those of the
peers and the kernel: `PeerConnects`, `PeerSends`, `PeerCloses`, `PeerResets`.

What a request asks for is one of six outcomes that `main_loop` tells apart
(`Requests` in the module names them with the code they stand for), and
`NextRequests` how the outcome moves when further bytes come: any to any, until
a file is found, because each read parses the header again from its start and
looks at bytes behind the input. A request line that is cut between two reads is
answered with a 500 (`core.d:1372-1383`), and the next read may find a page or a
file in it. Output is counted in units; a write takes any number of them. A page
or a refusal is printed behind what was printed before; a file sets `outLen` to
its own length, which may be another after a reload, and leaves `curPtr`
(`core.d:1713-1714`). `replaced` is a history: a file took the place of output
of which a part was sent. For such a structure `WithinOutput` claims only that
the loop wants to write, and `HowMuch` follows the unsigned difference past the
end of the output, up to a bound (`Mapped`) where the write fails.

`ConnLife` says what all this is for: a descriptor is accepted only while at
most `Limit` are served, moves from connected to reading to writing without
skipping, and ends at any stage. The mapping reads the stage of the structure
that the cookie of the descriptor names. It is a real refinement because the
code changes stage and socket of two different connections in one iteration.

### Session

`Session` is what `Core.get_session`, `dyn_connection.make_session`,
`do_page_request`, `print_cookie` (`core.d`) and `session.d` do with the
globals and with the rows of the `Session` collection. A request goes through
`Read` (header complete; `process_qs` and `process_cookie` write through
`cur_session` before `get_session` sets it), one of `NoFunction`, `Login`,
`SetTimezone`, `Logout`, then `PrintCookie` and `SaveSession`; `ReadCrashes` and
`FunctionCrashes` are the dereferences of a null `cur_session`. `End` is the end
of a connection and `Restart` a restart at any moment, which keeps the rows and
begins the sequence of `rand()` anew (nothing calls `srand`). Reads of other
connections come between any two reads of one; between the function and the
save nothing does, because one thread runs them.

`MaxRows` and the length of `GenSid` stop a behaviour when it has made as many
rows or ids; they are guards of `Arrives` only.

### Edb

`Edb` is the generated code of `GenDataModel` and `EdbObject`
(`edb.d:1-1000`): construction and `load` by id and by query, `loop` with
`skip_loop`, assignment, `save` with its choice of a new id, `destroy`. A
document is one field, which may be missing. What a query finds, and in which
order, is the database's affair: the constant `Answers` is a set of queries, each
a function from collections to sequences of ids (`found` where it is used). Two
history variables, `page` and `seen`, hold the rows of the page of the last query
and the ids handed out since; they say what `LoopExact` compares and no action
reads them. `LoopExact` counts: the nth id handed out is that of the nth
readable row of the page.

### Panel, Template

`Panel` is `parse_indent` with `parse_conditions` and `parse_condition`
(`panel.d:1363-2270`) and `render` (`panel.d:2410-2792`). `Author` writes the
template tag by tag; `frames` are the recursion levels of `parse_indent` with
their locals, `code` is `pb`. `If`, `Elseif`, `Else`, `Endif`, `Loop`,
`LoopUnknown`, `Endloop`, `Text` compile a tag each, `ReturnTextEnd` hands a
tag to the level above. After `EndOfText` the code is run for any values of the
variables (`Request`), a byte at a time.

`Template` gives the same tags a meaning with no code and no jumps: it matches
the tags, knows which texts a branch holds, and says which text or row may come
next. Panel implements it: whatever the template, a page shows what its tags
say, in order.

Three things the code gets wrong are in Panel as the code has them, and named
exceptions of `ImplementsTemplate`, which claims nothing of a page whose template
has one: `LosesParentheses`, `(a && b) || c` (`panel.d:1679`); `SkipsComparisons`,
several comparisons in an `elseif` (`panel.d:1792`); `OrdersNegative`, `<` and its
like with a negative number (`panel.d:2644`). `PageIsFinished` excepts only the
first. `DocumentedConditions` is `ImplementsTemplate` with no exception: the run
`panel_parentheses` refutes it with the condition that the comment at
`panel.d:1609` compiles.

What is left out is named in the module: a comparison is of a variable with a
number; conditions that do not compile and loops over unknown objects contain
text only; loops have a loop function; every loop and `if` is closed (one that is
not makes a page that never ends, a hazard listed). `variable`, `set`, `default`,
`frame` and the other tags are text here.

### Request

`Request` is the way of one request through `main_loop` (`core.d:1642-1760`),
`process_header`, `process_cookie`, `process_qs` and `process_post`
(`core.d:1068-1490`). The stream of the peer is a sequence of tokens; `Read` is
one read of any number of them, after which the whole input is parsed again.
`header_len`, `content_len`, `POST`, `COOKIE`, the name of the function and the
language are what the code keeps between two reads. Behind the end of the input
lies what an earlier request has left there, because `process_header` looks at
bytes past it (`core.d:1477`); `dead` is the end of the program by a slice that
is as long as memory. `MainLoop` stays with a free choice of what a request asks
for: it is about who is served, not what.

### Driver

`Driver` is `mongo.c` as `edb.d` uses it. `conn` is `mongo_connection`, `cur`
the cursor with its batch (`mm`) and the place of `current` in it; `call` is the
call that waits in `looping_read`. `MongoConnect`, `MongoConnectPair`,
`MongoReconnect`, `MongoDisconnect`, `MongoDestroy` are composed of
`Helped` (`mongo_connect_helper`), `Disconnected` and `OtherServer` (the second
half of `mongo_reconnect`), so that every one of their steps may fail.
`MongoInsertBatch`, `MongoUpdate`, `MongoRemove` send and return; `MongoFind`,
`CursorGetMore`, `RunCommand` and `Save` send and wait, and
`MongoReadResponse` does with the reply what each caller does. `CursorStep` is
`mongo_cursor_next` within a batch, and `LoopHangs` a send or receive that
fails, which the loops of `mongo.c:42-60` never leave.

The servers are external: they answer requests in turn, return documents in any
order (`Orders`), cut results into batches as they like, keep cursors. `Fault` is a crash, a failover or a cursor given up
after ten minutes. `believed`, `found`, `given`, `clean`, `ticket` are
histories no call reads. One connection and one cursor at a time, the
documents shared by the pair, no replication lag: a pair is used for connecting
(`pair`), one server for data (`edb`).

### Io

`Io` is the table of `io_fd.c` and the functions around it. State is a function
of the direction, since reading and writing are the same code twice: `want`
holds the wishes, `lists` the flags `canread` (`canwrite`), the list from
`first_readable` through `next_read` and, where SIGIO is compiled in, the second
list of what was handed out. `interest` is the kernel's own set, `wanted` is
`io_wanted_fds`. `Choices` is how `io_fd` chooses a mode: at its first call, and,
where none was to be had (`UNDECIDED`, which is poll), again at every call.
`TellKernel` is `epoll_ctl`, `kevent` or the write to `/dev/poll`, which may fail
unnoticed; `IoWantFails` is the return of `io_wantread` when `poll` fails in SIGIO
mode, after the descriptor was counted. `unheard` and `overcounted` are histories
of these faults: the descriptors the kernel may be wrong about, and the wants that
were counted and dropped. `WantsAgree` is exact in both. `WaitEvents`, `WaitSignal`
and `WaitPoll` are the branches of `io_waituntil2`, one report at a time but for
the sweep after `poll`; for `/dev/poll` a descriptor with a link is flagged and
not queued (`HasLink`). `IoCan` is
`io_canread` (`io_canwrite`) with the read or write `main_loop` makes of its
answer; `IoTryEmpty`, `IoTryBlocking` and `IoEagain` are the others. The loop of
`io_canread` and the sweep after `poll` are functions of the number of turns
taken (`AfterTurns`, `Polled`); `Chain` is what can be met by following the
links, the least set closed under them. `stale` and `broken` are histories: the
flags set before the number was last closed, and the directions whose list may
have lost a ready entry in one of the ways named in section 6. `LostOnlyBroken`
says of every other list that what is flagged and wanted is on it, and that one
call hands out one such and leaves the others on it - so that calling over and
over, as `main_loop` does, hands out all.

### Dns

`Dns` is `dns_transmit.c` with the caller `dns_resolve`. `tcpstate`, `udploop`,
`curserver`, `s1`, `pos`, `query`, `packet` are the fields of the structure.
`ThisUdp`, `ThisTcp` try to open a socket to this server or one after it;
`GetUdp`, `GetConnected`, `GetLength`, `GetBody` are the branches of
`dns_transmit_get` by `tcpstate`, `GetTimeout` the one behind its deadline.
Messages arrive as kinds the code tells apart: an answer, one to the query
before, truncated, damaged, a failure. An answer over TCP comes in two segments
at least, and a connection is slow, refused, or there at once.

### The formats

One module each, with the same shape: a program makes legal calls, the bytes are
kept as they lie in memory, and a history keeps what the calls were meant to
say. `Bson` is `bson.c` (buffer growth, the stack of unfinished objects, the
iterator, `bson_find`); `AppendRenamed` is `bson_append_element` with a name, which
makes room for the name once and writes it twice. `Arrays` is `array_*` and `stralloc_*` with allocations
that fail. `Buffer` is `buffer_get*`/`buffer_put*` with reads and writes that
take less. `Batch` is `iob_*`, sent by `writev` and `sendfile` or through the
callback of `iob_write`, which may fail in the middle of a file (`WriteFails`).
`TextCodes` is ten encoders and decoders; `FmtScan` the
printing and scanning of numbers, in types of 4, 5 and 7 bits instead of 16, 32
and 64, so that every overflow is reached. `Addresses`, `HttpDate`, `Taia` are
IP addresses, dates and times, `Digest` the gathering of blocks in `md5.c`,
`DnsNames` domain names and the parsing of packets, `Cdb` the constant database.
`Streams` has the four that hand on bytes side by side (`Arrays`, `Buffer`,
`Batch`, `Digest`), with the assumptions on their constants and the property that
is stated of all four, `BytesInOrder`.
Floating point, wide characters, and the rounds of md5 are left out.

## 3. Runs

| Run | Module | Asks | States, bounds |
|---|---|---|---|
| `mainloop` | MCMainLoop | types, counters, ownership of descriptors, cleanliness, bounds of output and pool, refinement of ConnLife | 3 descriptors, limit 1, 2 sends of one peer and 1 of the others, files of 1 and 3 units, pages of 2, about 1 690 000 states |
| `mainloop_live` | MCMainLoop | every response is finished, with a further request while it is written | 2 descriptors, 2 sends, files of 1 unit, pages of 3, one write and one read per round, about 424 000 states |
| `mainloop_gone` | MCMainLoop | violated: a closed peer is collected | 2 descriptors, 1 send each, files of 1 and 3 units, pages of 2 |
| `session` | MCSession | identity, sessions, rows | 2 connections, 1 old id and 2 new ones, 2 users, up to 4 rows, about 440 000 states |
| `session_restart` | MCSession | violated: a sid is a key | same |
| `page` | MCPage | loops and ownership of documents; a post is acted on once and whole, a whole request is answered | 2 objects, 3 ids, pages of 2 rows, the first and the second, and of 1 row (`LoadById` of 0), 2 queries, about 109 000 states; 97 requests, cut anywhere, about 18 500 states |
| `panel` | MCPanel | types, refinement of Template, pages end | 5 tags and the texts between them, 2 variables, up to 2 rows, values -1 to 1, about 421 000 states |
| `panel_parentheses` | MCPanel | violated: conditions mean what the comment says | 5 tags, the condition of the comment |
| `driver` | MCDriver | which server, which reply, cursors, writes, saves; calls end | 2 servers, 2 documents, 3 sockets, 2 messages under way, 2 faults, about 560 000 states |
| `io` | MCIo | counter, kernel and flags agree but for the named faults; stale wake-ups; lost descriptors | 2 descriptors, all modes, two writers in one of the modes without a second list, 1 descriptor the kernel refuses, 1 want lost in `poll`, about 1 504 000 states |
| `dns` | Dns | the answer is to the question; what is held; queries end | 2 questions one after the other, 2 servers, 4 rounds, about 680 000 states |
| `data` | MCData | overruns; what is stored is found; texts; numbers; order of bytes | twelve formats on small inputs, about 308 000 states |

Why the bounds are enough:

* **mainloop.** The limit is `MAX_CONNECTIONS = 1`, so two connections are
  served and a third descriptor is free: a structure is reused for another
  descriptor while the other connection is in any stage, `connect()` finds the
  first structure, the second, and appends, and the accept loop meets its
  limit. `UintMod = 8` lets `connects` wrap. Two writes and two reads per round
  make rounds end by their count and by lack of descriptors. Two sends of one
  peer give a request in two parts and a second request while the first
  response is half written. The other peers send once
  meanwhile, which keeps the run small enough to finish. A page of 2 units and
  files of 1 and 3 give a pointer inside, at and behind the end of the file. In
  `mainloop_live` either peer sends twice or both once: pages of 3 and a file of 1
  give output that grows while it is written, and a pointer in front of, at and
  behind the end of a file that takes its place. The sizes of the code (200, 50, 5, 10, 2^32) are covered by the
  proofs.
* **session.** Two connections suffice for a global left behind by another
  connection; two fresh ids for a second session beside an old one, and for an
  id that is repeated after a restart. Every cookie (none,
  bad, old, new), every function and both methods occur among the requests, in
  the combinations that take different branches, not in all; the theorems cover
  the rest.
* **page**, rows. An object can be looped over while another saves or destroys one of
  the same rows or one behind its page; one row lacks the field and one is
  unreadable, in the middle. One query finds everything in the order of the
  ids, the other leaves some out and goes backwards.
* **panel.** Five tags hold an `if` in an `if`, an `if` with `elseif` or `else`
  in a loop or beside one, a loop in an `if`, with a text before, between and
  behind. Conditions are single comparisons, `||`, and `||` in parentheses
  within `&&`, with all six comparisons and one of an unknown variable; a variable
  is set by the rows of a loop and another is not; values are negative, zero and
  positive. An `elseif` has the same conditions, those with `&&` included.
* **page**, requests. 97 requests: GET for a page, a file and a missing document,
  with and without arguments, POST with a body, with and without a session, the
  length before and after the cookie, one byte too many or none, cookies that
  name an argument again. A read ends
  between any two tokens; behind the input lies nothing, the rest of the stream,
  or the end of a header of before.
* **driver.** Two servers make a pair; three sockets run out when a connect
  fails and its socket stays open; two documents give batches of none, one and
  two, and an insert whose first document is refused; two faults give a failover
  back, or a crash in the middle of a failover.
* **io.** Two descriptors are the least for a lost one: a connection whose
  number is reused while queued, and the one queued behind it. The first
  `io_fd` chooses any mode a build can have, and one that found none may find
  one later. The kernel refuses a descriptor once and `poll` fails once; a fault
  is remembered, so two of a kind only add up.
* **dns.** A second query, so that there is one before it; one question too
  long for a datagram; two servers, so that there is a next one.
* **data.** Each format has the inputs at which its code branches: every byte
  a codec treats in a way of its own, numbers to the last of their type and one
  more, addresses with runs of zeros at either end, an answer cut at any byte.

Every property of a passing run has a mutant in PROJECT.json: a small change of
one definition, of the kind an edit of the code could make, that TLC then finds
to violate the property. The mutants stand before the definitions they change.

## 4. Fairness

`MainLoop!FairSpec` has weak fairness of `Server`: the only call that can block
is `io_waituntil2`, which returns after a second at most, so the thread always
goes on. It has strong fairness, for each descriptor, of the wait that finds
it writable: a peer that goes on receiving makes room in its buffer again and
again. Nothing is assumed of peers sending, closing or connecting. Without the
second assumption `ResponsesFinish` is false, and rightly: the program has no
time-out that works (see the finding on `io_timeouted`), so a peer that never
receives keeps its connection.

`Panel!FairSpec` has weak fairness of `Render`: `render` is a loop in one
thread that nothing interrupts. Nothing makes the author write or a visitor
come.

`Driver!LiveSpec` has weak fairness of `MongoReadResponse` and of each server
serving each socket: the driver blocks in `looping_read` and goes on when the
reply is there, and a server that runs answers. It is what `CallsEnd` needs and
no more: a server that crashes makes the call hang (`LoopHangs`), which the
property excepts, as it does a save that draws ids in use again and again.

`Dns!LiveSpec` has weak fairness of time, and of the calls of
`dns_transmit_get` that find a deadline passed or something to read:
`dns_resolve` is a loop around `iopause` that calls it each time. Nothing is
assumed of servers. `QueryEnds` then says that the rounds, servers and timeouts
the code counts are enough to end any query.

## 5. Proofs

All theorems are checked by TLAPS for every value of the constants that
satisfies the assumptions of the modules.

**Assumptions.** `PoolAssumption`, `LoopAssumption`, `NamesAssumption`: the
sizes are natural numbers, some of them positive, and the names (no descriptor,
the listening socket, no structure) are different from descriptors and
structures. `SessionAssumption`: types of the constants, and that `NoSid`,
`NoUid`, `NoSession`, `NoConn`, `NoRequest` are not ids, users, objects,
connections, requests. `RandomAssumption`: within one run of the program
`rand()` does not repeat an id and gives none that a visitor holds from
earlier. This is what 26 random characters are for; after a restart it is false
of the code, and the theorem says so by its premise `~restarted`. TLC evaluates
all of them in the runs above. `DriverAssumption`: there is a document to speak
of, and finitely many servers, none of them the absent one. `EdbAssumption`:
`Missing`, `NoDoc` and `NoCursor` are no values, documents or sequences of rows,
and a query finds only documents there are. `StreamsAssumption` is the
assumptions of the four modules that `Streams` instantiates, which are premises of
the theorems about one of them. `ArraysAssumption`: the rounding (128 or 4096)
divides 2^64, objects have a size, memory is less than 2^64 bytes, and
`stralloc_ready` asks for something on top. `BufferAssumption`: a buffer has space,
and a call asks for a byte at least. `BatchAssumption`: files are not buffers,
pieces have bytes, and a file is mapped in chunks of some size.
`DigestAssumption`: a block has room for the pad byte and the length, and the
bits of a block (512) divide what a word of the count can hold (2^32).

**MainLoop** (`MainLoopProofs`). The invariant is the conjunction of what the
`mainloop` run checks, and it is inductive only together. `PoolInv` needs `SocketsOwned`: `end()` decrements the counter of the
stage of the structure that the cookie names, which is right only if that
structure is in use. `SocketsOwned` needs `PoolInv`, in which different
structures have different sockets, to know that ending one connection leaves
the other's. `FreeSlotsClean` makes a new connection start within `WithinOutput`.
`WithinOutput` is proved for any outcome after any other: what is printed only
lengthens the output, and where a file shortens it under the pointer the
structure is one of `replaced`. `PoolBounded` needs the counters to be exact, since `used` is what the accept
loop compares. The lemmas of the pool prove once for each operator that it keeps
`PoolOK`, counting with the theorems on cardinalities; the proof for the loop
has a step per action and per conjunct the action disturbs, and derives
`TypeCorrect`, `CountersExact`, `OwnershipExact`, `NoLeftovers`,
`OutputInBounds`, `ConnectionsBounded`.

**Refinement** (`MainLoopProofs`). `Refinement: Spec => ImplementsConnLife`.
Each action maps to a step of `ConnLife` or a stutter, under the invariant. The
difficult one is the write loop, which may promote one connection and end
another: `SocketsOwned` shows that no third descriptor sees its stage change.

**Io** (`IoProofs`). `IoWantsAgree` and `IoNoStaleWakeup`, for every size of
the table and in every wait mode, and `IoLostOnlyBroken`, for every size and
every mode but SIGIO. `WantsAgree` is nearly inductive, and exact about the
calls that fail: the counter is the wanted descriptors and `overcounted`, and the
kernel's set is that of the flags outside `unheard`. The lemmas
say that each of the calls that change a wish keeps flags, kernel and counter
together, counting with the theorems on cardinalities. `NoStaleWakeup` is
proved from `io_close` and `io_fd` clearing both flags; there a step of the
lists is known by the flags it may leave. `LostOnlyBroken` needs the lists: the
invariant (`AllQueued`) is that all flagged entries, wanted or not, are in
`Chain` of a list that is not `broken`, besides that every link points into the
table (`InTable`, the static zeros excepted until the first `io_fd`). A call
that writes the link of one entry keeps the chain if nothing was behind that
entry on it (`ChainKept`); the loop of `io_canread` keeps ahead of it what it
has not handed out (`Ahead`), and each turn but the last clears a link, so that
`MaxFd + 2` turns suffice (`TurnsEnd`, a cardinality); the sweep of `poll`
overwrites links freely, but what it has flagged is always what the list starts
with (`Leads`). The two iterations are recursive functions; that they satisfy
their equations and what holds after every turn is proved by an induction over
a set of numbers (`NumbersIn`, `Iterated`).

**Dns** (`LibowfatProofs`). `DnsAnswerIsOurs` and `DnsHoldsWhatItSays`, for any
number of servers, rounds, queries and any length of messages. The two need each
other and `AsksServer` (while it waits, the server asked is one of them, and a
connection that is being made has heard nothing) and `InboxOK` (what waits on
the socket is of a kind its protocol has): `dns_transmit_get` compares the
packet with `query`, which is the question only as long as nothing has been
freed.

**Driver, the connection** (`DriverProofs`). `DriverLeftIsCurrent`, for any
servers and sockets: `mongo.h:50` calls `left_opts` the "always current server".
The invariant is that a connection called connected has a socket of the process,
open, to `left_opts`; it must be stated of connections and sockets in general
(`Good`), because `mongo_reconnect` closes, connects, swaps and connects again
within one call, each with a result of its own. `HelpedGood`,
`DisconnectedGood`, `OtherServerKeeps` prove it of the pieces and
`ReconnectedKeeps` puts them together.

`DriverRepliesMatch` is the theorem the rest of the driver stands on, since the
driver compares no `responseTo`. `LinkInv` adds to `Current` that only the socket
of the connection has messages, and only while it is up (`Quiet`); that between
calls neither a reply nor a request that will have one is on its way, and that
while a call reads from a connection that is up, either its request is the last
message, the only one with a reply, or the reply is there and alone, with the
number and of the kind the call waits for (`Turn`). `Apart` says
what the two programs never mix.

**Driver, the data** (`DriverProofs`). `DriverReadsOwnWrites`, `DriverAllGiven`,
`DriverNoneTwice`, `DriverNoCursorLeak` and `DriverSaveSettled`, for any number
of documents and messages under way, from one invariant,
`DataInv == LinkInv /\ WritesKnown /\ CursorKnown`. `Believed` in `WritesKnown`
says that the messages on their way lead from what the collection is to what the
program believes it is (`Path`, a sequence of collections, one per message; the
step of the server takes its first element off, a write adds one at its end), and
`Counted` that a count which has arrived is still right. `SaveKnown` follows a
save: its insert is the message before `getlasterror`, and once it is handled the
server's last error tells whether the document is there. `CursorKnown` accounts
for every document a query found: it was handed out, is in the batch at hand or
in the answer (`Ahead`), or is kept at the server under the cursor's number
(`Behind`); these are disjoint (`NoneAgain`) and complete while no fault has
come (`AllThere`); and a cursor a server keeps is the one at hand or is about to
be killed, and never both (`Accounted`). The batch at hand changes meaning
in the middle of `mongo_cursor_next`, while `get_more` is answered: that is what
`Answering` splits.

**Edb** (`EdbProofs`). `EdbLoopExact` and `EdbOwnDocOnly`, for any number of
objects used in turn, any queries, collections and sizes of pages. `LoopExact`
compares what was handed out with ranks in the page; its strengthening says
where each object stands: `Left` that the cursor holds the rows behind the one at
hand, that `current` counts the fetched ones, and that the readable rows up to
there are as many as were handed out, one more while `skipLoop` keeps the row the
query fetched ahead; `Given` that each id handed out is that of the row of its
rank. Ranks are cardinalities, so that a fetch that passes over unreadable rows
adds exactly one. `OwnDocOnly` needs only the types.

**Arrays** (`LibowfatProofs`). `ArraysInside` and `ArraysContents`, for any
strings, sizes, positions, limits and rounding. `Contents` is not inductive: that
the bytes which come into use without a `realloc` are zero needs to be known of
bytes nobody has asked for yet. `ArrayHolds` says that everything behind `dirty`,
the furthest that was ever in use, is zero. `RoundsUp` is the lemma about
overflow: the sum that rounds up may wrap, and the one comparison of
`array_allocate` that looks at it afterwards is enough. `WholeObjects` is the
arithmetic behind `array_get`: it hands out an object that begins in what is in
use, and that is whole because the length is a multiple of the size.

**Buffer** (`LibowfatProofs`). `BufferOutInOrder` and `BufferInInOrder`, for any
space, lengths, input and split of it into reads. What is sent, collected and
still to be copied are three sequences, and `OutInOrder` speaks of them joined;
the invariant keeps them apart. `OutKnown`: each is a `Chain`, bytes in their
order, and they follow each other up to the last byte put, whatever was given up
in between; while nothing failed each is a `Run`, no byte left out, and their
lengths add up. `InKnown`: what the call has copied is a run behind `told`, the
last read is a run up to `taken`, and `p` is where the two meet; and the bytes of
a line in the making are no separators. `ChainJoined`, `ChainCut`, `RunJoined`
and `RunCut` are the lemmas about joining and cutting; with them each action is a
few steps.

**Batch** (`LibowfatProofs`). `BatchGoesOutInOrder` and `BatchEnoughVectors`, for
pieces of any length and number, any partial sends and chunks of any size.
`BatchInv` knows of a batch that has not met one of the three calls that go wrong
(`InStep`) that what is owed is what its entries hold from `next` on; that the
entries `iob_write` has gone past are used up; and that a chunk which is still
mapped is of the file that comes next (`MapOurs`), without which the bytes handed
on could be another file's. For `iob_send` (`SendKnown`) it knows that no entry
without bytes stays in front, and that `bufs` counts the buffers at least: the
vectors it fills are buffers from `next` on. `PiecesSplit` takes the bytes of a
batch apart after any entries, `PiecesLeft` says what is left of them when the
entry in front was sent in part. What `FlattenSeq` returns for one more sequence
(`FlattenGrows`) is an induction over a set of numbers.

**Digest** (`LibowfatProofs`). `DigestBlocks`, for a message in any number of
pieces of any length, up to lengths that wrap both words of the count.
`DigestInv` says where `md5.c` stands after `l` bytes (`Holds`): the count is
`Counts(8 * l)`, the blocks hashed are whole ones, and followed by the first
`l % Block` bytes of `buf` they are the message. What of the buffer is not yet
part of a block is left free, which is why the closing property cannot be proved
from itself: it says nothing of `buf`. The lemmas follow the lines of
`mongo_md5_append`: `CountedIs`, that the one comparison catches the carry
between the two words; `OffsetIs`, that the low word alone says how full the
buffer is, since the bits of a block divide 2^32; `CopyIs` and `BlockFilled` for
the initial partial block, `WholeBlocks` for the full ones, `RestIn` for what
stays. `FinishIs` and `PaddedIs` close the message as two more pieces. Joined
blocks are kept behind an opaque name (`Join`), because the provers expand an
equality between sequences element by element.

**Streams** (`LibowfatProofs`). `BytesAlwaysInOrder` is `BytesInOrder`, which the
`data` run checks, for all four at once, from the theorems on each.

**Panel** (`PanelProofs`). `PanelTypes`, for any templates and conditions: every
jump leads into the bytecode or just behind it, so that `render` never reads past
it, and every byte belongs to a tag. `TypeOK` is not inductive for two reasons.
`endloop` makes a jump back to where a frame says, which must be inside the code
as it has grown since (`LoopsReturnInside`); and a byte has the number of its tag,
which is bounded because the tags that are not texts are counted and no two texts
meet (`Counted`). That parsing a condition keeps the code a program
(`ConditionsParsed`, over parts, and `AtomsAllParsed`, over the comparisons of
one) is an induction over numbers on the recursive functions of these loops. A
jump that is never filled in leads to the first byte, which the theorem allows:
that there is none in the templates of the run is what `PageIsFinished` checks.
`PanelAssumption` says that conditions are sequences of parts of comparisons, and
that there is a variable.

**Request** (`RequestProofs`). `RequestPostActedOnce` and
`RequestWholeIsAnswered`, for requests with any arguments, lines, cookies, body
and excess, cut into reads anywhere. `RequestAssumption` asks for a line of
header at least - `process_header` looks for the end of a header behind a line
only, and a request without any would wait for ever - and for a Content-Length
that is the length of the body. Nothing is assumed of the bytes behind the
input: the lemmas take any sequence of tokens (`mem`), of which the few in
`Behind` are instances.

Neither property is inductive, because what a read leaves in the connection is
built on by the next one: `process_header` starts again at the first token, but
`POST`, `func_name`, the session id and the flags of the pass before stay. The
strengthening `IInv` has four more parts: the types; `KnownBy`, that what the
connection holds in `POST` and as a function is named by the lines that have
arrived, so that reading them again changes nothing (`OverAgain`) - the last
value of a key wins, and the last one in the header is the same for every pass
over more of it; `FileSent`, that a file is on its way only for a document that
no page is made of; `PageWhole`, that a page of a posted body is made when all
of it is there, which makes it the only one, because what has arrived only
grows and `Incomplete` compares with `#`.

The argument goes along the stream. `StreamIs`, `PlacesAre` and `KindsAre` say
which token is at which place in the stream of a request (`SpAt`, `NameAt`,
`EndAt`), by `Placed`, for any number of lines; `CutIs` carries them to a part
that has been read, `FirstSpace` and `LineEnds` find the end of the request line
and of each line in it, whatever lies behind. `After(c, w, r, n, k)` is what is
known when k lines have been walked over, `OneLineDoes` moves it by one line,
`WalkDoes` over all tokens, and `Passed` is the result: the program has ended,
or some number of lines has been taken, and if the header has not been found to
end, not all of it has arrived. `HandleIs` needs the arms of the `CASE` in
`Handle` to exclude each other; in an earlier version two of them overlapped,
with the same result in every run, and the arms are disjoint since. The
recursive walk satisfies its equation by an induction over a set of numbers, as
for `Io` and `Panel`; the flattening of the lines by the library's definition.
A page without a body is made of the query string and of the lines up to some k
(third part of `PostActedOnce`): bytes behind the input may look like the end of
a header that has not all arrived, so a k smaller than the number of lines does
occur, and the statement with two values of k that the run checked before is
false for three lines.

**Session** (`SessionProofs`). `TypeCorrect` and `UniqueUntilRestart`. That no
two rows share a sid is not inductive: the copy in `cur_session` may be kept
for long and inserted later. The strengthening says, until a restart, that all
ids that rows, connections, cookies or visitors hold are issued ones
(`IdsIssued`), so that a newly drawn one is nobody's, and that `cur_session`
knows whether its row exists (`CopyAgrees`), which survives because rows are
inserted through it alone.

**Identity** (`SessionProofs`). `ServedAsOneself`, `SavesItsSession`,
`WritesItsRow` and `StaysOnline` prove the other four properties of the
`session` run, across restarts too. None is inductive: they need to know whose
the globals are at each point of a page (`GlobalsOfPage`: `user_session` is
that of `uid`; when the function runs, `cur_session` has the id of the
connection if that has one; what is saved at the end is online as its row is)
and that `cur_session` always has the id of the row it was loaded from
(`CopyOfRow`). The argument for `OwnIdentity` is the point of `print_cookie`: a
connection without an id has no row, so a user at that moment has just logged
in. `RowsChange` shows that only a logout and the end of a page write rows, and
`SaveChanges` that each writes the row its object names.

**Only model-checked.** `ResponsesFinish`, `PageIsFinished`, `CallsEnd` and
`QueryEnds` are liveness. `ImplementsTemplate` and the properties of the other
formats are about what a fold or a recursion makes of a
sequence - how the tags of a template match, the digits
of a number - and the theorems that would give those definitions their meaning
take operators as parameters, which the provers cannot instantiate. Where an
induction was needed above it is over a set of numbers: the least one with a
property, or a cardinality; a recursion was taken only from one number to the
next (`Io`, `Panel`, `Request`). `Edb`,
`Driver`, `Io`, `Dns` and `Request` run without a type invariant, for the sake of
properties that say more; the proofs establish their types.

## 6. What the checks found

Three are runs that TLC refutes, with the line of the repository they disagree
with quoted in PROJECT.json.

1. `mainloop_gone`: a peer that closes before it sends keeps its structure for
   ever. A read of length 0 does nothing, and `io_timeout` is never called, so
   the garbage collection at the end of `main_loop` has nothing to collect.
2. `session_restart`: `rand()` is never seeded; after a restart new sessions
   get ids that rows of the run before already have.
3. `panel_parentheses`: in `(a && b) || c` the jumps of `a` and `b` stay as they
   were made, to the first byte, so the page starts again where one of them fails
   ("BAD LOGIC", `panel.d:1680`).

The models show the following too. Each is in a module as the code has it; no
run of this project asserts the contrary, and a property that would otherwise
fail names the exception.

* `core.d:1618`: `used <= MAX_CONNECTIONS` admits one more than the "hard
  limit" (`PoolBounded` allows it).
* `core.d:1051`: `print_cookie` loads the row again over the `online = 1` of a
  login, so the user is not logged in when the next request comes, unless the
  row was online before.
* `core.d:1146`: a function can be called by GET, which the comment two lines
  above and a test (`core.d:2332`) exclude.
* `edb.d:758`: a field that a row lacks keeps the value of the row before.
* `core.d:1713`: a file that is found after something was printed and partly sent
  (a 500 for a request line cut between two reads, or the file before a reload)
  sets `output_len` and leaves `cur_ptr`; the response goes on in the middle of the
  file, or behind its end (`replaced`, excepted by `WithinOutput`).
* `panel.d:1792`: an `elseif` with several comparisons skips all but the last when
  it is reached from the branch before (`SkipsComparisons`); `panel.d:2644`: a
  negative number is larger than every constant (`OrdersNegative`). Both are
  excepted by `ImplementsTemplate`.
* `core.d:1402`, `core.d:1477`: a header line cut between two reads is sliced to
  the end of an earlier one, and bytes behind the input are looked at; what a
  request does then depends on the request before (`dead` in `Request`).
* `mongo.c:42-60`: a send or receive that fails is no progress or a step back,
  and the loop does not end (`LoopHangs`).
* `dns_transmit.c:173-176`: a TCP connection that is there at once keeps `pos`
  (`astray`, excepted by `HoldsWhatItSays`).
* `io_canread.c:38`: a ready descriptor that is not wanted at the moment is
  taken off the list with its flag set and is lost (`broken`, excepted by
  `LostOnlyBroken`); with SIGIO nothing is claimed of the lists.
* `io_wantread.c:67`, `io_wantwrite.c:64`: when `poll` fails in SIGIO mode, the
  descriptor stays counted and is not wanted (`overcounted`);
  `io_wantread.c:38` and its like: whether the kernel took the descriptor is not
  looked at, and `io_fd.c:65`: a mode found late is not told of what was wanted
  before (`unheard`). `WantsAgree` names all of them.
* `io_waituntil2.c:166`: for `/dev/poll` a link that is left from a list that
  `io_fd` has emptied counts as queued (`broken`).
* `io_fd.c:57`, `io_eagain.c:18`: `io_fd` and a read or write out of turn clear
  the link of an entry that may still be queued, and what is behind it is lost.
  `io_eagain` clears `next_read` only: a descriptor still queued for writing is
  reported again, `io_waituntil2` overwrites its `next_write`, and what was
  behind it is lost. That needs two writers; the proof of `LostOnlyBroken`
  found it, and the run has two since (`broken` too).
* `iob_write.c:32`: a batch is reset when half of it has been sent;
  `io_mmapwritefile.c:58-69`: an error behind a part of a file hides what was sent
  of it, so that it goes out again (both `lostTrack`, excepted by `BatchInOrder`).
* `bson.c:574-579`: `bson_append_element` with a name writes the name twice, so the
  document is spoiled and the last bytes may lie behind the buffer (`twice`,
  `garbled`; excepted by `WithinBuffer` and `RoundTrip`). Nothing in `src/` calls it
  with a name. `bson.c:596`, `bson.c:603`: no look at the 32 places of the stack;
  the run stays below (`MaxDepth`).
* `scan_httpdate` does not check that it found a month, nor read every weekday of
  RFC 850; the inputs that meet this are excepted in `HttpDate`.

## 7. Plan

Done: the pool and the main loop with proofs and refinement; sessions with
proofs; data objects with proofs; the panel compiler and renderer for `if` and
`loop`, its types proved; requests over several reads with proofs; the driver with proofs of
all its safety properties; descriptors and events with proofs; one DNS query with
proofs; the
formats and buffers of the vendored libraries, `Arrays`, `Buffer`, `Batch` and
`Digest` with proofs.

Next, in this order:

1. The composition of `Request` with `MainLoop`, in place of the free choice of
   `NextRequests`.
2. The other tags: `variable`, `set`, `default` and `removeByte`, `frame`, text
   and function comparisons.
3. The file cache as a component: which file a document names, and the tables
   `reload_panels` fills again (`MainLoop` has the change of length only).
4. An abstract specification of `Io` (a set of ready descriptors) that the
   builds without SIGIO implement as long as nothing is read out of turn.

## 8. Not modelled

PROJECT.json has the reason beside each component. The objects of
`core/objects.d` and `core/templates` print HTML and keep little; helpers are
pure string functions; configuration and files are read at the start; the HTTP
client makes one blocking request; the binding declares C functions, and kxml
is an XML parser that no module of `core` imports.

Of the modelled parts these are left out:

* main loop and requests: `stop_main_loop`, the statistics, keep-alive (the flag
  of a connection is set and reset, and both branches that ask for it end the
  connection), the wording of headers, the time-zone table, multipart bodies and
  photos;
* driver: users and authentication, creating indexes, GridFS, the rounds of md5;
* libowfat: time-outs of descriptors (the server sets none), passing
  descriptors, the Windows build, floating-point numbers, ASN.1 and DER, wide
  characters, the configuration of the resolver, byte and string functions,
  wrappers of system calls, and its own tests and examples; in `Io`, real-time
  signals that are still queued when their number is closed and used again; in
  `Cdb`, keys longer than the 32 bytes `match` reads at a time; in `Addresses`, the
  calls without a destination, which return a length only (that of `fmt_ip6if` is
  one byte less than the text with its scope: read in the code, in no run).
