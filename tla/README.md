# A TLA+ model of webserv

webserv is a small single-threaded HTTP/1.1 server in C++98: one `poll` loop,
one `ConState` object per client connection, CGI scripts run in child
processes. This directory holds a TLA+ specification of it, TLC configurations
that check it on small instances, and proofs, checked by TLAPS, of what is true
for every configuration.

## Inventory

### Components, their state and their operations

| Component (source) | State | Operations |
| --- | --- | --- |
| `Server` (`srcs/Server.cpp`) | `_m_fds` (listeners first, then clients), `_m_con_map`, `_m_ports` | `launchServer`: poll, accept, call the worker of every ready socket, close and erase |
| `ConState` (`srcs/ConState.cpp`) | `_call_next`, `_event_set`, `_pconf`, `_resp_file`, and the members below | `operator()`, the callbacks `_get_first_request`, `_get_request`, `_get_new_request`, `_read_body`, `_wait_cgi`, `_write`, `_write_then_close`, and `_dispatch`, `_prepare_page`, `_prepare_cgi_page`, `_prepare_error` |
| `Buf` (`srcs/Buf.cpp`) | `start`, `pos`, `end`: a window of at most 4095 bytes | `read_more` from a socket or a file, `full`, `passover` |
| `HttpParser` (`srcs/HttpParser.cpp`) | `_status`, method, uri, header map | `parse_some`, `parse_line` |
| `ChunkStreamer` (`srcs/ChunkStreamer.cpp`) | `_status`, `_rem_chunk_size`, `_min_expected_size`, `_max_allowed_size` | `read_some_chunked`, `read_some_single` |
| `Writer` (`srcs/Writer.cpp`) | `_pos`, `_header`, `_body`, `_streaming`, `_rdbuf`, `_body_file` | `write_some` and the setters |
| `CgiHandler` (`srcs/CgiHandler.cpp`) | `_pid`, `_stopwatch`, two temporary files | `setFilename`, `openFile`, `bodyInFile`, `run`, `waitChild`, the destructor |
| `Conf` (`srcs/Conf.cpp`) | servers, paths, inherited options, error pages | parsing, `get_server_conf`, `get_conf`, `error_page` |
| `path_utils`, `Quit`, `main`, `HttpError`, `nat_utils` | the quit flag | `simplify_path`, the SIGINT hook, the restart loop |

### How they interact

`launchServer` polls all sockets and calls `ConState::operator()` for every one
that is ready. That call receives into `_in_buf` (or, while a response is being
sent, peeks for the end of the stream), and calls the member function
`_call_next` points to. The callback consumes `_in_buf` through `HttpParser` and
`ChunkStreamer`; the latter writes the body to the temporary file of
`CgiHandler`, which is the standard input of the child started later. The
callback prepares `_wr` and returns the event to wait for; returning 0, or
receiving nothing, makes the loop close the socket and erase the object. An
`HttpError` thrown anywhere inside is caught in `operator()`, which prepares an
error page and picks the callback that sends it: `_write` if the connection is
to be kept, `_write_then_close` if it is not.

### What is hard here

There are no threads, so every hazard is one of *sequence*: a callback runs with
whatever members earlier callbacks and earlier requests of the connection left
behind, at whatever byte the network happened to stop.

* TCP cuts the input anywhere; a buffer can hold the end of one request and the
  start of the next.
* Members outlive a request: `_chunk_streamer`, `_resp_file`, `_cgi`, `_pconf`.
* Every operating system call can fail in the middle of a response.
* A child may end, be killed or never end, and `waitpid` with a stale `_pid` of
  -1 would reap the child of another connection.
* The client may close or reset its side in every state.

`PROJECT.json` lists the hazards with their lines and the properties that watch
them.

### What makes each component correct

* `ConState`: the next callback and the event waited for agree; each request is
  parsed from its first byte; each gets one answer, with its page; nothing is
  dereferenced that is not set; files and children are released on every path.
* `ChunkStreamer`: the file gets the body, all of it, and no more than the limit.
* `HttpParser`, `Buf`: a call consumes whole lines and nothing beyond the header.
* `CgiHandler`: a connection has a child exactly while it waits for one, and the
  wait ends.
* `Writer`: a response is sent once, to its end, or the connection is closed.
* `Server`: a descriptor and its `ConState` live and die together.
* `Conf`: a request is served under the longest configured prefix of its path,
  with the options it inherits.

## The modules

| Module | Models | Uses |
| --- | --- | --- |
| `Buf` | the input of a connection as a sequence of symbols, and the window `_in_buf` keeps of it | |
| `HttpParser` | `parse_some` | `Buf` |
| `ChunkStreamer` | the body streamer, with the file it writes | `Buf` |
| `ConState` | a connection, its client and its CGI child; the properties | `HttpParser`, `ChunkStreamer`, `Exchange` |
| `Exchange` | what a connection promises: requests are answered whole, in order, one at a time | |
| `Clients` | what the requests of a client that keeps to the protocol look like | `ConState` |
| `MCConState` | the constants' values and the requests for TLC | `Clients` |
| `Server` | the poll loop, the kernel's descriptors, SIGINT, destruction and restart | |
| `MCServer` | the constants' values for TLC | `Server` |
| `Writer` | the setters and `write_some`, byte by byte, one `send` at a time | `Response` |
| `Response` | what a sender promises: the bytes of a response, in order, none twice, none left out | |
| `CgiHandler` | temporary names and files, `fork`, each step of a child, `kill`, `waitpid`, for several connections | |
| `PathUtils` | `simplify_path` on the segments of a path | |
| `Conf` | `parse_conf` directive by directive, the copies made of its result, the lookups | `PathUtils` |
| `MCCgiHandler` | the symmetries of the constants' values for TLC | `CgiHandler` |
| `MCConf` | the constants' values for TLC | `Conf` |
| `ConStateProofs` | type correctness and control invariants of a connection, proved | `ConState` |
| `BodyLimitProofs` | the body limit, proved | `ConStateProofs` |
| `RequestProofs` | how the parser and the streamer go through one conforming request, proved | `Clients`, `BodyLimitProofs` |
| `ExchangeProofs` | what a connection promises its client, and that it implements `Exchange`, proved | `RequestProofs` |
| `CgiHandlerProofs` | all the properties of `CgiHandler`, proved | `CgiHandler` |
| `ServerProofs` | the invariants of `Server`, proved | `Server` |
| `WriterProofs` | that `Writer` implements `Response` and declares its lengths, proved | `Writer` |
| `ConfProofs` | that `simplify_path` gives what a path means, and the invariants of `Conf`, proved | `Conf` |

`ConState` composes the parser, the streamer and the buffer. `Exchange` and
`Response` are abstract specifications: `ConState` is shown to implement the first,
`Writer` the second, by a refinement mapping (`ImplementsExchange`,
`ImplementsResponse`). `Server` sees a connection from outside, and `ConState` sees
its child and its writer from outside; `CgiHandler` and `Writer` are those parts in
detail.

### Data of a connection

The input is not modelled byte by byte. `stream` is everything the client has
sent, a sequence of symbols: a start line, a `Host`, `Content-Length` or
`Transfer-Encoding` field, a chunk-size line, a piece of text, or CRLF. The
buffer is a pair of offsets into it, `rd` for `pos` and `rcvd` for `end`;
`BufCap` is its capacity in symbols. Offsets make "whose bytes are these" a
comparison of numbers: `bounds` records where each request of the client ends and
`payloads` which positions are its body, and `in_file` is the set of positions
the temporary file holds.

A parser is the two offsets between which its header lines stand, so that the header map
is read back from the stream: a field that is given again is joined to the value it has
(`Fields`, `Joined`), so that `chunked` twice is no longer `chunked` (`InChunks`), a
repeated length counts as its first, and a repeated host selects any server, the one of
its name or the first of the port (`HostServers`). What a path is configured for
(`Accepts`, `Redirected`, `CgiTargets`, `Directories`), which server limits bodies
(`MaxBody`) and which codes have a page (`ErrorPages`) are constants: any values of
theirs are a configuration.

### Actions of a connection and of the loop

One action of `ConState` is one call of `ConState::operator()`: `GetFirstRequest`,
`GetRequest`, `GetNewRequest`, `ReadBody` (with the `read_more` before them),
`WaitCgi`, `Write`, `WriteThenClose`, and `RecvNothing`, the early return when
the client has left or the buffer has no room. Each calls operators that carry
the names of the functions called (`_dispatch`, `_read_body`, `_prepare_page`,
...), so the chain `_get_new_request` - `_get_request` - `_dispatch` -
`_read_body` - `_prepare_page` - `run` - `_wait_cgi` - `_prepare_cgi_page` -
`_prepare_error` is one step, as in the code. How much is received (`k` in
`ReadMore`), whether a `send` is short and what fails are chosen by `\E`.
The environment has three actions: `ClientSend`, `ClientLeaves` (an orderly
close or a reset) and `ChildEnds`.

`Throw(code, open)` is the `catch` of `operator()`: it looks at
`chunk_streamer'`, the value the streamer has when the exception is caught, as
`ConState.cpp:467` does. `Faults` names the calls that may fail: `slots`
(`setFilename`), `open` (`openFile`), `disk` (the write of a body, which is a 500 where
the code looks, and an end of the body that is missing where `closeFile` flushes it
and does not look), `fork` (`access` or `fork` in `run`), `read` (a file being
streamed), `send`.

One action of `Server` is one call of `socket`/`bind`/`listen` (`_m_setListen`),
of `poll` (`Poll`), of `accept` (`Accept`) or of a worker (`Work`), at the index
`current` of the loop that is running; `NextIteration` goes back to `poll`.
`Restart` is what a `bad_alloc` leads to, `Stop` the two other ends of
`launchServer`, `Interrupt` the signal hook. `Connect`, `Send` and `Leave` are the
clients. A worker is seen from outside (`WorkerResult`): called on the event it
waits for it returns any event, called on another it returns the same one, and
called on a readable socket whose client has left it returns 0 - which is what
the actions of `ConState` do. In turn `ReadyServed` and `GoneIsClosed` of `Server`
are what the fairness of `ConState` takes for granted. `bytes` of a worker names
the client whose input its buffers hold: `init()` does not reset them
(`Accepted` keeps it), only the construction of a new entry does.

Memory may run out wherever the loop allocates: when `_m_addFd` adds a listener or a
connection to `_m_fds` (`Lose`), when `_m_ports` is assigned, when `_m_con_map` gets an
entry, and in a worker. In the first case the descriptor that `socket` or
`accept` has just returned is in no table and stays open over the restart. `lost` is
an observer's note of these. A backlog belongs to a listening descriptor, not to a
port: with `SO_REUSEPORT` a new listener of a port stands beside one that was lost, and
the kernel may give a connection to either (`Connect`).

### Writer

A response is a sequence of bytes, each known by the part it belongs to (status,
field, a content-length of a script's own, the one `write_some` adds, the empty
line, the n-th byte of the body). The setters are actions in the order `ConState`
calls them. `SendSome` is one call of `write_some`: `WriteHeader` sends at most
`MaxWrite` bytes of header and in-memory body, of which `send` accepts any positive
number; `WriteBlock` refills `_rdbuf` to `BufSize` from the file and sends it.
`AfterRead` is `istream::read` with its `eof`, which is only set by a read that
wants more than is left: `OK_FINISHED` depends on it. `WriteFails` is `READ_ERROR` or
`WRITE_ERROR`.

### CgiHandler

Files are known by the requests that wrote them, so that "whose page is this" is a
question about sets. `setFilename` (where the file may not be created, `CreatesName`,
and nobody looks), `NotOpened` (where `openFile` finds out), `Run` (with `openFile` and
the body before it), `WaitTimesOut`, `WaitReturns` and `Destroy` are what connections
do; a child goes through `OpenInput`, `OpenOutput` and `Exec` (the calls of `_launch`,
each of which may fail), then `ScriptWrites` and `ScriptEnds`. `kill` sets `term`;
`Terminated` is the signal taking effect, later. Processes of others (`OtherStarts`)
take free pids. A process that still has the output of a removed file open writes on,
unseen (`Destroy`). `LeftNames` and `LeftPages` are files found in `/tmp`. `uncreated`
is an observer's note: the names that were taken without their file and that a
connection still has. The next connection takes such a name too.

### Conf

A path is the sequence of what its slashes separate. `ReadServer`, `ReadPorts`,
`ReadNames`, `_read_errpage`, `OpenPath`, `ReadOption`, `ClosePath` and `CloseServer`
are the directives and closing braces of a file; `ParseError` ends the process. The
value of an option is the block that sets it, which is enough to say what is inherited.
`Copy` is the copy constructor of `Paths`, which has to translate the pointers between
blocks in the order of the map (`Before`, the order of the strings); `ReadServer`
applies it whenever the vector may have grown, `Launch` when `Server` copies the whole.
`_get`, `get_conf`, `redirect_location`, `get_server_conf` and `error_page` are the
lookups. `told` is an observer's note: what the file said, before any copy.

### What is abstracted

* CRLF is one symbol: no receive ends between its two bytes.
* `PREHEADER` and `HEADER` are one status and folded header lines are left out.
* A wrong method (501) or version (505) in a start line counts as 400: like all
  parse errors, it differs only in the text of the page.
* `if (!_pconf) return 0` in `_get_first_request` is left out: `PortServed` of `Conf`
  shows that `get_server_conf` finds a server for every port there is.
* In `ConState`, the sending of a header, with an in-memory body, is cut short at
  most once, and a file is sent in `FileBlocks` reads; `Writer` has every byte.
* A block of a file is sent whole: accepted sockets are blocking, so `send` returns
  when the block is in the kernel's buffer, unless a signal or a reset cuts it.
* An error page that is configured but not on disk is replaced by a generated
  one, as one that is not configured.
* `clock()` measures CPU time, which every call of `waitChild` consumes: in
  `ConState` `CgiTimeout` counts calls, in `CgiHandler` a time-out may come at any time.
* `Server`: clients are connections, each opened once; `accept` returns the
  lowest free descriptor and fails when there is none; listening sockets and
  clients are the only descriptors. A backlog keeps connections that were reset,
  as Linux does. `bad_alloc` comes from a vector that grows (`push`), or from the map
  of connections or a worker (`memory`).
* `CgiHandler`: a file is a set of writers, `Other` being everyone else; one server
  runs at a time; a child whose call fails ends. A file that could not be created may
  be created by a later call.
* `Conf`: paths are absolute, names and values are model values, and the order of
  strings is a rank of the segments with and without a `/` after them, which decides it
  (`"/a-b"` comes before `"/a/b"`, since `-` sorts before `/`). `"redirect"` stands for
  the path the block redirects, which is its own.
* The content of pages, header values, directory listings, and the CGI environment
  are left out.

## What is checked

There are twelve runs. Deadlock is not checked: a connection that was closed, or
whose client has nothing more to say, stops, and so do a process that ended, a
configuration that was read and a response that was given up.

| Run (`cfg`) | Instance | Properties | Result (distinct states) |
| --- | --- | --- | --- |
| `served` (`MCConState_served`) | up to three well-formed requests, one after the other | `EventMatchesCallback`, `KeepAliveAtBoundary`, `CgiReadsOwnBody`, `PageNotLost`, `ImplementsExchange`, `EveryRequestAnswered`, `ChildReaped` | hold (113,057) |
| `refused` (`MCConState_refused`) | up to two requests the server refuses, at every point of header and body | `NullConf`, `KeepAliveAtBoundary`, `OneStatusLinePerRequest`, `BodyWithinLimit` | hold (41,540) |
| `faults` (`MCConState_faults`) | as `served`, two requests, every call may fail | `TypeOK`, `PidMatchesCallback`, `RespFileMatchesResponse`, `CgiReadsOwnBody` | hold (42,966) |
| `pipelined` (`MCConState_pipelined`) | up to three requests, not waiting for answers | `KeepAliveAtBoundary`, `CgiReadsOwnBody`, `AnsweredOrStalled` | hold (197,787) |
| `after_post` (`MCConState_after_post`) | a POST that is served, then one that is refused | `KeepAliveAtBoundary` | **violated** |
| `chunks` (`MCConState_chunks`) | a chunked body of two chunks | `TrailerFollowsLastChunk` | **violated** |
| `loop` (`MCServer_loop`) | three clients, two ports, four descriptors; memory runs out in every call that allocates, ports may be taken | `TypeOK`, `ConnectionsMatch`, `ReadyServed`, `FilesHaveConnection` | hold (1,799,839) |
| `alive` (`MCServer_alive`) | two clients, one port, three descriptors; workers and the map run out of memory | `QuitStops`, `GoneIsClosed` | hold (77,058) |
| `writer_stream` (`Writer_stream`) | headers, bodies and files of sizes below, at and above the limits | `DeclaredLength`, `ImplementsResponse`, `SendingEnds` | hold (1,057) |
| `cgi_children` (`MCCgiHandler_children`) | two connections, three names of which one is taken and one has an old page, two pids shared with others, every call may fail | `NamesMatch`, `OnlyKilledChildrenLeak`, `PageIsOwn`, `KillsOwnChild` | hold (4,790,110) |
| `conf_lookups` (`MCConf_lookups`) | configurations of up to three servers | `TypeOK`, `OptionsKept`, `LongestPrefix`, `RedirectKeepsRest`, `PortServed`, `ErrorPagesDistinct` | hold (1,897,165) |
| `conf_again` (`MCConf_again`) | a page named by two `error_page` directives | `ErrorPageNamed` | **violated** |

What the properties say:

* `KeepAliveAtBoundary`: every request header is parsed from the first byte of a
  request. It relates the parser, the streamer and the choice between the two
  writers over the whole life of a connection.
* `CgiReadsOwnBody`: the child of a POST finds exactly the body of that request
  in its standard input; on a full disk (`faults`) an end of it may be missing.
* `ImplementsExchange`: answers go out whole, in the order of the requests, none
  before its request was received, and nothing after the connection is closed.
* `OneStatusLinePerRequest`: no response is begun twice.
* `PageNotLost`: no response goes out without its page, except one that the code does
  lose: the 500 page a server has configured, when it answers for a script whose output
  cannot be read (see the limits below). `served` has such scripts and such a page.
* `EveryRequestAnswered`: a client that stays is answered; no callback waits for
  the wrong event. `AnsweredOrStalled` is what is left of it for a client that
  pipelines: after a response the server waits for more bytes even if the next
  request is already in its buffer.
* `ChildReaped`, `PidMatchesCallback`: children are waited for exactly while they
  exist, and not for ever.
* `NullConf`, `RespFileMatchesResponse`, `EventMatchesCallback`: members are set,
  open or awaited when the next callback uses them.
* `BodyWithinLimit`: `max_body` bounds what reaches the file.
* `ConnectionsMatch`: the vector of `pollfd`, the map of connections and the
  kernel's descriptors agree at every step, although entries are erased in the
  middle of a walk, descriptors come back, and the server restarts. A descriptor
  that `socket` or `accept` had returned when `_m_addFd` ran out of memory is the one
  exception: no table has it, and it stays open (`lost`).
* `ReadyServed`: no connection that `poll` reported is skipped or served twice.
* `FilesHaveConnection`: temporary files go with their connection, over restarts
  and shutdowns.
* `QuitStops`, `GoneIsClosed`: a SIGINT is never missed; a client that left is
  noticed even while the server waits to write.
* `ImplementsResponse`, `DeclaredLength`, `SendingEnds`: whatever `send` accepts, the
  response goes out once, in order, its length is the one it declares, and
  `OK_FINISHED` comes exactly when it is out.
* `KillsOwnChild`, `OnlyKilledChildrenLeak`: a signal reaches no process but the
  connection's child, and every child that was not killed is waited for.
* `NamesMatch`, `PageIsOwn`: names come back, two connections share one only if its
  file could not be created (`uncreated`), and a page is the work of the script that was
  run for its request, unless the name of its connection is such a one.
* `OptionsKept`, `LongestPrefix`, `RedirectKeepsRest`, `PortServed`,
  `ErrorPagesDistinct`: what a request is served with is what the file said, after
  all the copies. `LongestPrefix` is stated against what a path means (`Meaning`: the
  names that no later `..` cancels), not against `simplify_path`. `OptionsKept` is not
  about blocks that climb, `RedirectKeepsRest` not about those that stray (see below).

Bounds. `BufCap` is 12 symbols: longer than any single line, so that lines fit, and
shorter than the longest requests (a header and body of 15, a line of 13), so that the
buffer does fill. Two requests are needed for a member left by the first to matter to
the second; three let a state be left, survive, and be used; `pipelined` takes five
kinds of request, one for each way through a connection. `FileBlocks` = 2 is a first and
a last block; `CgiTimeout` = 2 is a call before and a call at the limit; `MaxBody` = 2
allows a body below, at and above it. In `Server` two ports and four descriptors leave
room for two of three clients, so that `accept` runs out of descriptors, one is reused,
and two are ready in the same iteration, or a lost listener stands beside the two that
are polled. The clients of `loop` are symmetric, and so are the connections and pids of
`cgi_children`; `alive`, with liveness, uses no symmetry. In `Writer` sizes lie below,
at and above one and two blocks of three bytes, and a header may be longer than one
`send` of four. In `CgiHandler` two pids make every reuse of a pid possible, and the
third name is the one that may run out; scripts die of SIGTERM (`CatchesTerm` = FALSE),
but the proofs of three of the properties hold for scripts that do not. In `Conf` a
configuration is about one thing at a time (`OneTopic`): its path blocks (seven
directives, so that two servers have one and a block is nested in another), its hosts
(nine, for three servers that share ports and names) or its error pages (six); blocks,
hosts and pages touch different members of a server, so a mix of them shows nothing
more.

Fairness. `FairSpec` of `ConState` is weak fairness of `Worker`, the disjunction of
the calls of `operator()`: the loop calls the worker of every socket `poll` reports,
in each iteration, and `poll` reports a socket as long as it is ready. Nothing is
assumed of the client or of the child, which may run for ever. `FairSpec` of
`Server` is weak fairness of `Loop`: `poll` returns after five seconds, and the calls
of the workers are assumed to return. They all do but one: a blocking `send` of a
block larger than the room in the socket's buffer waits for its client, and the
loop with it (`PROJECT.json`, `Writer.cpp:65`). That a socket is ever writable is not
assumed. `FairSpec` of `Writer` is weak fairness of `SendSome`: the loop calls
`write_some` whenever the socket has room. It is not weak fairness of `write_some`,
which a failure would satisfy.

Limits of the runs. These are cases the code does not handle, listed as hazards
with a note in `PROJECT.json`:

* A body sent with a GET, a DELETE, or a POST to a redirected path is not consumed
  and is parsed as the next request (`ConState.cpp:131`); the clients of the runs
  send no such body.
* After a read error in a streamed file a second status line goes out
  (`ConState.cpp:380`), and the page of a later error may be lost: `served` and
  `refused` have no failing calls.
* A script whose output is not a CGI response (no header that ends, a line of it without
  a colon) is answered 500 with no body, where a page is configured for 500:
  `_prepare_cgi_page` throws with `_resp_file` open on that output
  (`ConState.cpp:343-349`), so the `open` of `_prepare_error` fails, `is_open` holds
  (`ConState.cpp:436`), and the Writer is given nothing to send. `PageNotLost` states
  this case and excepts it; neither the tests nor the docs of the repository say what
  such a response should be, so it is a hazard here and not a finding.
* A body that fills the disk in the last flush is cut short and the script is run on it
  (`CgiHandler.cpp:120`): `CgiReadsOwnBody` allows it with `disk` among the `Faults`.
* At the limit of open files, or on a full disk, `setFilename` takes a name whose file
  it has not created (`CgiHandler.cpp:326`): the next connection takes it as well, the
  two answer with each other's files, and the first to end removes both.
  `NamesMatch` and `PageIsOwn` except these names. `CgiReadsOwnBody` is about one
  connection, whose file is its own.
* A listener lost when memory runs out (`Server.cpp:60`) goes on taking connections of
  its port that nobody will accept. The safety properties hold beside it (`loop`).
  `alive` is without `push` failures: a client of a lost listener waits for ever, and
  while `_m_setListen` fails again and again `main` restarts the server without ever
  testing for SIGINT (`main.cpp:49`), so neither of its properties would hold.
* A child that ends before it has opened its output leaves the page of the previous
  request in place, and `WaitReturns` answers with it (`CgiHandler.cpp:242`):
  `PageIsOwn` is about children that got as far (`opened`). A script that goes on
  after SIGTERM may write into the page of the next request (`CgiHandler.cpp:188`).
* A block that climbs (`path "../a"` inside `"/b"`, or `"../../a-b"` inside `"/a/b"`)
  loses what it inherits in a copy (`Conf.cpp:172`), one named `"."` makes a lookup of
  an option endless (`Conf.cpp:207`): `OptionsKept` excepts `Climbs`, and such a
  configuration ends in `crashed`.
* A block that strays (`path "../b"` inside a redirected `"/a"`) inherits the redirection
  with the length of the path it is for, and that much is cut off a uri of another path
  (`Conf.cpp:97`): `RedirectKeepsRest` excepts `Strays`. The proof found this exception;
  the run had no such name before.
* The query of a uri reaches the translated path (`Conf.cpp:307`), which is not
  modelled.
* The search for the line of a syntax error may not end at the end of the file
  (`Conf.cpp:24`).
* An exception of `_setEnv` in a child unwinds into the server's own code
  (`CgiHandler.cpp:250`).
* A second SIGINT ends the process in the signal hook: files and children stay
  (`Quit.cpp:11`), and `FilesHaveConnection` says nothing of it.

Every property has a faulty variant of a definition (marked `Bug:` in the modules)
under which its run reports a violation; `PROJECT.json` pairs them.

## What the checks found

1. **A refused POST may leave its body in the input** (`after_post`).
   `operator()` keeps the connection after an error when
   `_chunk_streamer.status() == DONE` (`ConState.cpp:467`), but the streamer is
   reset only by an accepted POST. After a POST that was served, one refused with
   404 or 405 finds the old `DONE`; its error page is sent by `_write`, and its
   unread body is parsed as the next request. `refused` shows that without an
   earlier POST the same request closes the connection.
2. **Only the first chunk of a body is kept** (`chunks`). After a chunk's CRLF
   `read_some_chunked` moves to `TRAILER` (`ChunkStreamer.cpp:60`), so all other
   chunks are discarded as trailer lines, against the comment of
   `_discard_trailer` that it starts at a trailer line.
3. **A page named again is not the page of its codes** (`conf_again`).
   `_read_errpage` adds a page to `_error_pages` only if it is not there yet, but
   maps the codes to the last index either way (`Conf.cpp:459`): when a directive
   names a page an earlier one has added, its codes get the page added last.
   `ErrorPagesDistinct` shows that nothing is wrong when the pages are distinct.

## What is proved

The theorems hold for every value of the constants that satisfies the assumption of
its module. For the connection, `BufAssumption` and `ConStateAssumption`, that is any
configuration, buffer size, set of requests and choice of failing calls: they say that
the constants have their types, that requests name configured servers and known
targets (a target is just what a uri is mapped to), and that chunk sizes, which the
code reads into a `size_t`, are not negative. The assumptions of the other modules are
given with their theorems.

`ConStateProofs`:

* `TypeCorrect`: `Spec => []TypeOK`
* `NullConfCorrect`, `PidCorrect`, `EventCorrect`, `RespFileCorrect`: the
  invariants of those names.

None of these is inductive alone. That an accepted `open` starts from a closed
stream (`RespFileMatchesResponse`) needs the callback and the event to agree; that
a connection without configuration is closed (`NullConf`) needs the status of the
streamer, and that it is never `DONE` before a server was selected; that header
fields can be looked up needs the type of the whole window. `IInv` is their
conjunction. Its proof goes down the call chain: one lemma per function for the
control part (`ThrowControl`, `WaitCgiControl`, `PreparePageControl`,
`ReadBodyControl`, `DispatchControl`), one per function for what it consumes
(`ParseSomeType`, `ReadSomeChunkedType`, ...), then one per action (`...Step`).

`BodyLimitProofs`:

* `BodyLimit`: `Spec => []BodyWithinLimit`. The limit is compared only when a size
  is read, while the bytes arrive over many later calls. The strengthening is a
  budget, `Fits`: what is stored and what remains to come are together within the
  limit, or nothing is stored and no size is known. `FirstRequest` (a server is
  selected once) and `SizesAreNatural` complete the invariant `BodyInv`.

`RequestProofs` and `ExchangeProofs` say what a connection promises its client. Most of
it is promised to clients that keep to the protocol, and `Clients` says what that is, as
conditions on the constant `Requests`:

* `ConformingClient`: each request has a header that ends, the header tells where the
  request ends, and a body is sent only where `_dispatch` has one read. A chunked body is
  a size line, that chunk, and lines up to an empty one, which is what the streamer takes
  for a chunked body (finding 2).
* `OneChunkClient`: chunked bodies are in one chunk.
* `ServedClient`: conforming, with a `Host`, bodies within every server's limit, and no
  failing call that makes the server give up on a request before it has all of it
  (`slots`, `open`, `disk`).

They say nothing of when the bytes are sent or received, so pipelining clients and
every cut of the input are included. `MCConState` has TLC evaluate
(`ClientsKeepToProtocol`) that the well-formed requests of the runs satisfy them, and
that each of the conditions leaves out some request of the other runs. The theorems, with
the hypotheses each of them takes:

* `KeepAlive`, `ConformingClient`: `Spec => []KeepAliveAtBoundary`, whatever fails
* `OwnBody`, also `OneChunkClient`: `Spec => []CgiReadsOwnBody`, whatever fails: without
  `disk` failures the script finds all of the body
* `OneStatusLine`, `ConformingClient` and no `read` failures:
  `Spec => []OneStatusLinePerRequest`
* `PagesGoOut`, any client and any script, no `read` failures: `Spec => []PageNotLost`;
  the invariant (`Asked`) says of each callback what it knows of the request, and so
  which answers may be without
* `Exchanges`, `ServedClient` and no `read` failures: `Spec => ImplementsExchange`

`KeepAliveAtBoundary` speaks of the first byte of a request. To be inductive it needs the
offset of everything else: `Position` says for every callback where in the current
request `rd` stands, that the parsed lines are those of its header (`AtHeader`,
`HeaderRead`), what is in the file and what is yet to come (`InBody`); `Sent` says that
the input is one conforming request after the other. `KeepAliveInv` is these two and the
`BodyInv` of `BodyLimitProofs`, from which come types and the budget of the body.
`RequestProofs` has the lemmas on one request: that nothing depends on the offset a
request has in the input (`Shift...`), that `parse_some` accepts the header up to its
empty line and stops there, however often it is called (`ParseConforming`), and that each
state of the streamer brings the body nearer to its end and not beyond
(`...GoesRight`, `OutcomesGoRight`). `ExchangeProofs` goes through the callbacks with
them (`...Position`).

For what goes out, every step is of one of five kinds (`StepKinds`): a callback that
reads, works or waits, one that drops the connection, one that writes, a request of the
client, and the steps after which nothing of it shows. `Streaming` says that a file
being streamed is not at its end, `Counted` that there is one status line more than
whole answers exactly while an answer is on its way, `Ordered` that requests end one
after the other. The refinement maps the requests received to those that lie below
`rcvd` (`Received`), the answers to the counts of whole answers; a callback that
receives the last byte of a request and answers it at once is shown to be a step of
`Exchange` (`ExchangeStep`).

`CgiHandlerProofs`, for every number of connections, names and pids, every set of
files a killed server left and every choice of failing calls:

* `SignalsReachOwnChild`: `Spec => KillsOwnChild`
* `NamesAreHeldOnce`: `Spec => []NamesMatch`
* `OnlyKilledLeak`: `Spec => []OnlyKilledChildrenLeak`
* `PagesAreOwn`: `Spec => []PageIsOwn`

The invariant behind the first three, `IInv`, ties connections to processes in both
directions. `WaitsForOwn`: a connection has a pid exactly while it waits, and the
process of that pid is the one it forked for this request, with its name, and was not
sent a signal. `Watched`: every process is waited for, was sent a signal, or is somebody
else's. A name whose file was not created (`uncreated`) may be held by any number of
connections, all others by one. A child that `_launch` has not replaced by its script
yet cannot go on after a signal, so one that does is waited for (`NotYetScript`). Three
lemmas stand for many steps: `ChildGoes` (a process goes further), `StrangerStep` (a pid
nobody waits for changes hands) and `SameNames`.

`PagesAreOwn` adds `Fresh`: the output of a child that is waited for is, once opened,
its connection's file and all its own. It is kept because `O_TRUNC` empties the file
when it is opened, because a process that writes is waited for (here scripts must not
outlive SIGTERM), and because a name outside `uncreated` is held once: its file exists,
so that `setFilename` passes it over. The assumption `CgiAssumption` says only that the
constants have their types and that `None` and `Other` are not among them.

`WriterProofs`, for headers, bodies and files of any size, any size of a block and
whatever `send` accepts each time:

* `Implements`: `Spec => ImplementsResponse`
* `LengthDeclared`: `Spec => []DeclaredLength`

The `Writer` never holds the response it sends: it has `_header`, in which the body in
memory may already be, and a file. `Whole` puts them together, and the proof shows
that no step of sending changes it. The invariant says which prefix of it has gone out
in each phase: nothing (`Preparing`), `_pos` bytes of `_header` (`SendingHeader`),
`_header` and the file as far as it has been read (`SendingFile`), all of it (`Sent`).
`SendIs` turns two such prefixes, before and after a step, into a step of `Response`.
The lemmas before are about prefixes of sequences. `LengthDeclared` adds the shape of the
response (`Shaped`): the body is its end, and one field tells its size unless a script
told it. The shape is settled when the header is ended (`PreparedIsShaped`) and, since
sending leaves the whole alone, is still that of the bytes that have gone out.
`WriterAssumption` gives the constants their types: no streamed file is empty, and blocks
and sends are of one byte at least.

`ServerProofs`, for every number of ports, clients and descriptors, and whatever fails:

* `TypeCorrect`, `TablesMatch`, `EveryReadyServed`, `NoFilesLeftOver`: `Spec => []P` for
  `TypeOK`, `ConnectionsMatch`, `ReadyServed` and `FilesHaveConnection`.

`ReadyServed` is the reason for most of `IInv`. When a worker has been called, its
client goes out of `due`, and the rest of the table must be what is left: so no other
entry may be of that client (`OneDescriptor`), so a client in a backlog has no
descriptor and is there once (`OnePlace`), so `accept` must return a connection that was
in the backlog: the backlog `poll` saw is still there (`Pending`), which only holds
because listeners differ and stay the first entries (`Listening`). `Position` says where
the loop is in the table. The lemmas go action by action; `RemoveAtIs` and `AddFd` say
what `erase` and `push_back` make of the table, `EmptyTables` what every destruction
leaves, `Reset` what becomes of the backlogs, `LoseStep` and `RestartSameStep` that a
restart finds the invariant as a new server needs it, with the lost descriptors in no
table, and `Lowest` that the kernel has a lowest free descriptor. `ServerAssumption`
says that the ports, which come from a `std::set`, differ.

`ConfProofs`, for any names, options, hosts and pages, files of any length, and as many
copies as the library makes:

* `SimplifyIsMeaning`: `simplify_path(path) = Meaning(path)` for every path
* `TypeCorrect`, `OptionsAreKept`, `LongestPrefixServes`, `RedirectsKeepRest`,
  `EveryPortServed`, `PagesAreNamed`: `Spec => []P` for `TypeOK`, `OptionsKept`,
  `LongestPrefix`, `RedirectKeepsRest`, `PortServed` and `ErrorPagesDistinct`.

The lookups are recursive functions, and the library's induction rules are out of reach;
what stands for induction is a set: one that has 0, and with a number the next, has all
numbers up to N, because there would be a least one it lacks (`UpTo`). That such
functions exist at all is proved the same way (`Recursion`). `simplify_path` keeps a
stack of segments; the proof keeps with it the places in the path they come from
(`Places`): they are those that nothing read so far cancels, and between a place and the
end there are as many `..` as names that they cancel, plus the segments above it. The
next `..` then cancels exactly the last one. `Meaning` counts and does not mention a
stack.

The invariant is about copies. `AsTold`: each server that was read has the blocks the
file told of, or those of one copy of them; since a copy of a copy is that copy
(`CopyTwice`), it does not matter how often `push_back` made one. `Ports`: the ports
listened on are those of the servers, after the mask. `Numbered`: the pages are those of
the directives in order, and the last directive with a code has its index, which holds as
long as pages are distinct. `Inside`: the blocks that are being read exist. `CopyRuns`:
the running server has a copy of it all. `CopyKeepsOptions` then follows a lookup through
both maps, which meet the same blocks as long as none climbs, because of two paths one
sorts before the other (`BeforeTotal`), and `GetIsAround` finds that an inherited option
is that of a prefix of the path as long as none strays. `ConfAssumption` gives the
constants their types; it also says that segments have different ranks and that `NULL` is
not a path.

### Only model-checked

`EveryRequestAnswered`, `AnsweredOrStalled`, `ChildReaped`, `QuitStops`, `GoneIsClosed`
and `SendingEnds` are liveness properties, out of reach of the prover. For clients that
do not keep to the protocol, and so are outside of the theorems of `ExchangeProofs`,
`KeepAliveAtBoundary` and `OneStatusLinePerRequest` are what TLC finds for the requests
of `refused` (they hold) and of `after_post` (the first does not: finding 1).

## What is not modelled, and why

* The syntax of the configuration file, the text of pages and headers, MIME types,
  the CGI environment, the split of a path into script and path info, the numbers
  and text of `nat_utils.hpp`: text processing that no state depends on.
* The translated path (`Conf.cpp:300`), the `max_body` directive and the line number of
  a `ParsingException`: their results are values the connections only pass on; the
  first is a hazard with a note.
* Two servers started together, which may choose the same temporary name between
  `access` and `open` (`CgiHandler.cpp:320`): a deployment runs one, and `LeftNames`
  covers the files of an earlier one.
* A `Server` without tables (an abstract set of connections): `ConnectionsMatch` and
  `ReadyServed` say what it would.
* The files under `assets` and `conf`.
