------------------------------ MODULE ConState ------------------------------
(***************************************************************************)
(* One client connection of webserv: the ConState object the poll loop     *)
(* drives, the client at the other end of the socket, and the CGI child    *)
(* the connection may be waiting for.                                      *)
(*                                                                         *)
(* One action is one call of ConState::operator() by Server::launchServer: *)
(* the read or the peek, the callback _call_next points to with everything *)
(* it calls, and the handling of an HttpError it throws.  The callbacks    *)
(* keep the names they have in the code.                                   *)
(*                                                                         *)
(* A definition whose comment starts with "Bug:" is the faulty variant of  *)
(* the one below it; no action uses it.  The properties are tested by      *)
(* putting it in the place of that definition.                             *)
(***************************************************************************)
EXTENDS HttpParser, ChunkStreamer, FiniteSets

CONSTANTS
  NoConf,          \* _pconf == NULL
  Accepts,         \* Accepts[t]: accepted_methods() of the path of target t
  Redirected,      \* targets whose path is_redirected()
  CgiTargets,      \* targets isCgi() recognises
  Directories,     \* targets opendir() succeeds on
  MaxBody,         \* MaxBody[v]: max_body() of server v, 0 when unlimited
  ErrorPages,      \* error codes for which error_page() is configured
  CgiOutputs,      \* what a CGI script may leave: "ok", "malformed", "absent"
  CgiTimeout,      \* CGI_TIMEOUT, in calls of _wait_cgi
  FileBlocks,      \* _rdbuf.read_more calls it takes to stream a large file
  Requests,        \* requests a client can send: [syms, payload]
  MaxRequests,     \* bound on the requests of one connection
  Pipelining       \* the client may send before it has its previous answer

VARIABLES
  (* the ConState object *)
  call_next,       \* _call_next
  event_set,       \* _event_set; "0" once the connection is closed
  pconf,           \* _pconf
  pa,              \* _pa
  chunk_streamer,  \* _chunk_streamer
  in_file,         \* positions of the input that _cgi's in-file holds
  child,           \* _cgi._pid's process, and the time waited for it
  resp_file,       \* _resp_file is open
  wr,              \* _wr
  (* its socket and input buffer *)
  stream,          \* everything the client has sent
  rcvd,            \* offset of _in_buf.end in stream
  rd,              \* offset of _in_buf.pos in stream
  client,          \* "open", "shut" once the client closed its side, or "reset"
  (* what an observer of the socket would note down *)
  bounds,          \* bounds[i]: offset in stream where request i ends
  payloads,        \* payloads[i]: positions that are the body of request i
  heads,           \* number of responses whose status line went out
  nresp            \* number of responses sent to their end

conVars    == <<call_next, event_set, pconf, pa, chunk_streamer, in_file, child,
                resp_file, wr, rd>>
clientVars == <<stream, client, bounds, payloads>>
vars       == <<conVars, rcvd, clientVars, heads, nresp>>

Codes == {"400", "404", "405", "413", "431", "500"}

ReadCallbacks  == {"_get_first_request", "_get_request", "_get_new_request",
                   "_read_body"}
WriteCallbacks == {"_wait_cgi", "_write", "_write_then_close"}

(* wr: phase is how far write_some has got ("first": _pos == 0, "header":  *)
(* the header, with an in-memory body, is partly sent, "stream":           *)
(* _streaming), left the file blocks still to stream (0: the body is in    *)
(* memory), body whether the page is there or was lost.                    *)
Writer == [phase : {"first", "header", "stream"}, left : Nat,
           body : {"page", "empty"}]
Response(left, body) == [phase |-> "first", left |-> left, body |-> body]

Child == [state : {"none", "running", "exited", "signaled"}, waited : Nat]
NoChild == [state |-> "none", waited |-> 0]

ASSUME ConStateAssumption ==
  /\ None \notin Servers /\ NoConf \notin Servers
  /\ Accepts \in [Targets -> SUBSET Methods]
  /\ MaxBody \in [Servers -> Nat]
  /\ CgiTimeout \in Nat \ {0}
  /\ FileBlocks \in Nat \ {0}
  /\ MaxRequests \in Nat
  /\ ErrorPages \subseteq Codes
  /\ \A r \in Requests :
       /\ r.syms \in Seq(Symbol)
       /\ r.payload \subseteq 1..Len(r.syms)
       /\ \A i \in 1..Len(r.syms) :
            /\ r.syms[i].k = "start" => r.syms[i].t \in Targets
            /\ r.syms[i].k = "host"  => r.syms[i].t \in Servers
            /\ r.syms[i].k = "size"  => r.syms[i].n >= 0

-----------------------------------------------------------------------------
(* How a callback ends                                                     *)

(* Bug: the callback waits for input with the wrong event. *)
AwaitWrongEvent(callback) ==
  /\ call_next' = callback
  /\ event_set' = "POLLOUT"
  /\ UNCHANGED <<wr, resp_file>>

(* return POLLIN: wait for more input *)
Await(callback) ==
  /\ call_next' = callback
  /\ event_set' = "POLLIN"
  /\ UNCHANGED <<wr, resp_file>>

(* Bug: a prepared response waits for input. *)
RespondWrongEvent(left, body, open) ==
  /\ call_next' = "_write"
  /\ event_set' = "POLLIN"
  /\ wr' = Response(left, body)
  /\ resp_file' = open

(* return POLLOUT with a response prepared in _wr *)
Respond(left, body, open) ==
  /\ call_next' = "_write"
  /\ event_set' = "POLLOUT"
  /\ wr' = Response(left, body)
  /\ resp_file' = open

(* _choose_write_method on a file just opened: a small one is read and     *)
(* closed, a large one stays open to be streamed.                          *)
(* On a stream that is already open, open() fails but is_open() holds, and *)
(* nothing is read.                                                        *)
ServeFile ==
  \/ resp_file /\ Respond(0, "empty", FALSE)
  \/ ~resp_file /\ Respond(0, "page", FALSE)               \* a small file
  \/ ~resp_file /\ Respond(FileBlocks, "page", TRUE)       \* a large one

(* throw HttpError(code), caught by operator(): _prepare_error, then the   *)
(* choice of the callback that will send the page.  open is whether        *)
(* _resp_file is open at that point: opening the error page then fails,    *)
(* yet is_open() holds, and an empty body goes out.                        *)
ErrorPage(code, open) ==
  \/ /\ pconf' # NoConf /\ code \in ErrorPages
     /\ \/ /\ ~open                                     \* a large error page
           /\ wr' = Response(FileBlocks, "page")
           /\ resp_file' = TRUE
        \/ /\ wr' = Response(0, IF open THEN "empty" ELSE "page")
           /\ resp_file' = FALSE
  \/ /\ pconf' = NoConf \/ code \notin ErrorPages
     /\ wr' = Response(0, "page")
     /\ resp_file' = open

(* Bug: the connection is kept after every error. *)
ThrowKeeps(code, open) ==
  /\ ErrorPage(code, open)
  /\ call_next' = "_write"
  /\ event_set' = "POLLOUT"

Throw(code, open) ==
  /\ ErrorPage(code, open)
  /\ call_next' = IF chunk_streamer'.status = "DONE" THEN "_write"
                  ELSE "_write_then_close"
  /\ event_set' = "POLLOUT"

(* event_set() == 0: launchServer closes the socket and erases the         *)
(* ConState, whose destructors kill the child and remove the files.        *)
Close ==
  /\ event_set' = "0"
  /\ child' = NoChild
  /\ resp_file' = FALSE
  /\ in_file' = {}
  /\ UNCHANGED <<call_next, pconf, pa, chunk_streamer, wr, rd>>

-----------------------------------------------------------------------------
(* CGI: CgiHandler::run and waitChild, ConState::_prepare_cgi_page         *)

_prepare_cgi_page ==
  \E out \in CgiOutputs :
    \/ out = "ok" /\ ~resp_file /\ ServeFile
    \/ out = "absent" /\ ~resp_file /\ Throw("500", FALSE)
    \/ (out = "malformed" \/ resp_file) /\ Throw("500", TRUE)

(* Bug: the time waited is never measured. *)
WaitCgiForever(state, waited) ==
  \/ /\ state = "running"
     /\ child' = [state |-> state, waited |-> waited]
     /\ call_next' = "_wait_cgi"
     /\ event_set' = "POLLOUT"
     /\ UNCHANGED <<wr, resp_file>>
  \/ state = "signaled" /\ child' = NoChild /\ Throw("500", resp_file)
  \/ state = "exited" /\ child' = NoChild /\ _prepare_cgi_page

(* Bug: _pid is not reset when the child has been waited for. *)
WaitCgiKeepsPid(state, waited) ==
  \/ /\ state = "running" /\ waited < CgiTimeout
     /\ child' = [state |-> state, waited |-> waited + 1]
     /\ call_next' = "_wait_cgi"
     /\ event_set' = "POLLOUT"
     /\ UNCHANGED <<wr, resp_file>>
  \/ /\ state # "running" \/ waited >= CgiTimeout
     /\ child' = [state |-> state, waited |-> waited]
     /\ \/ Throw("500", resp_file)
        \/ state = "exited" /\ _prepare_cgi_page

(* waitChild on a child in this state, waited for this long, and _wait_cgi *)
_wait_cgi(state, waited) ==
  \/ /\ state = "running" /\ waited < CgiTimeout
     /\ child' = [state |-> state, waited |-> waited + 1]
     /\ call_next' = "_wait_cgi"
     /\ event_set' = "POLLOUT"
     /\ UNCHANGED <<wr, resp_file>>
  \/ /\ \/ state = "running" /\ waited >= CgiTimeout       \* kill(_pid, SIGTERM)
        \/ state = "signaled"
     /\ child' = NoChild
     /\ Throw("500", resp_file)
  \/ /\ state = "exited"
     /\ child' = NoChild
     /\ _prepare_cgi_page

(* run, and the first _wait_cgi in the same call                           *)
RunCgi ==
  \/ \E state \in {"running", "exited", "signaled"} : _wait_cgi(state, 0)
  \/ /\ "fork" \in Faults                       \* access or fork failed
     /\ UNCHANGED child
     /\ Throw("500", resp_file)

-----------------------------------------------------------------------------
(* _prepare_page and _read_body.  A parameter is the value a member has    *)
(* when the function is called; pa' and pconf' are already determined.     *)

_prepare_page ==
  LET target == RequestLine(stream, pa').t
      method == RequestLine(stream, pa').m
  IN  \/ target \in CgiTargets /\ RunCgi
      \/ /\ target \notin CgiTargets /\ method = "POST"
         /\ UNCHANGED child /\ Respond(0, "page", resp_file)
      \/ /\ target \notin CgiTargets /\ method # "POST"
         /\ UNCHANGED child
         /\ \/ ServeFile                                   \* the file, or the index
            \/ ~resp_file /\ target \in Directories /\ Respond(0, "page", FALSE)
            \/ ~resp_file /\ Throw("404", FALSE)

(* What one call reads of the body: a set of ChunkStreamer call records    *)
ReadLength(c, x, max) ==
  IF c.st.status # "CHUNK_PREFIX" THEN ReadSomeSingle(c, rcvd')
  ELSE IF x.n < 0 THEN {Raise(c, "400")}
  ELSE IF max > 0 /\ x.n > max THEN {Raise(c, "413")}
  ELSE ReadSomeSingle([c EXCEPT !.st.rem = x.n], rcvd')

ReadBodyOutcomes(c) ==
  LET max == MaxBody[pconf']
  IN  IF InChunks(stream, pa')
      THEN ReadSomeChunked(stream, c, rcvd', max)
      ELSE IF Fields(stream, pa', "length") # {}
      THEN UNION {ReadLength(c, x, max) : x \in Fields(stream, pa', "length")}
      ELSE {[c EXCEPT !.res = "DONE"]}

(* closeFile: what the stream still holds back of the file is written.     *)
(* Nothing looks whether it could be: an end of the file may be missing.   *)
closeFile(file) ==
  {file} \cup (IF "disk" \in Faults THEN {{i \in file : i <= n} : n \in 0..rd'} ELSE {})

_read_body(st, file, r) ==
  \E c \in ReadBodyOutcomes(Call(st, r)) :
    /\ chunk_streamer' = c.st
    /\ rd' = c.rd
    /\ \/ /\ c.res = "MORE" /\ in_file' = file \cup c.got
          /\ UNCHANGED child /\ Await("_read_body")
       \/ /\ c.res = "DONE" /\ in_file' \in closeFile(file \cup c.got)
          /\ _prepare_page
       \/ /\ c.res \in Codes /\ in_file' \in closeFile(file \cup c.got)
          /\ UNCHANGED child /\ Throw(c.res, resp_file)

-----------------------------------------------------------------------------
(* _dispatch, with the input consumed up to r                              *)

NoBody(r) == rd' = r /\ UNCHANGED <<chunk_streamer, in_file>>

(* Bug: the temporary file is not truncated. *)
StartBodyAppends(r) == _read_body(NewStreamer, in_file, r)

(* a new ChunkStreamer, openFile(0), then _read_body                       *)
StartBody(r) ==
  \/ _read_body(NewStreamer, {}, r)
  \/ /\ "open" \in Faults                                \* openFile(0) failed
     /\ chunk_streamer' = NewStreamer
     /\ rd' = r
     /\ UNCHANGED <<in_file, child>>
     /\ Throw("500", resp_file)

_dispatch(r) ==
  LET target == RequestLine(stream, pa').t
      method == RequestLine(stream, pa').m
  IN  \/ /\ method \notin Accepts[target]      \* no location, or one without it
         /\ NoBody(r) /\ UNCHANGED child
         /\ Throw("404", resp_file) \/ Throw("405", resp_file)
      \/ /\ method \in Accepts[target] /\ target \in Redirected
         /\ NoBody(r) /\ UNCHANGED child /\ Respond(0, "page", resp_file)
      \/ /\ method \in Accepts[target] /\ target \notin Redirected
         /\ \/ method = "POST" /\ StartBody(r)
            \/ method = "GET" /\ NoBody(r) /\ _prepare_page
            \/ /\ method = "DELETE" /\ NoBody(r) /\ UNCHANGED child
               /\ Respond(0, "page", resp_file) \/ Throw("404", resp_file)

-----------------------------------------------------------------------------
(* The callbacks that parse a request header                               *)

AwaitHeader(callback, o) == NoBody(o.rd) /\ UNCHANGED child /\ Await(callback)

ParseError(o) == NoBody(o.rd) /\ UNCHANGED child /\ Throw(o.err, resp_file)

_get_first_request ==
  \E o \in ParseSome(stream, pa, rd, rcvd') :
    /\ pa' = o.pa
    /\ \/ o.err # None /\ UNCHANGED pconf /\ ParseError(o)
       \/ /\ o.err = None
          /\ pconf' \in HostServers(stream, o.pa)
          /\ \/ o.pa.status = "PREBODY" /\ _dispatch(o.rd)
             \/ o.pa.status # "PREBODY" /\ AwaitHeader("_get_request", o)
             \/ /\ "slots" \in Faults                      \* setFilename failed
                /\ NoBody(o.rd) /\ UNCHANGED child /\ Throw("500", resp_file)
       \/ /\ o.err = None /\ Fields(stream, o.pa, "host") = {}
          /\ UNCHANGED pconf
          /\ \/ o.pa.status # "PREBODY" /\ AwaitHeader("_get_first_request", o)
             \/ /\ o.pa.status = "PREBODY"                 \* no Host header
                /\ NoBody(o.rd) /\ UNCHANGED child /\ Throw("400", resp_file)

_get_request(parser) ==
  \E o \in ParseSome(stream, parser, rd, rcvd') :
    /\ pa' = o.pa
    /\ UNCHANGED pconf
    /\ \/ o.err # None /\ ParseError(o)
       \/ o.err = None /\ o.pa.status = "PREBODY" /\ _dispatch(o.rd)
       \/ o.err = None /\ o.pa.status # "PREBODY" /\ AwaitHeader("_get_request", o)

_get_new_request == _get_request(NewParser(rd))

-----------------------------------------------------------------------------
(* Calls of operator() that read: _in_buf.read_more, then the callback     *)

(* recv returned 0 or -1: the client closed its side and everything it sent*)
(* has been received, it reset the connection, or the buffer has no space  *)
(* left to receive into.                                                   *)
PeerClosed == client = "reset" \/ (client = "shut" /\ rcvd = Len(stream))

ReadMore(callback) ==
  /\ event_set = "POLLIN" /\ call_next = callback
  /\ client # "reset"
  /\ \E k \in 1..Len(stream) - rcvd : k <= Space(rd, rcvd) /\ rcvd' = rcvd + k
  /\ UNCHANGED <<clientVars, heads, nresp>>

GetFirstRequest == ReadMore("_get_first_request") /\ _get_first_request
GetRequest      == ReadMore("_get_request")       /\ _get_request(pa)
GetNewRequest   == ReadMore("_get_new_request")   /\ _get_new_request
ReadBody        == /\ ReadMore("_read_body")
                   /\ UNCHANGED <<pa, pconf>>
                   /\ _read_body(chunk_streamer, in_file, rd)

RecvNothing ==
  /\ event_set # "0"
  /\ \/ PeerClosed
     \/ event_set = "POLLIN" /\ rcvd < Len(stream) /\ Space(rd, rcvd) = 0
  /\ Close
  /\ UNCHANGED <<clientVars, rcvd, heads, nresp>>

-----------------------------------------------------------------------------
(* Calls of operator() on a writable socket                                *)

Writable(callback) ==
  /\ event_set = "POLLOUT" /\ call_next = callback
  /\ ~PeerClosed
  /\ UNCHANGED <<clientVars, rcvd>>

WaitCgi ==
  /\ Writable("_wait_cgi")
  /\ UNCHANGED <<pconf, pa, chunk_streamer, in_file, rd, heads, nresp>>
  /\ _wait_cgi(child.state, child.waited)

(* Bug: _pos is not advanced by a short send. *)
SendHeaderAgain(res, w) ==
  \/ /\ wr.phase = "first"
     /\ res = "PARTIAL_WRITE" /\ w = wr
  \/ /\ wr.phase # "stream" /\ wr.left > 0
     /\ res = "PARTIAL_WRITE" /\ w = [wr EXCEPT !.phase = "stream"]
  \/ /\ wr.phase # "stream" /\ wr.left = 0
     /\ res = "OK_FINISHED" /\ w = [wr EXCEPT !.phase = "header"]

(* write_some: the results it can have, with the new value of _wr          *)
SendHeader(res, w) ==
  \/ /\ wr.phase = "first"                         \* a short send, at most one
     /\ res = "PARTIAL_WRITE" /\ w = [wr EXCEPT !.phase = "header"]
  \/ /\ wr.phase # "stream" /\ wr.left > 0
     /\ res = "PARTIAL_WRITE" /\ w = [wr EXCEPT !.phase = "stream"]
  \/ /\ wr.phase # "stream" /\ wr.left = 0
     /\ res = "OK_FINISHED" /\ w = [wr EXCEPT !.phase = "header"]

SendBlock(res, w) ==
  /\ wr.phase = "stream"
  /\ \/ /\ resp_file
        /\ res = IF wr.left > 1 THEN "PARTIAL_WRITE" ELSE "OK_FINISHED"
        /\ w = [wr EXCEPT !.left = wr.left - 1]
     \/ /\ ~resp_file \/ "read" \in Faults
        /\ res = "READ_ERROR" /\ w = wr

WriteSome(res, w) ==
  \/ SendHeader(res, w)
  \/ SendBlock(res, w)
  \/ "send" \in Faults /\ res = "WRITE_ERROR" /\ w = wr

Written == [phase : {"first", "header", "stream"}, left : 0..FileBlocks,
            body : {"page", "empty"}]

CountHead(res) ==
  heads' = IF wr.phase = "first" /\ res # "WRITE_ERROR" THEN heads + 1 ELSE heads

Finished(res) == nresp' = IF res = "OK_FINISHED" THEN nresp + 1 ELSE nresp

SendMore(w) == wr' = w /\ UNCHANGED <<call_next, event_set, resp_file>>

(* Bug: the file that was streamed stays open. *)
ResponseSentLeavesFile(w) ==
  /\ wr' = w
  /\ UNCHANGED resp_file
  /\ call_next' = "_get_new_request"
  /\ event_set' = "POLLIN"

ResponseSent(w) ==
  /\ wr' = w
  /\ resp_file' = FALSE
  /\ call_next' = "_get_new_request"
  /\ event_set' = "POLLIN"

Write(res) ==
  /\ Writable("_write")
  /\ \E w \in Written :
       /\ WriteSome(res, w)
       /\ CountHead(res) /\ Finished(res)
       /\ \/ res = "WRITE_ERROR" /\ Close
          \/ /\ res # "WRITE_ERROR"
             /\ UNCHANGED <<pconf, pa, chunk_streamer, in_file, child, rd>>
             /\ \/ res = "READ_ERROR"    /\ Throw("500", resp_file)
                \/ res = "PARTIAL_WRITE" /\ SendMore(w)
                \/ res = "OK_FINISHED"   /\ ResponseSent(w)

WriteThenClose(res) ==
  /\ Writable("_write_then_close")
  /\ \E w \in Written :
       /\ WriteSome(res, w)
       /\ CountHead(res) /\ Finished(res)
       /\ \/ res # "PARTIAL_WRITE" /\ Close
          \/ /\ res = "PARTIAL_WRITE" /\ SendMore(w)
             /\ UNCHANGED <<pconf, pa, chunk_streamer, in_file, child, rd>>

-----------------------------------------------------------------------------
(* The environment: the client and the CGI child                           *)

ClientSend ==
  /\ client = "open" /\ event_set # "0"
  /\ Len(bounds) < MaxRequests
  /\ Pipelining \/ Len(bounds) = nresp
  /\ \E r \in Requests :
       /\ stream' = stream \o r.syms
       /\ bounds' = Append(bounds, Len(stream) + Len(r.syms))
       /\ payloads' = Append(payloads, {Len(stream) + i : i \in r.payload})
  /\ UNCHANGED <<conVars, rcvd, client, heads, nresp>>

ClientLeaves ==
  /\ client = "open" /\ event_set # "0"
  /\ client' \in {"shut", "reset"}
  /\ UNCHANGED <<conVars, rcvd, stream, bounds, payloads, heads, nresp>>

(* The child: _launch and the script.  Whatever fails in it, it ends.      *)
ChildEnds ==
  /\ child.state = "running"
  /\ \E state \in {"exited", "signaled"} : child' = [child EXCEPT !.state = state]
  /\ UNCHANGED <<call_next, event_set, pconf, pa, chunk_streamer, in_file,
                 resp_file, wr, rd, rcvd, clientVars, heads, nresp>>

-----------------------------------------------------------------------------
Results == {"READ_ERROR", "WRITE_ERROR", "PARTIAL_WRITE", "OK_FINISHED"}

Init ==
  /\ call_next = "_get_first_request"
  /\ event_set = "POLLIN"
  /\ pconf = NoConf
  /\ pa = NewParser(0)
  /\ chunk_streamer = NewStreamer
  /\ in_file = {}
  /\ child = NoChild
  /\ resp_file = FALSE
  /\ wr = Response(0, "empty")
  /\ stream = <<>> /\ rcvd = 0 /\ rd = 0
  /\ client = "open"
  /\ bounds = <<>> /\ payloads = <<>>
  /\ heads = 0 /\ nresp = 0

(* A call of operator() by the poll loop *)
Worker ==
  \/ GetFirstRequest \/ GetRequest \/ GetNewRequest \/ ReadBody
  \/ RecvNothing
  \/ WaitCgi
  \/ \E res \in Results : Write(res) \/ WriteThenClose(res)

Next == Worker \/ ClientSend \/ ClientLeaves \/ ChildEnds

Spec == Init /\ [][Next]_vars

(* poll() reports a socket that is ready on every iteration, and the loop  *)
(* then calls its worker.                                                  *)
FairSpec == Spec /\ WF_vars(Worker)

-----------------------------------------------------------------------------
(* Properties                                                              *)

TypeOK ==
  /\ call_next \in ReadCallbacks \cup WriteCallbacks
  /\ event_set \in {"POLLIN", "POLLOUT", "0"}
  /\ pconf \in Servers \cup {NoConf}
  /\ pa \in Parser
  /\ chunk_streamer \in Streamer
  /\ in_file \subseteq 1..rd
  /\ child \in Child
  /\ resp_file \in BOOLEAN
  /\ wr \in Writer
  /\ stream \in Seq(Symbol)
  /\ rcvd \in 0..Len(stream) /\ rd \in 0..rcvd /\ pa.last <= rd
  /\ rcvd - rd <= BufCap
  /\ client \in {"open", "shut", "reset"}
  /\ bounds \in Seq(Nat) /\ payloads \in Seq(SUBSET Nat)
  /\ heads \in Nat /\ nresp \in Nat

Open == event_set # "0"

(* While no Host header has selected a server, _pconf is NULL.  It is only *)
(* dereferenced by _dispatch and what follows it, which a connection can   *)
(* then not reach: it is still at its first request, or it will be closed  *)
(* after an error page.  (_get_first_request, and the choice operator()    *)
(* makes after an HttpError.)                                              *)
NullConf ==
  pconf = NoConf => /\ call_next \in {"_get_first_request", "_write_then_close"}
                    /\ chunk_streamer.status # "DONE"

(* A connection has a child process exactly while it waits for one, so     *)
(* waitpid() is never called with -1, which would reap another             *)
(* connection's child, and no child is forgotten while the connection goes *)
(* on to another request.                                                  *)
PidMatchesCallback == child.state # "none" <=> Open /\ call_next = "_wait_cgi"

(* The event waited for is the one the next callback needs: a callback     *)
(* that reads never runs on a writable socket, nor the converse.           *)
EventMatchesCallback == Open => (event_set = "POLLIN" <=> call_next \in ReadCallbacks)

(* No callback that reads, or waits for a script, starts with _resp_file   *)
(* open, so the open() of _prepare_page and of _prepare_cgi_page is never  *)
(* of an open stream (that of _prepare_error may be, see PageNotLost); and *)
(* while a file is streamed it is open, so write_some never meets a closed *)
(* one.                                                                    *)
RespFileMatchesResponse ==
  /\ resp_file => Open /\ call_next \in {"_write", "_write_then_close"}
  /\ Open /\ call_next \in {"_write", "_write_then_close"} /\ wr.left > 0 => resp_file

Boundary(i) == IF i = 0 THEN 0 ELSE bounds[i]

(* Every request header is parsed from the first byte of a request of the  *)
(* client: when the connection is kept after response number nresp, all of *)
(* request number nresp and nothing more has been consumed.                *)
KeepAliveAtBoundary ==
  Open => /\ call_next = "_get_new_request" => rd = Boundary(nresp)
          /\ call_next \notin {"_get_new_request", "_write_then_close"}
               => pa.first = Boundary(nresp)

(* At most one status line goes out per request, and none before the client*)
(* has sent a request for it.                                              *)
OneStatusLinePerRequest ==
  nresp <= heads /\ heads <= nresp + 1 /\ heads <= Len(bounds)

(* The connection as its client sees it: each request is answered after    *)
(* all of it has been received, in its turn, by one answer that is not     *)
(* begun before the one before it has gone out whole, whatever callbacks   *)
(* and child processes it takes.  (The chain of _call_next.)               *)
Abstract == INSTANCE Exchange WITH
  received <- Cardinality({i \in DOMAIN bounds : bounds[i] <= rcvd}),
  begun <- heads, ended <- nresp, open <- Open

ImplementsExchange == Abstract!Spec

(* A CGI child started for a POST finds in its standard input the body of  *)
(* that very request and nothing else, and all of it unless the disk is    *)
(* full, when an end of it may be missing and nobody is told: closeFile    *)
(* does not look (CgiHandler.cpp:120).                                     *)
CgiReadsOwnBody ==
  child.state # "none" /\ RequestLine(stream, pa).m = "POST" =>
    \/ in_file = payloads[nresp + 1]
    \/ /\ "disk" \in Faults
       /\ \E n \in 0..rd : in_file = {i \in payloads[nresp + 1] : i <= n}

(* The temporary file never holds more of a body than max_body() allows.   *)
BodyWithinLimit ==
  pconf # NoConf /\ MaxBody[pconf] > 0 => Cardinality(in_file) <= MaxBody[pconf]

(* No response goes out without its page, except the 500 for a script that *)
(* left output _prepare_cgi_page cannot read, where a page is configured   *)
(* for that error: ConState.cpp:343-349 throw with _resp_file open, so the *)
(* open() at line 436 fails, is_open() holds all the same, and the page is *)
(* empty.                                                                  *)
PageNotLost ==
  Open /\ call_next \in {"_write", "_write_then_close"} /\ wr.body # "page" =>
    /\ "malformed" \in CgiOutputs /\ RequestLine(stream, pa).t \in CgiTargets
    /\ pconf # NoConf /\ "500" \in ErrorPages

(* A client that keeps its side open gets an answer to every request it has*)
(* sent: no callback waits for an event that never comes, and no connection*)
(* is dropped instead of answered.                                         *)
EveryRequestAnswered ==
  \A i \in 1..MaxRequests : Len(bounds) >= i ~> nresp >= i \/ client # "open"

(* The next request is in the buffer, and the callback for it waits for    *)
(* more input.                                                             *)
Stalled == Open /\ call_next = "_get_new_request" /\ rd < rcvd

(* A client that does not wait for its answers gets them all the same,     *)
(* until an error closes the connection, and up to a request that came in  *)
(* with the one before it, which is only looked at when more comes in      *)
(* (ConState.cpp:387): nowhere else does the connection stand still.       *)
AnsweredOrStalled ==
  \A i \in 1..MaxRequests :
    Len(bounds) >= i ~> nresp >= i \/ client # "open" \/ ~Open \/ Stalled

(* _discard_trailer runs when the input is at a trailer line: the last     *)
(* chunk, the one of size 0, has been consumed ("buf.pos is always at the  *)
(* start of a (possibly empty) trailer line").                             *)
TrailerFollowsLastChunk ==
  chunk_streamer.status = "TRAILER" => \E i \in pa.last+1..rd : stream[i] = Size(0)

(* A child is waited for only so long: it ends or it is killed.            *)
ChildReaped == child.state = "running" ~> child.state # "running"
=============================================================================
