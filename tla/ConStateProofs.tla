--------------------------- MODULE ConStateProofs ---------------------------
(***************************************************************************)
(* The connection's type correctness, and the invariants that tie its      *)
(* callback to the event it waits for, the file it streams, the child it   *)
(* waits for and the configuration it has: for every configuration, buffer *)
(* size, set of requests and choice of failing calls.                      *)
(*                                                                         *)
(* None of these is inductive alone.  That _get_first_request hands over a *)
(* NULL _pconf only to a connection that will be closed needs the status   *)
(* of the streamer; that a file is opened on a closed stream needs the     *)
(* callback and the event to match; that a header field can be looked up   *)
(* needs the whole of the input window's type.  IInv is their conjunction. *)
(***************************************************************************)
EXTENDS ConState, TLAPS

(* Callback, event, child, response file and writer agree. *)
Control ==
  /\ call_next \in ReadCallbacks \cup WriteCallbacks
  /\ event_set \in {"POLLIN", "POLLOUT", "0"}
  /\ child \in Child /\ (child.state = "none" => child = NoChild)
  /\ resp_file \in BOOLEAN
  /\ wr \in Writer
  /\ PidMatchesCallback
  /\ EventMatchesCallback
  /\ RespFileMatchesResponse

(* The two bounds a response or a wait is compared with are numbers. *)
LEMMA Constants == FileBlocks \in Nat /\ CgiTimeout \in Nat
  BY ConStateAssumption

(* return POLLIN leaves a connection without a file or a child waiting for
   input. *)
LEMMA AwaitControl ==
  ASSUME Control, ~resp_file, NEW callback \in ReadCallbacks,
         Await(callback), child' = NoChild
  PROVE  Control'
  BY DEF Await, Control, ReadCallbacks, WriteCallbacks, Child, NoChild,
         PidMatchesCallback, EventMatchesCallback, RespFileMatchesResponse, Open

(* A callback that has prepared _wr, with its file open if it is to be
   streamed, leaves the connection ready to write. *)
LEMMA AnsweringControl ==
  ASSUME call_next' \in {"_write", "_write_then_close"}, event_set' = "POLLOUT",
         wr' \in Writer, resp_file' \in BOOLEAN, wr'.left > 0 => resp_file',
         child' = NoChild
  PROVE  Control'
  BY DEF Control, ReadCallbacks, WriteCallbacks, Child, NoChild,
         PidMatchesCallback, EventMatchesCallback, RespFileMatchesResponse, Open

(* A response just prepared is a state of _wr. *)
LEMMA ResponseType ==
  ASSUME NEW left \in Nat, NEW body \in {"page", "empty"}
  PROVE  Response(left, body) \in Writer /\ Response(left, body).left = left
  BY DEF Response, Writer

(* return POLLOUT with a page in _wr. *)
LEMMA RespondControl ==
  ASSUME resp_file \in BOOLEAN, child' = NoChild,
         NEW body \in {"page", "empty"},
         Respond(0, body, resp_file) \/ Respond(0, body, FALSE)
           \/ Respond(FileBlocks, body, TRUE)
  PROVE  Control'
<1>1. CASE wr' = Response(0, body) /\ resp_file' \in BOOLEAN
  BY <1>1, ResponseType, AnsweringControl DEF Respond
<1>2. CASE wr' = Response(FileBlocks, body) /\ resp_file' = TRUE
  BY <1>2, Constants, ResponseType, AnsweringControl DEF Respond
<1> QED
  BY <1>1, <1>2 DEF Respond

(* Whatever error page operator() chooses for an HttpError, _wr and
   _resp_file agree. *)
LEMMA ThrowControl ==
  ASSUME NEW code, NEW open \in BOOLEAN, Throw(code, open), child' = NoChild
  PROVE  Control'
<1>1. call_next' \in {"_write", "_write_then_close"} /\ event_set' = "POLLOUT"
  BY DEF Throw
<1>2. CASE wr' = Response(FileBlocks, "page") /\ resp_file' = TRUE
  BY <1>1, <1>2, Constants, ResponseType, AnsweringControl
<1>3. CASE (wr' = Response(0, "page") \/ wr' = Response(0, "empty"))
            /\ resp_file' \in BOOLEAN
  BY <1>1, <1>3, ResponseType, AnsweringControl
<1> QED
  BY <1>2, <1>3 DEF Throw, ErrorPage

(* _choose_write_method, on a small file and on a large one. *)
LEMMA ServeFileControl ==
  ASSUME resp_file \in BOOLEAN, ServeFile, child' = NoChild
  PROVE  Control'
  BY RespondControl DEF ServeFile

(* _prepare_cgi_page, whatever the script wrote. *)
LEMMA CgiPageControl ==
  ASSUME resp_file \in BOOLEAN, _prepare_cgi_page, child' = NoChild
  PROVE  Control'
  BY ServeFileControl, ThrowControl DEF _prepare_cgi_page

(* _wait_cgi keeps the child exactly when it asks to be called again. *)
LEMMA WaitCgiControl ==
  ASSUME Control, ~resp_file, NEW state \in {"running", "exited", "signaled"},
         NEW waited \in Nat, _wait_cgi(state, waited)
  PROVE  Control'
<1>1. CASE state = "running" /\ waited < CgiTimeout
  <2>1. /\ child' = [state |-> state, waited |-> waited + 1]
        /\ call_next' = "_wait_cgi" /\ event_set' = "POLLOUT"
        /\ wr' = wr /\ resp_file' = resp_file
    BY <1>1, Constants DEF _wait_cgi
  <2> QED
    BY <1>1, <2>1 DEF Control, ReadCallbacks, WriteCallbacks, Child, NoChild,
         PidMatchesCallback, EventMatchesCallback, RespFileMatchesResponse, Open
<1>2. CASE child' = NoChild /\ Throw("500", resp_file)
  BY <1>2, ThrowControl DEF Control
<1>3. CASE child' = NoChild /\ _prepare_cgi_page
  BY <1>3, CgiPageControl DEF Control
<1> QED
  BY <1>1, <1>2, <1>3 DEF _wait_cgi

(* _prepare_page, entered without a child and without an open file. *)
LEMMA PreparePageControl ==
  ASSUME Control, ~resp_file, child = NoChild, _prepare_page
  PROVE  Control'
<1> USE DEF Control
<1>1. CASE RunCgi
  <2>1. CASE \E state \in {"running", "exited", "signaled"} : _wait_cgi(state, 0)
    BY <2>1, WaitCgiControl
  <2>2. CASE child' = child /\ Throw("500", resp_file)
    BY <2>2, ThrowControl
  <2> QED
    BY <1>1, <2>1, <2>2 DEF RunCgi
<1>2. CASE child' = child /\ (Respond(0, "page", resp_file) \/ ServeFile
             \/ Respond(0, "page", FALSE) \/ Throw("404", FALSE))
  <2>1. CASE Respond(0, "page", resp_file) \/ Respond(0, "page", FALSE)
    BY <1>2, <2>1, RespondControl
  <2>2. CASE ServeFile
    BY <1>2, <2>2, ServeFileControl
  <2>3. CASE Throw("404", FALSE)
    BY <1>2, <2>3, ThrowControl
  <2> QED
    BY <1>2, <2>1, <2>2, <2>3
<1> QED
  BY <1>1, <1>2 DEF _prepare_page

(* _read_body, entered without a child and without an open file. *)
LEMMA ReadBodyControl ==
  ASSUME Control, ~resp_file, child = NoChild, NEW st, NEW file, NEW r,
         _read_body(st, file, r)
  PROVE  Control'
<1>1. resp_file \in BOOLEAN
  BY DEF Control
<1>2. CASE child' = child /\ Await("_read_body")
  BY <1>2, AwaitControl DEF ReadCallbacks
<1>3. CASE _prepare_page
  BY <1>3, PreparePageControl
<1>4. CASE child' = child /\ \E code \in Codes : Throw(code, resp_file)
  BY <1>1, <1>4, ThrowControl
<1> QED
  BY <1>2, <1>3, <1>4 DEF _read_body

(* _dispatch, entered without a child and without an open file. *)
LEMMA DispatchControl ==
  ASSUME Control, ~resp_file, child = NoChild, NEW r, _dispatch(r)
  PROVE  Control'
<1>0. resp_file \in BOOLEAN
  BY DEF Control
<1>1. CASE child' = child /\ (Throw("405", resp_file) \/ Throw("404", resp_file)
                               \/ Throw("500", resp_file))
  BY <1>0, <1>1, ThrowControl
<1>2. CASE child' = child /\ Respond(0, "page", resp_file)
  BY <1>0, <1>2, RespondControl
<1>3. CASE StartBody(r)
  BY <1>1, <1>3, ReadBodyControl DEF StartBody
<1>4. CASE _prepare_page
  BY <1>4, PreparePageControl
<1> QED
  BY <1>1, <1>2, <1>3, <1>4 DEF _dispatch
-----------------------------------------------------------------------------
(* HttpParser *)

(* The parser that parse_some leaves. *)
LEMMA OutcomeType ==
  ASSUME NEW parser \in Parser, NEW status \in ParserStatus, NEW p \in Nat,
         NEW r, NEW err
  PROVE  LET o == Outcome(parser, status, p, r, err)
         IN  /\ o.pa \in Parser /\ o.pa.last = p /\ o.rd = r
  BY DEF Outcome, Parser

(* parse_some consumes bytes of the window it was given, and never gives
   any back. *)
LEMMA ParseSomeType ==
  ASSUME NEW s, NEW parser \in Parser, NEW lo \in Nat, NEW hi \in Nat,
         parser.last <= lo, lo <= hi,
         NEW o \in ParseSome(s, parser, lo, hi)
  PROVE  o.pa \in Parser /\ o.rd \in lo..hi /\ o.pa.last <= o.rd
<1>1. CASE parser.status = "PREBODY"
  <2>1. o = Outcome(parser, parser.status, parser.last, lo, None)
    BY <1>1 DEF ParseSome
  <2>2. parser.status \in ParserStatus /\ parser.last \in Nat
    BY DEF Parser
  <2> QED
    BY <2>1, <2>2, OutcomeType
<1>2. CASE parser.status # "PREBODY"
  <2>1. PICK p \in lo..hi :
          LET status == StatusAt(parser, lo, p)
              complete == Crlf(s, p, hi)
          IN  o \in (IF complete = {}
                     THEN {Outcome(parser, status, p, p, IF Full(p, hi) THEN "431" ELSE None)}
                     ELSE IF EndLine(s, status, p)
                     THEN {Outcome(parser, "PREBODY", p, p + 1, None)}
                     ELSE IF GoodLine(s, status, p) THEN {}
                     ELSE {Outcome(parser, status, p, r, "400") :
                             r \in UNION {ErrorPos(s, status, p, e) : e \in complete}})
    BY <1>2 DEF ParseSome
  <2> DEFINE status == StatusAt(parser, lo, p)
             complete == Crlf(s, p, hi)
  <2>2. p \in Nat /\ lo <= p /\ p <= hi /\ status \in ParserStatus /\ "PREBODY" \in ParserStatus
    BY DEF StatusAt, Parser, ParserStatus
  <2>3. \A e \in complete : e \in Nat /\ p + 1 <= e /\ e <= hi
    BY <2>2 DEF Crlf
  <2>4. CASE o = Outcome(parser, status, p, p, IF Full(p, hi) THEN "431" ELSE None)
    BY <2>2, <2>4, OutcomeType
  <2>5. CASE complete # {} /\ o = Outcome(parser, "PREBODY", p, p + 1, None)
    <3>1. p + 1 <= hi
      BY <2>2, <2>3, <2>5
    <3> QED
      BY <2>2, <2>5, <3>1, OutcomeType
  <2>6. CASE \E e \in complete : \E r \in ErrorPos(s, status, p, e) :
               o = Outcome(parser, status, p, r, "400")
    <3>1. PICK e \in complete : \E r \in ErrorPos(s, status, p, e) :
            o = Outcome(parser, status, p, r, "400")
      BY <2>6
    <3>2. PICK r \in ErrorPos(s, status, p, e) : o = Outcome(parser, status, p, r, "400")
      BY <3>1
    <3>3. r \in p..hi
      BY <2>2, <2>3, <3>1, <3>2 DEF ErrorPos
    <3> QED
      BY <2>2, <3>2, <3>3, OutcomeType
  <2> QED
    BY <2>1, <2>4, <2>5, <2>6
<1> QED
  BY <1>1, <1>2

-----------------------------------------------------------------------------
(* ChunkStreamer: a call on the window (lo, hi] *)
CallResults == {"run", "MORE", "DONE"} \cup Codes

CallRecord(lo, hi) ==
  {c \in [st : Streamer, rd : lo..hi, got : SUBSET (1..hi), res : CallResults] :
     c.got \subseteq 1..c.rd}

(* A call of the streamer moves forward in the window and stores positions
   it has passed. *)
LEMMA CallStep ==
  ASSUME NEW lo \in Nat, NEW hi \in Nat, NEW c \in CallRecord(lo, hi),
         NEW st \in Streamer, NEW r \in c.rd..hi, NEW got \in SUBSET (1..r),
         NEW res \in CallResults
  PROVE  [st |-> st, rd |-> r, got |-> got, res |-> res] \in CallRecord(lo, hi)
<1>1. r \in lo..hi /\ r <= hi
  BY DEF CallRecord
<1>2. got \in SUBSET (1..hi)
  BY <1>1
<1> QED
  BY <1>1, <1>2 DEF CallRecord

(* The parts of a call record. *)
LEMMA CallFields ==
  ASSUME NEW lo \in Nat, NEW hi \in Nat, NEW c \in CallRecord(lo, hi)
  PROVE  /\ c.st \in Streamer /\ c.rd \in lo..hi /\ c.got \subseteq 1..c.rd
         /\ c.res \in CallResults
         /\ c = [st |-> c.st, rd |-> c.rd, got |-> c.got, res |-> c.res]
  BY DEF CallRecord

(* Ending a call, throwing, and going to another label keep the shape of
   the call record. *)
LEMMA StatusChange ==
  ASSUME NEW lo \in Nat, NEW hi \in Nat, NEW c \in CallRecord(lo, hi),
         NEW status \in StreamerStatus, NEW res \in CallResults, NEW r \in c.rd..hi
  PROVE  /\ Return(c, status, res) \in CallRecord(lo, hi)
         /\ Raise(c, res) \in CallRecord(lo, hi)
         /\ Goto(c, status) \in CallRecord(lo, hi)
         /\ [Return(c, status, res) EXCEPT !.rd = r] \in CallRecord(lo, hi)
         /\ [Goto(c, status) EXCEPT !.rd = r] \in CallRecord(lo, hi)
<1> DEFINE st == [c.st EXCEPT !.status = status]
<1>1. c.rd \in c.rd..hi /\ c.rd <= r /\ c.rd \in Int /\ c.got \in SUBSET (1..r)
      /\ c.got \in SUBSET (1..c.rd)
  BY CallFields
<1>2. st \in Streamer
  BY CallFields DEF Streamer
<1>4. Raise(c, res) = [st |-> c.st, rd |-> c.rd, got |-> c.got, res |-> res]
  BY CallFields DEF Raise
<1>5. Goto(c, status) = [st |-> st, rd |-> c.rd, got |-> c.got, res |-> c.res]
  BY CallFields DEF Goto
<1>3. Return(c, status, res) = [st |-> st, rd |-> c.rd, got |-> c.got, res |-> res]
  BY <1>5 DEF Return
<1>6. /\ [Return(c, status, res) EXCEPT !.rd = r]
           = [st |-> st, rd |-> r, got |-> c.got, res |-> res]
      /\ [Goto(c, status) EXCEPT !.rd = r]
           = [st |-> st, rd |-> r, got |-> c.got, res |-> c.res]
  BY <1>3, <1>5
<1> HIDE DEF st
<1>7. Return(c, status, res) \in CallRecord(lo, hi)
  BY <1>1, <1>2, <1>3, CallFields, CallStep
<1>8. Raise(c, res) \in CallRecord(lo, hi)
  BY <1>1, <1>4, CallFields, CallStep
<1>9. Goto(c, status) \in CallRecord(lo, hi)
  BY <1>1, <1>2, <1>5, CallFields, CallStep
<1>10. /\ [Return(c, status, res) EXCEPT !.rd = r] \in CallRecord(lo, hi)
       /\ [Goto(c, status) EXCEPT !.rd = r] \in CallRecord(lo, hi)
  BY <1>1, <1>2, <1>6, CallFields, CallStep
<1> QED
  BY <1>7, <1>8, <1>9, <1>10

(* _stream_chunk_payload stores what it consumes, inside the window. *)
LEMMA PayloadType ==
  ASSUME NEW lo \in Nat, NEW hi \in Nat, NEW c \in CallRecord(lo, hi)
  PROVE  StreamChunkPayload(c, hi) \subseteq CallRecord(lo, hi)
<1>1. Raise(c, "500") \in CallRecord(lo, hi)
  <2>1. "500" \in CallResults /\ c.st.status \in StreamerStatus /\ c.rd \in c.rd..hi
    BY CallFields DEF CallResults, Codes, Streamer
  <2> QED
    BY <2>1, StatusChange
<1>2. ASSUME NEW w \in PayloadSizes(c, hi)
      PROVE  Stored(c, w) \in CallRecord(lo, hi)
  <2>1. w \in 0..hi - c.rd /\ w \in Int
    BY <1>2, CallFields DEF PayloadSizes
  <2> DEFINE st == [c.st EXCEPT !.rem = @ - w]
             r == c.rd + w
             got == c.rd+1..c.rd+w
  <2>2. st \in Streamer
    BY <2>1, CallFields DEF Streamer
  <2>3. r \in c.rd..hi /\ got \in SUBSET (1..r) /\ c.res \in CallResults
    BY <2>1, CallFields
  <2>4. Stored(c, w) = [st |-> st, rd |-> r, got |-> got, res |-> c.res]
    BY DEF Stored
  <2> HIDE DEF st, r, got
  <2> QED
    BY <2>2, <2>3, <2>4, CallStep
<1> QED
  BY <1>1, <1>2 DEF StreamChunkPayload

(* The test of _rem_chunk_size after the payload. *)
LEMMA AfterPayloadType ==
  ASSUME NEW lo \in Nat, NEW hi \in Nat, NEW c \in CallRecord(lo, hi),
         NEW next \in CallRecord(lo, hi)
  PROVE  AfterPayload(c, next) \in CallRecord(lo, hi)
<1>1. "MORE" \in CallResults /\ "CHUNK_PAYLOAD" \in StreamerStatus /\ c.rd \in c.rd..hi
  BY CallFields DEF CallResults, StreamerStatus
<1> QED
  BY <1>1, StatusChange DEF AfterPayload

(* read_some_single stays inside the window. *)
LEMMA ReadSomeSingleType ==
  ASSUME NEW lo \in Nat, NEW hi \in Nat, NEW c \in CallRecord(lo, hi)
  PROVE  ReadSomeSingle(c, hi) \subseteq CallRecord(lo, hi)
<1> SUFFICES ASSUME NEW d \in StreamChunkPayload(c, hi)
             PROVE  AfterPayload(d, Return(d, "DONE", "DONE")) \in CallRecord(lo, hi)
  BY DEF ReadSomeSingle
<1>1. d \in CallRecord(lo, hi)
  BY PayloadType
<1>2. "DONE" \in CallResults /\ "DONE" \in StreamerStatus /\ d.rd \in d.rd..hi
  BY <1>1, CallFields DEF CallResults, StreamerStatus
<1> QED
  BY <1>1, <1>2, StatusChange, AfterPayloadType

(* The payload case of read_some_chunked stays inside the window. *)
LEMMA ReadChunkPayloadType ==
  ASSUME NEW lo \in Nat, NEW hi \in Nat, NEW c \in CallRecord(lo, hi)
  PROVE  ReadChunkPayload(c, hi) \subseteq CallRecord(lo, hi)
<1> SUFFICES ASSUME NEW d \in StreamChunkPayload(c, hi)
             PROVE  AfterPayload(d, Goto(d, "CRLF")) \in CallRecord(lo, hi)
  BY DEF ReadChunkPayload
<1>1. d \in CallRecord(lo, hi)
  BY PayloadType
<1>2. d.res \in CallResults /\ "CRLF" \in StreamerStatus /\ d.rd \in d.rd..hi
  BY <1>1, CallFields DEF StreamerStatus
<1> QED
  BY <1>1, <1>2, StatusChange, AfterPayloadType

(* The number in a symbol is an integer. *)
LEMMA SymbolSize ==
  ASSUME NEW s \in Seq(Symbol), NEW i \in 1..Len(s)
  PROVE  s[i].n \in Int
<1>1. s[i] \in Symbol
  OBVIOUS
<1> QED
  BY <1>1 DEF Symbol

(* _get_chunk_size stays inside the window. *)
LEMMA GetChunkSizeType ==
  ASSUME NEW s \in Seq(Symbol), NEW lo \in Nat, NEW hi \in Nat, hi <= Len(s),
         NEW c \in CallRecord(lo, hi)
  PROVE  GetChunkSize(s, c, hi) \subseteq CallRecord(lo, hi)
<1>1. /\ "500" \in CallResults /\ "400" \in CallResults /\ "MORE" \in CallResults
      /\ "CHUNK_PREFIX" \in StreamerStatus
      /\ c.rd \in c.rd..hi /\ c.rd \in Nat
  BY CallFields DEF CallResults, Codes, StreamerStatus
<1>2. /\ Raise(c, "500") \in CallRecord(lo, hi) /\ Raise(c, "400") \in CallRecord(lo, hi)
      /\ Return(c, "CHUNK_PREFIX", "MORE") \in CallRecord(lo, hi)
  BY <1>1, StatusChange
<1>3. ASSUME NEW e \in Crlf(s, c.rd, hi)
      PROVE  ChunkSize(s, c, e) \in CallRecord(lo, hi)
  <2>1. CASE e = c.rd + 2 /\ s[c.rd+1].k = "size"
    <3>1. c.rd + 2 <= hi /\ e \in c.rd..hi
      BY <1>1, <2>1 DEF Crlf
    <3>2. s[c.rd+1].n \in Int
      BY <1>1, <3>1, SymbolSize
    <3> DEFINE n == s[c.rd+1].n
               st == [status |-> IF n = 0 THEN "TRAILER" ELSE "CHUNK_PAYLOAD",
                      rem |-> n, min |-> c.st.min + n]
    <3>3. st \in Streamer
      BY <3>2, CallFields DEF Streamer, StreamerStatus
    <3>4. ChunkSize(s, c, e) = [st |-> st, rd |-> e, got |-> c.got, res |-> c.res]
      BY <2>1 DEF ChunkSize, SizeRead
    <3>5. c.got \in SUBSET (1..e) /\ c.res \in CallResults
      BY <1>1, <3>1, CallFields
    <3> HIDE DEF st
    <3> QED
      BY <3>1, <3>3, <3>4, <3>5, CallStep
  <2>2. CASE ~(e = c.rd + 2 /\ s[c.rd+1].k = "size")
    BY <1>2, <2>2 DEF ChunkSize
  <2> QED
    BY <2>1, <2>2
<1> QED
  BY <1>2, <1>3 DEF GetChunkSize

(* The size check moves nothing. *)
LEMMA CheckMaxSizeType ==
  ASSUME NEW lo \in Nat, NEW hi \in Nat, NEW c \in CallRecord(lo, hi), NEW max
  PROVE  CheckMaxSize(c, max) \in CallRecord(lo, hi)
<1>1. "413" \in CallResults /\ c.st.status \in StreamerStatus /\ c.rd \in c.rd..hi
  BY CallFields DEF CallResults, Codes, Streamer
<1> QED
  BY <1>1, StatusChange DEF CheckMaxSize

(* _expect_crlf stays inside the window. *)
LEMMA ExpectCrlfType ==
  ASSUME NEW s, NEW lo \in Nat, NEW hi \in Nat, NEW c \in CallRecord(lo, hi)
  PROVE  ExpectCrlf(s, c, hi) \in CallRecord(lo, hi)
<1>1. /\ "400" \in CallResults /\ "MORE" \in CallResults
      /\ "CRLF" \in StreamerStatus /\ "TRAILER" \in StreamerStatus
      /\ c.rd \in c.rd..hi /\ c.rd \in Nat /\ c.rd <= hi
  BY CallFields DEF CallResults, Codes, StreamerStatus
<1>2. Raise(c, "400") \in CallRecord(lo, hi) /\ Return(c, "CRLF", "MORE") \in CallRecord(lo, hi)
  BY <1>1, StatusChange
<1>3. CASE hi # c.rd
  <2>1. c.rd + 1 \in c.rd..hi
    BY <1>1, <1>3
  <2>2. Goto(c, "TRAILER").rd = c.rd
    BY CallFields DEF Goto
  <2>3. [Goto(c, "TRAILER") EXCEPT !.rd = c.rd + 1] \in CallRecord(lo, hi)
    BY <1>1, <2>1, StatusChange
  <2> QED
    BY <1>2, <1>3, <2>2, <2>3 DEF ExpectCrlf
<1> QED
  BY <1>2, <1>3 DEF ExpectCrlf

(* _discard_trailer stays inside the window. *)
LEMMA DiscardTrailerType ==
  ASSUME NEW s, NEW lo \in Nat, NEW hi \in Nat, NEW c \in CallRecord(lo, hi)
  PROVE  DiscardTrailer(s, c, hi) \subseteq CallRecord(lo, hi)
<1>1. /\ "MORE" \in CallResults /\ "DONE" \in CallResults
      /\ "TRAILER" \in StreamerStatus /\ c.rd \in Nat
  BY CallFields DEF CallResults, StreamerStatus
<1>2. ASSUME NEW p \in LineStarts(s, c.rd, hi)
      PROVE  [Return(c, "TRAILER", "MORE") EXCEPT !.rd = p] \in CallRecord(lo, hi)
  BY <1>1, <1>2, StatusChange DEF LineStarts
<1>3. ASSUME NEW e \in EmptyLines(s, c.rd, hi)
      PROVE  [Return(c, "TRAILER", "DONE") EXCEPT !.rd = e] \in CallRecord(lo, hi)
  <2>1. e \in c.rd..hi
    BY <1>1, <1>3 DEF EmptyLines
  <2> QED
    BY <1>1, <2>1, StatusChange
<1> QED
  BY <1>2, <1>3 DEF DiscardTrailer

(* read_some_chunked, the composition of its cases, stays inside the
   window. *)
LEMMA ReadSomeChunkedType ==
  ASSUME NEW s \in Seq(Symbol), NEW lo \in Nat, NEW hi \in Nat, hi <= Len(s),
         NEW c \in CallRecord(lo, hi), NEW max
  PROVE  ReadSomeChunked(s, c, hi, max) \subseteq CallRecord(lo, hi)
<1> DEFINE prefixed == {CheckMaxSize(d, max) : d \in GetChunkSize(s, c, hi)}
           stored   == UNION {ReadChunkPayload(d, hi) : d \in prefixed}
           ended    == {ExpectCrlf(s, d, hi) : d \in stored}
<1>1. prefixed \subseteq CallRecord(lo, hi)
  BY GetChunkSizeType, CheckMaxSizeType
<1>2. stored \subseteq CallRecord(lo, hi)
  BY <1>1, ReadChunkPayloadType
<1>3. ended \subseteq CallRecord(lo, hi)
  BY <1>2, ExpectCrlfType
<1>4. UNION {DiscardTrailer(s, d, hi) : d \in ended} \subseteq CallRecord(lo, hi)
  BY <1>3, DiscardTrailerType
<1> QED
  BY <1>4 DEF ReadSomeChunked

-----------------------------------------------------------------------------
(* A header field is one of the symbols received. *)
LEMMA FieldIsSymbol ==
  ASSUME NEW s \in Seq(Symbol), NEW parser \in Parser, parser.last <= Len(s),
         NEW kind, NEW x \in Fields(s, parser, kind)
  PROVE  \E i \in 1..Len(s) : x = s[i] /\ s[i].k = kind
<1>1. PICK i \in parser.first+1..parser.last : x = s[i] /\ x.k = kind
  BY DEF Fields, Lines
<1>2. i \in 1..Len(s)
  BY <1>1 DEF Parser
<1> QED
  BY <1>1, <1>2

(* A call of the streamer starts with an empty record. *)
LEMMA NewCallIsRecord ==
  ASSUME NEW st \in Streamer, NEW hi \in Nat, NEW r \in Nat, r <= hi
  PROVE  Call(st, r) \in CallRecord(r, hi)
  BY DEF Call, CallRecord, CallResults

(* The same, after set_chunk_size. *)
LEMMA CallIsRecord ==
  ASSUME NEW st \in Streamer, NEW hi \in Nat, NEW r \in 0..hi, NEW rem \in Int
  PROVE  [Call(st, r) EXCEPT !.st.rem = rem] \in CallRecord(r, hi)
<1>1. "run" \in CallResults /\ {} \in SUBSET (1..hi) /\ {} \subseteq 1..r /\ r \in r..hi
  BY DEF CallResults
<1>2. [st EXCEPT !.rem = rem] \in Streamer
  BY DEF Streamer
<1>3. [Call(st, r) EXCEPT !.st.rem = rem]
        = [st |-> [st EXCEPT !.rem = rem], rd |-> r, got |-> {}, res |-> "run"]
  BY DEF Call
<1> QED
  BY <1>1, <1>2, <1>3 DEF Call, CallRecord

(* What one call of _read_body does to the streamer, for each way a body is
   announced. *)
LEMMA ReadBodyOutcomesType ==
  ASSUME stream \in Seq(Symbol), pa' \in Parser, pa'.last <= Len(stream),
         rcvd' \in Nat, rcvd' <= Len(stream),
         NEW st \in Streamer, NEW r \in 0..rcvd'
  PROVE  ReadBodyOutcomes(Call(st, r)) \subseteq CallRecord(r, rcvd')
<1> DEFINE c == Call(st, r)
           max == MaxBody[pconf']
<1>1. c \in CallRecord(r, rcvd') /\ r \in Nat
  <2>1. r \in Nat /\ r <= rcvd'
    OBVIOUS
  <2>2. Call(st, r) \in CallRecord(r, rcvd')
    BY <2>1, NewCallIsRecord
  <2> QED
    BY <2>1, <2>2
<1>2. \A x \in CallResults : Raise(c, x) \in CallRecord(r, rcvd')
  <2>1. c.st.status \in StreamerStatus /\ c.rd \in c.rd..rcvd'
    BY <1>1, CallFields DEF Streamer
  <2> QED
    BY <1>1, <2>1, StatusChange
<1>3. "400" \in CallResults /\ "413" \in CallResults /\ "DONE" \in CallResults
  BY DEF CallResults, Codes
<1>4. ReadSomeChunked(stream, c, rcvd', max) \subseteq CallRecord(r, rcvd')
  BY <1>1, ReadSomeChunkedType
<1>5. ASSUME NEW x \in Fields(stream, pa', "length")
      PROVE  ReadLength(c, x, max) \subseteq CallRecord(r, rcvd')
  <2>1. x.n \in Int
    BY FieldIsSymbol, SymbolSize
  <2>2. [c EXCEPT !.st.rem = x.n] \in CallRecord(r, rcvd')
    BY <2>1, CallIsRecord
  <2>3. /\ ReadSomeSingle(c, rcvd') \subseteq CallRecord(r, rcvd')
        /\ ReadSomeSingle([c EXCEPT !.st.rem = x.n], rcvd') \subseteq CallRecord(r, rcvd')
    BY <1>1, <2>2, ReadSomeSingleType
  <2> HIDE DEF c
  <2> QED
    BY <1>2, <1>3, <2>3 DEF ReadLength
<1>6. [c EXCEPT !.res = "DONE"] \in CallRecord(r, rcvd')
  BY <1>2, <1>3 DEF Raise
<1> QED
  BY <1>4, <1>5, <1>6 DEF ReadBodyOutcomes

(* closeFile leaves a beginning of the file, all of it unless the disk is
   full. *)
LEMMA CloseFile ==
  ASSUME NEW file, NEW left \in closeFile(file)
  PROVE  /\ left \subseteq file /\ ("disk" \notin Faults => left = file)
         /\ left = file \/ \E n \in 0..rd' : left = {i \in file : i <= n}
  BY DEF closeFile

(* _read_body consumes bytes of the window, and stores only bytes it has
   consumed. *)
LEMMA ReadBodyInput ==
  ASSUME stream \in Seq(Symbol), pa' \in Parser, pa'.last <= Len(stream),
         rcvd' \in Nat, rcvd' <= Len(stream),
         NEW st \in Streamer, NEW r \in 0..rcvd', NEW file \in SUBSET (1..r),
         _read_body(st, file, r)
  PROVE  chunk_streamer' \in Streamer /\ rd' \in r..rcvd' /\ in_file' \subseteq 1..rd'
<1>1. PICK c \in ReadBodyOutcomes(Call(st, r)) :
        chunk_streamer' = c.st /\ in_file' \subseteq file \cup c.got /\ rd' = c.rd
  BY CloseFile DEF _read_body
<1>2. c \in CallRecord(r, rcvd')
  BY ReadBodyOutcomesType
<1>3. c.st \in Streamer /\ c.rd \in r..rcvd' /\ c.got \subseteq 1..c.rd
  BY <1>2, CallFields
<1>4. 1..r \subseteq 1..c.rd /\ file \subseteq 1..c.rd
  BY <1>3
<1> QED
  BY <1>1, <1>3, <1>4

(* _dispatch consumes bytes of the window, and stores only bytes it has
   consumed. *)
LEMMA DispatchInput ==
  ASSUME stream \in Seq(Symbol), pa' \in Parser, pa'.last <= Len(stream),
         rcvd' \in Nat, rcvd' <= Len(stream), rd \in Nat,
         chunk_streamer \in Streamer, in_file \subseteq 1..rd,
         NEW r \in rd..rcvd', _dispatch(r)
  PROVE  chunk_streamer' \in Streamer /\ rd' \in r..rcvd' /\ in_file' \subseteq 1..rd'
<1>1. CASE NoBody(r)
  BY <1>1 DEF NoBody
<1>2. CASE StartBody(r)
  <2>1. NewStreamer \in Streamer /\ {} \in SUBSET (1..r) /\ r \in 0..rcvd'
    BY DEF NewStreamer, Streamer, StreamerStatus
  <2>2. CASE _read_body(NewStreamer, {}, r)
    BY <2>1, <2>2, ReadBodyInput
  <2>3. CASE chunk_streamer' = NewStreamer /\ rd' = r /\ in_file' = in_file
    BY <2>1, <2>3
  <2> QED
    BY <1>2, <2>2, <2>3 DEF StartBody
<1> QED
  BY <1>1, <1>2 DEF _dispatch
-----------------------------------------------------------------------------
(* The inductive invariant *)

(* The configuration, the parser, the streamer and the input window *)
Input ==
  /\ pconf \in Servers \cup {NoConf}
  /\ pa \in Parser /\ pa.last <= rd
  /\ chunk_streamer \in Streamer
  /\ in_file \subseteq 1..rd
  /\ stream \in Seq(Symbol)
  /\ rcvd \in 0..Len(stream) /\ rd \in 0..rcvd
  /\ rcvd - rd <= BufCap

(* get_server_conf finds a server for every Host a client sends. *)
HostsAreServers ==
  \A i \in 1..Len(stream) : stream[i].k = "host" => stream[i].t \in Servers

(* What the observer has counted *)
Observed ==
  /\ client \in {"open", "shut", "reset"}
  /\ bounds \in Seq(Nat) /\ payloads \in Seq(SUBSET Nat)
  /\ heads \in Nat /\ nresp \in Nat

IInv == Control /\ Input /\ HostsAreServers /\ NullConf /\ Observed

(* A connection that was just accepted satisfies the invariant. *)
LEMMA InitIInv == Init => IInv
<1> SUFFICES ASSUME Init PROVE IInv
  OBVIOUS
<1>1. Control
  BY DEF Init, Control, ReadCallbacks, WriteCallbacks, Child, NoChild, Writer,
         Response, PidMatchesCallback, EventMatchesCallback,
         RespFileMatchesResponse, Open
<1>2. Input
  <2>1. BufCap \in Nat
    BY BufAssumption
  <2>2. NewParser(0) \in Parser /\ NewParser(0).last = 0
    BY DEF NewParser, Parser, ParserStatus
  <2>3. NewStreamer \in Streamer
    BY DEF NewStreamer, Streamer, StreamerStatus
  <2> QED
    BY <2>1, <2>2, <2>3 DEF Init, Input
<1>3. HostsAreServers
  BY DEF Init, HostsAreServers
<1>4. NullConf
  BY DEF Init, NullConf, NewStreamer
<1>5. Observed
  BY DEF Init, Observed
<1> QED
  BY <1>1, <1>2, <1>3, <1>4, <1>5 DEF IInv

(* What read_more and the guard of a reading callback give: no file is
   open, no child runs, and the window lies inside what was sent. *)
LEMMA ReadMoreType ==
  ASSUME IInv, NEW callback \in ReadCallbacks, ReadMore(callback)
  PROVE  /\ call_next = callback /\ ~resp_file /\ child = NoChild
         /\ stream' = stream /\ stream \in Seq(Symbol)
         /\ rd \in Nat /\ rcvd' \in Nat /\ rd <= rcvd' /\ rcvd' <= Len(stream)
         /\ rcvd' - rd <= BufCap
         /\ HostsAreServers' /\ Observed'
<1>1. /\ event_set = "POLLIN" /\ call_next = callback
      /\ UNCHANGED <<stream, client, bounds, payloads, heads, nresp>>
  BY DEF ReadMore, clientVars
<1>2. ~resp_file /\ child = NoChild
  BY <1>1 DEF IInv, Control, PidMatchesCallback, RespFileMatchesResponse,
              ReadCallbacks, Open
<1>3. PICK k \in 1..Len(stream) - rcvd : k <= Space(rd, rcvd) /\ rcvd' = rcvd + k
  BY DEF ReadMore
<1>4. /\ stream \in Seq(Symbol) /\ Len(stream) \in Nat /\ BufCap \in Nat
      /\ rcvd \in Nat /\ rd \in Nat /\ rd <= rcvd
  BY BufAssumption DEF IInv, Input
<1>5. rd <= rcvd' /\ rcvd' <= Len(stream) /\ rcvd' \in Nat /\ rcvd' - rd <= BufCap
  BY <1>3, <1>4 DEF Space
<1>6. HostsAreServers' /\ Observed'
  BY <1>1 DEF IInv, HostsAreServers, Observed
<1> QED
  BY <1>1, <1>2, <1>4, <1>5, <1>6

(* Order on the integers, as a rule the provers can apply. *)
LEMMA LessTransitive ==
  ASSUME NEW x \in Int, NEW y \in Int, NEW z \in Int, x <= y, y <= z
  PROVE  x <= z
  OBVIOUS

(* Consuming input never makes the pending data exceed the buffer. *)
LEMMA WindowShrinks ==
  ASSUME NEW x \in Int, NEW y \in Int, NEW hi \in Int, NEW size \in Int,
         x <= y, hi - x <= size
  PROVE  hi - y <= size
  OBVIOUS

(* The input part of the invariant, after a callback that consumed up to
   rd'. *)
LEMMA InputPreserved ==
  ASSUME pconf' \in Servers \cup {NoConf}, pa' \in Parser,
         chunk_streamer' \in Streamer, stream' \in Seq(Symbol),
         rcvd' \in Nat, rcvd' <= Len(stream'), NEW r \in Nat, pa'.last <= r,
         rd' \in r..rcvd', in_file' \subseteq 1..rd', rcvd' - r <= BufCap
  PROVE  Input'
<1>1. pa'.last \in Int /\ Len(stream') \in Nat /\ BufCap \in Nat /\ rd' \in Int
  BY BufAssumption DEF Parser
<1>2. r <= rd' /\ rd' <= rcvd'
  OBVIOUS
<1>3. rcvd' \in 0..Len(stream') /\ rd' \in 0..rcvd'
  BY <1>1, <1>2
<1>4. pa'.last <= rd'
  BY <1>1, <1>2, LessTransitive
<1>5. rcvd' - rd' <= BufCap
  <2>1. r \in Int /\ rd' \in Int /\ rcvd' \in Int /\ BufCap \in Int
    BY <1>1
  <2> QED
    BY <1>2, <2>1, WindowShrinks
<1> QED
  BY <1>3, <1>4, <1>5 DEF Input

(* A callback that parses a header ends in one of three ways. *)
LEMMA HeaderStep ==
  ASSUME IInv, NEW callback \in ReadCallbacks, ReadMore(callback),
         NEW parser \in Parser, parser.last <= rd,
         NEW o \in ParseSome(stream, parser, rd, rcvd'), pa' = o.pa,
         pconf' \in Servers \cup {NoConf},
         \/ _dispatch(o.rd)
         \/ \E next \in ReadCallbacks : AwaitHeader(next, o)
         \/ NoBody(o.rd) /\ child' = child /\ \E code : Throw(code, resp_file)
  PROVE  Control' /\ Input'
<1>1. /\ ~resp_file /\ child = NoChild /\ Control /\ resp_file \in BOOLEAN
      /\ stream' = stream /\ stream \in Seq(Symbol)
      /\ rd \in Nat /\ rcvd' \in Nat /\ rd <= rcvd' /\ rcvd' <= Len(stream)
      /\ rcvd' - rd <= BufCap
  BY ReadMoreType DEF IInv, Control
<1>2. pa' \in Parser /\ o.rd \in rd..rcvd' /\ pa'.last <= o.rd
  BY <1>1, ParseSomeType
<1>3. /\ o.rd \in Nat /\ pa'.last \in Nat /\ BufCap \in Nat /\ Len(stream) \in Nat
      /\ rd <= o.rd /\ o.rd <= rcvd'
  BY <1>1, <1>2, BufAssumption DEF Parser
<1>4. rcvd' - o.rd <= BufCap /\ pa'.last <= Len(stream)
  <2>1. o.rd \in Int /\ rd \in Int /\ rcvd' \in Int /\ BufCap \in Int
    BY <1>1, <1>3
  <2>2. rcvd' - o.rd <= BufCap
    BY <1>1, <1>3, <2>1, WindowShrinks
  <2>3. pa'.last <= Len(stream)
    BY <1>1, <1>2, <1>3
  <2> QED
    BY <2>2, <2>3
<1>5. chunk_streamer \in Streamer /\ in_file \subseteq 1..rd
  BY DEF IInv, Input
<1>6. chunk_streamer' \in Streamer /\ rd' \in o.rd..rcvd' /\ in_file' \subseteq 1..rd'
  <2>1. CASE _dispatch(o.rd)
    BY <1>1, <1>2, <1>4, <1>5, <2>1, DispatchInput
  <2>2. CASE NoBody(o.rd)
    <3>1. 1..rd \subseteq 1..o.rd /\ o.rd \in o.rd..rcvd'
      BY <1>1, <1>3
    <3> QED
      BY <1>5, <2>2, <3>1 DEF NoBody
  <2> QED
    BY <2>1, <2>2 DEF AwaitHeader
<1>7. Input'
  BY <1>1, <1>2, <1>3, <1>4, <1>6, InputPreserved
<1>8. Control'
  <2>1. CASE _dispatch(o.rd)
    BY <1>1, <2>1, DispatchControl
  <2>2. CASE \E next \in ReadCallbacks : AwaitHeader(next, o)
    BY <1>1, <2>2, AwaitControl DEF AwaitHeader
  <2>3. CASE child' = child /\ \E code : Throw(code, resp_file)
    BY <1>1, <2>3, ThrowControl
  <2> QED
    BY <2>1, <2>2, <2>3
<1> QED
  BY <1>7, <1>8

(* get_server_conf is called with a host that was received. *)
LEMMA HostSelectsServer ==
  ASSUME IInv, NEW callback \in ReadCallbacks, ReadMore(callback),
         NEW o \in ParseSome(stream, pa, rd, rcvd'),
         NEW v \in HostServers(stream, o.pa)
  PROVE  v \in Servers
<1>1. /\ rd \in Nat /\ rcvd' \in Nat /\ rd <= rcvd' /\ rcvd' <= Len(stream)
      /\ stream \in Seq(Symbol) /\ Len(stream) \in Int
  BY ReadMoreType
<1>2. pa \in Parser /\ pa.last <= rd /\ HostsAreServers
  BY DEF IInv, Input
<1>3. o.pa \in Parser /\ o.rd \in rd..rcvd' /\ o.pa.last <= o.rd
  BY <1>1, <1>2, ParseSomeType
<1>4. o.rd \in Int /\ o.rd <= rcvd' /\ o.pa.last \in Int
  BY <1>1, <1>3 DEF Parser
<1>5. o.pa.last <= Len(stream)
  BY <1>1, <1>3, <1>4
<1>6. \A x \in Fields(stream, o.pa, "host") : x.t \in Servers
  BY <1>1, <1>2, <1>3, <1>5, FieldIsSymbol DEF HostsAreServers
<1> QED
  BY <1>6 DEF HostServers

(* _get_first_request keeps the invariant: it leaves _pconf NULL only while
   it is called again, or when the error page will be followed by a close. *)
LEMMA GetFirstRequestStep ==
  ASSUME IInv, GetFirstRequest
  PROVE  IInv'
<1>1. /\ ReadMore("_get_first_request") /\ _get_first_request
      /\ {"_get_first_request", "_get_request"} \subseteq ReadCallbacks
  BY DEF GetFirstRequest, ReadCallbacks
<1>2. /\ call_next = "_get_first_request" /\ rd \in Nat /\ rcvd' \in Nat
      /\ rd <= rcvd' /\ rcvd' <= Len(stream) /\ stream \in Seq(Symbol)
      /\ HostsAreServers' /\ Observed'
  BY <1>1, ReadMoreType
<1>3. pa \in Parser /\ pa.last <= rd /\ pconf \in Servers \cup {NoConf}
      /\ HostsAreServers /\ NullConf
  BY DEF IInv, Input
<1>4. PICK o \in ParseSome(stream, pa, rd, rcvd') :
        /\ pa' = o.pa
        /\ \/ o.err # None /\ UNCHANGED pconf /\ ParseError(o)
           \/ /\ o.err = None
              /\ pconf' \in HostServers(stream, o.pa)
              /\ \/ o.pa.status = "PREBODY" /\ _dispatch(o.rd)
                 \/ o.pa.status # "PREBODY" /\ AwaitHeader("_get_request", o)
                 \/ /\ "slots" \in Faults
                    /\ NoBody(o.rd) /\ UNCHANGED child /\ Throw("500", resp_file)
           \/ /\ o.err = None /\ Fields(stream, o.pa, "host") = {}
              /\ UNCHANGED pconf
              /\ \/ o.pa.status # "PREBODY" /\ AwaitHeader("_get_first_request", o)
                 \/ /\ o.pa.status = "PREBODY"
                    /\ NoBody(o.rd) /\ UNCHANGED child /\ Throw("400", resp_file)
  BY <1>1 DEF _get_first_request
<1>6. CASE pconf' = pconf /\ NoBody(o.rd) /\ child' = child
             /\ \E code : Throw(code, resp_file)
  <2>1. Control' /\ Input'
    BY <1>1, <1>3, <1>4, <1>6, HeaderStep
  <2>2. NullConf'
    BY <1>3, <1>6 DEF NullConf, NoBody, Throw
  <2> QED
    BY <1>2, <2>1, <2>2 DEF IInv
<1>7. CASE pconf' = pconf /\ AwaitHeader("_get_first_request", o)
  <2>1. Control' /\ Input'
    BY <1>1, <1>3, <1>4, <1>7, HeaderStep
  <2>2. NullConf'
    BY <1>3, <1>7 DEF NullConf, AwaitHeader, NoBody, Await
  <2> QED
    BY <1>2, <2>1, <2>2 DEF IInv
<1>8. CASE /\ pconf' \in HostServers(stream, o.pa)
           /\ \/ _dispatch(o.rd)
              \/ AwaitHeader("_get_request", o)
              \/ NoBody(o.rd) /\ child' = child /\ Throw("500", resp_file)
  <2>3. pconf' \in Servers
    BY <1>1, <1>8, HostSelectsServer
  <2>4. NullConf'
    BY <2>3, ConStateAssumption DEF NullConf
  <2>5. Control' /\ Input'
    BY <1>1, <1>3, <1>4, <1>8, <2>3, HeaderStep
  <2> QED
    BY <1>2, <2>4, <2>5 DEF IInv
<1> QED
  BY <1>4, <1>6, <1>7, <1>8 DEF ParseError

(* _get_request and _get_new_request keep the invariant. *)
LEMMA GetRequestStep ==
  ASSUME IInv, NEW callback \in {"_get_request", "_get_new_request"},
         ReadMore(callback), NEW parser \in Parser, parser.last <= rd,
         _get_request(parser)
  PROVE  IInv'
<1>1. callback \in ReadCallbacks /\ "_get_request" \in ReadCallbacks
  BY DEF ReadCallbacks
<1>2. call_next = callback /\ HostsAreServers' /\ Observed'
  BY <1>1, ReadMoreType
<1>3. pconf' = pconf /\ pconf \in Servers \cup {NoConf} /\ pconf # NoConf
  BY <1>2 DEF _get_request, IInv, Input, NullConf
<1>4. Control' /\ Input'
  BY <1>1, <1>3, HeaderStep DEF _get_request, ParseError
<1>5. NullConf'
  BY <1>3 DEF NullConf
<1> QED
  BY <1>2, <1>4, <1>5 DEF IInv

(* _read_body keeps the invariant. *)
LEMMA ReadBodyStep ==
  ASSUME IInv, ReadBody
  PROVE  IInv'
<1>1. /\ ReadMore("_read_body") /\ "_read_body" \in ReadCallbacks
      /\ pa' = pa /\ pconf' = pconf /\ _read_body(chunk_streamer, in_file, rd)
  BY DEF ReadBody, ReadCallbacks
<1>2. /\ call_next = "_read_body" /\ ~resp_file /\ child = NoChild
      /\ stream' = stream /\ stream \in Seq(Symbol)
      /\ rd \in Nat /\ rcvd' \in Nat /\ rd <= rcvd' /\ rcvd' <= Len(stream)
      /\ rcvd' - rd <= BufCap /\ HostsAreServers' /\ Observed'
  BY <1>1, ReadMoreType
<1>3. /\ pa \in Parser /\ pa.last \in Nat /\ pa.last <= rd /\ Control
      /\ pconf \in Servers \cup {NoConf} /\ pconf # NoConf
      /\ chunk_streamer \in Streamer /\ in_file \in SUBSET (1..rd)
  BY <1>2 DEF IInv, Input, NullConf, Parser
<1>4. Control'
  BY <1>1, <1>2, <1>3, ReadBodyControl
<1>5. Input'
  <2>1. pa'.last <= Len(stream) /\ rd \in 0..rcvd'
    BY <1>1, <1>2, <1>3
  <2>2. chunk_streamer' \in Streamer /\ rd' \in rd..rcvd' /\ in_file' \subseteq 1..rd'
    BY <1>1, <1>2, <1>3, <2>1, ReadBodyInput
  <2> QED
    BY <1>1, <1>2, <1>3, <2>2, InputPreserved
<1>6. NullConf'
  BY <1>1, <1>3 DEF NullConf
<1> QED
  BY <1>2, <1>4, <1>5, <1>6 DEF IInv

-----------------------------------------------------------------------------
(* Steps that leave the input where it is *)

(* launchServer closing the socket keeps the invariant. *)
LEMMA CloseStep ==
  ASSUME IInv, Close, UNCHANGED <<clientVars, rcvd>>, Observed'
  PROVE  IInv'
<1>1. /\ event_set' = "0" /\ child' = NoChild /\ resp_file' = FALSE /\ in_file' = {}
      /\ UNCHANGED <<call_next, pconf, pa, chunk_streamer, wr, rd, rcvd, stream>>
  BY DEF Close, clientVars
<1>2. Control'
  BY <1>1 DEF IInv, Control, Child, NoChild, PidMatchesCallback,
              EventMatchesCallback, RespFileMatchesResponse, Open
<1>3. Input' /\ HostsAreServers' /\ NullConf'
  BY <1>1 DEF IInv, Input, HostsAreServers, NullConf
<1> QED
  BY <1>2, <1>3 DEF IInv

(* The input part, when nothing of it changes. *)
LEMMA SameInput ==
  ASSUME IInv, UNCHANGED <<pconf, pa, chunk_streamer, in_file, rd, rcvd, stream>>
  PROVE  Input' /\ HostsAreServers'
  BY DEF IInv, Input, HostsAreServers

(* Closing a connection whose client has left keeps the invariant. *)
LEMMA RecvNothingStep ==
  ASSUME IInv, RecvNothing
  PROVE  IInv'
<1>1. Close /\ UNCHANGED <<clientVars, rcvd>> /\ Observed'
  BY DEF RecvNothing, clientVars, IInv, Observed
<1> QED
  BY <1>1, CloseStep

(* _wait_cgi keeps the invariant. *)
LEMMA WaitCgiStep ==
  ASSUME IInv, WaitCgi
  PROVE  IInv'
<1>1. /\ event_set = "POLLOUT" /\ call_next = "_wait_cgi"
      /\ UNCHANGED <<client, bounds, payloads, heads, nresp>>
      /\ UNCHANGED <<pconf, pa, chunk_streamer, in_file, rd, rcvd, stream>>
      /\ _wait_cgi(child.state, child.waited)
  BY DEF WaitCgi, Writable, clientVars
<1>2. Control /\ ~resp_file /\ child.waited \in Nat
      /\ child.state \in {"running", "exited", "signaled"} /\ pconf # NoConf
  BY <1>1 DEF IInv, Control, Child, PidMatchesCallback, RespFileMatchesResponse,
              NullConf, Open
<1>3. Control'
  BY <1>1, <1>2, WaitCgiControl
<1>4. Observed' /\ NullConf'
  BY <1>1, <1>2 DEF IInv, Observed, NullConf
<1> QED
  BY <1>1, <1>3, <1>4, SameInput DEF IInv

(* What write_some leaves in _wr: a response with blocks still to stream has
   its file open. *)
LEMMA WriteSomeType ==
  ASSUME IInv, call_next \in {"_write", "_write_then_close"}, event_set = "POLLOUT",
         NEW res, NEW w \in Written, WriteSome(res, w)
  PROVE  w \in Writer /\ (res = "PARTIAL_WRITE" /\ w.left > 0 => resp_file)
<1>1. wr \in Writer /\ (wr.left > 0 => resp_file)
  BY DEF IInv, Control, RespFileMatchesResponse, Open
<1>2. w \in Writer
  BY Constants DEF Written, Writer
<1>3. CASE SendHeader(res, w)
  BY <1>1, <1>2, <1>3 DEF SendHeader, Writer
<1>4. CASE SendBlock(res, w)
  BY <1>2, <1>4 DEF SendBlock
<1>5. CASE res = "WRITE_ERROR"
  BY <1>2, <1>5
<1> QED
  BY <1>3, <1>4, <1>5 DEF WriteSome

(* The counters of the observer stay numbers. *)
LEMMA ObservedStep ==
  ASSUME IInv, UNCHANGED clientVars, NEW res, CountHead(res), Finished(res)
  PROVE  Observed'
  BY DEF IInv, Observed, clientVars, CountHead, Finished

(* _write keeps the invariant, also when the page it streams fails half-
   way. *)
LEMMA WriteStep ==
  ASSUME IInv, NEW res, Write(res)
  PROVE  IInv'
<1>1. /\ event_set = "POLLOUT" /\ call_next = "_write"
      /\ UNCHANGED <<clientVars, rcvd>> /\ UNCHANGED clientVars /\ stream' = stream
  BY DEF Write, Writable, clientVars
<1>2. PICK w \in Written :
        /\ WriteSome(res, w)
        /\ CountHead(res) /\ Finished(res)
        /\ \/ res = "WRITE_ERROR" /\ Close
           \/ /\ UNCHANGED <<pconf, pa, chunk_streamer, in_file, child, rd>>
              /\ \/ res = "READ_ERROR"    /\ Throw("500", resp_file)
                 \/ res = "PARTIAL_WRITE" /\ SendMore(w)
                 \/ res = "OK_FINISHED"   /\ ResponseSent(w)
  BY DEF Write
<1>3. Observed'
  BY <1>1, <1>2, ObservedStep
<1>4. CASE Close
  BY <1>1, <1>3, <1>4, CloseStep
<1>5. CASE /\ UNCHANGED <<pconf, pa, chunk_streamer, in_file, child, rd>>
           /\ \/ Throw("500", resp_file)
              \/ res = "PARTIAL_WRITE" /\ SendMore(w)
              \/ ResponseSent(w)
  <2>1. child' = NoChild /\ resp_file \in BOOLEAN /\ pconf # NoConf
    BY <1>1, <1>5 DEF IInv, Control, PidMatchesCallback, NullConf
  <2>2. w \in Writer /\ (res = "PARTIAL_WRITE" /\ w.left > 0 => resp_file)
    BY <1>1, <1>2, WriteSomeType
  <2>3. Control'
    <3>1. CASE Throw("500", resp_file)
      BY <2>1, <3>1, ThrowControl
    <3>2. CASE res = "PARTIAL_WRITE" /\ SendMore(w)
      BY <1>1, <2>1, <2>2, <3>2, AnsweringControl DEF SendMore
    <3>3. CASE ResponseSent(w)
      BY <2>1, <2>2, <3>3 DEF ResponseSent, Control, ReadCallbacks, WriteCallbacks,
         Child, NoChild, PidMatchesCallback, EventMatchesCallback,
         RespFileMatchesResponse, Open
    <3> QED
      BY <1>5, <3>1, <3>2, <3>3
  <2>4. Input' /\ HostsAreServers'
    BY <1>1, <1>5, SameInput
  <2>5. NullConf'
    BY <1>5, <2>1 DEF NullConf
  <2> QED
    BY <1>3, <2>3, <2>4, <2>5 DEF IInv
<1> QED
  BY <1>2, <1>4, <1>5

(* _write_then_close keeps the invariant. *)
LEMMA WriteThenCloseStep ==
  ASSUME IInv, NEW res, WriteThenClose(res)
  PROVE  IInv'
<1>1. /\ event_set = "POLLOUT" /\ call_next = "_write_then_close"
      /\ UNCHANGED <<clientVars, rcvd>> /\ UNCHANGED clientVars /\ stream' = stream
  BY DEF WriteThenClose, Writable, clientVars
<1>2. PICK w \in Written :
        /\ WriteSome(res, w)
        /\ CountHead(res) /\ Finished(res)
        /\ \/ res # "PARTIAL_WRITE" /\ Close
           \/ /\ res = "PARTIAL_WRITE" /\ SendMore(w)
              /\ UNCHANGED <<pconf, pa, chunk_streamer, in_file, child, rd>>
  BY DEF WriteThenClose
<1>3. Observed'
  BY <1>1, <1>2, ObservedStep
<1>4. CASE Close
  BY <1>1, <1>3, <1>4, CloseStep
<1>5. CASE /\ res = "PARTIAL_WRITE" /\ SendMore(w)
           /\ UNCHANGED <<pconf, pa, chunk_streamer, in_file, child, rd>>
  <2>1. child' = NoChild /\ resp_file \in BOOLEAN
    BY <1>1, <1>5 DEF IInv, Control, PidMatchesCallback
  <2>2. w \in Writer /\ (w.left > 0 => resp_file)
    BY <1>1, <1>2, <1>5, WriteSomeType
  <2>3. Control'
    BY <1>1, <1>5, <2>1, <2>2, AnsweringControl DEF SendMore
  <2>4. Input' /\ HostsAreServers'
    BY <1>1, <1>5, SameInput
  <2>5. NullConf'
    BY <1>5 DEF IInv, NullConf, SendMore
  <2> QED
    BY <1>3, <2>3, <2>4, <2>5 DEF IInv
<1> QED
  BY <1>2, <1>4, <1>5

-----------------------------------------------------------------------------
(* The environment *)

(* Control depends on five variables of the connection only. *)
LEMMA ControlUnchanged ==
  ASSUME Control, UNCHANGED <<call_next, event_set, child, resp_file, wr>>
  PROVE  Control'
  BY DEF Control, PidMatchesCallback, EventMatchesCallback,
         RespFileMatchesResponse, Open

(* A request sent by the client keeps the invariant. *)
LEMMA ClientSendStep ==
  ASSUME IInv, ClientSend
  PROVE  IInv'
<1>1. PICK r \in Requests :
        /\ stream' = stream \o r.syms
        /\ bounds' = Append(bounds, Len(stream) + Len(r.syms))
        /\ payloads' = Append(payloads, {Len(stream) + i : i \in r.payload})
  BY DEF ClientSend
<1>2. UNCHANGED <<call_next, event_set, pconf, pa, chunk_streamer, in_file, child,
                  resp_file, wr, rd, rcvd, client, heads, nresp>>
  BY DEF ClientSend, conVars
<1>3. /\ r.syms \in Seq(Symbol) /\ r.payload \subseteq 1..Len(r.syms)
      /\ \A i \in 1..Len(r.syms) : r.syms[i].k = "host" => r.syms[i].t \in Servers
  BY ConStateAssumption
<1>4. stream \in Seq(Symbol) /\ Len(stream) \in Nat /\ Len(r.syms) \in Nat
  BY <1>3 DEF IInv, Input
<1>5. Control'
  BY <1>2, ControlUnchanged DEF IInv
<1>6. Input'
  <2>1. stream' \in Seq(Symbol) /\ Len(stream') = Len(stream) + Len(r.syms)
    BY <1>1, <1>3, <1>4
  <2>2. rcvd \in 0..Len(stream')
    BY <1>4, <2>1 DEF IInv, Input
  <2> QED
    BY <1>2, <2>1, <2>2 DEF IInv, Input
<1>7. HostsAreServers'
  <2> SUFFICES ASSUME NEW i \in 1..Len(stream'), stream'[i].k = "host"
               PROVE  stream'[i].t \in Servers
    BY DEF HostsAreServers
  <2>1. CASE i <= Len(stream)
    BY <1>1, <1>3, <1>4, <2>1 DEF IInv, HostsAreServers
  <2>2. CASE i > Len(stream)
    BY <1>1, <1>3, <1>4, <2>2
  <2> QED
    BY <1>4, <2>1, <2>2
<1>8. Observed'
  <2>1. {Len(stream) + i : i \in r.payload} \in SUBSET Nat
    BY <1>3, <1>4
  <2> QED
    BY <1>1, <1>2, <1>4, <2>1 DEF IInv, Observed
<1>9. NullConf'
  BY <1>2 DEF IInv, NullConf
<1> QED
  BY <1>5, <1>6, <1>7, <1>8, <1>9 DEF IInv

(* So does a client that closes or resets the connection. *)
LEMMA ClientLeavesStep ==
  ASSUME IInv, ClientLeaves
  PROVE  IInv'
<1>1. /\ client' \in {"shut", "reset"}
      /\ UNCHANGED <<call_next, event_set, pconf, pa, chunk_streamer, in_file, child,
                  resp_file, wr, rd, rcvd, stream, bounds, payloads, heads, nresp>>
  BY DEF ClientLeaves, conVars
<1>2. Control' /\ Input' /\ HostsAreServers'
  BY <1>1, ControlUnchanged, SameInput DEF IInv
<1>3. NullConf' /\ Observed'
  BY <1>1 DEF IInv, NullConf, Observed
<1> QED
  BY <1>2, <1>3 DEF IInv

(* So does a CGI child that ends. *)
LEMMA ChildEndsStep ==
  ASSUME IInv, ChildEnds
  PROVE  IInv'
<1>1. /\ child.state = "running"
      /\ \E state \in {"exited", "signaled"} : child' = [child EXCEPT !.state = state]
      /\ UNCHANGED <<call_next, event_set, pconf, pa, chunk_streamer, in_file,
                  resp_file, wr, rd, rcvd, stream, client, bounds, payloads,
                  heads, nresp>>
  BY DEF ChildEnds, clientVars
<1>2. Control'
  BY <1>1 DEF IInv, Control, Child, NoChild, PidMatchesCallback,
              EventMatchesCallback, RespFileMatchesResponse, Open
<1>3. Input' /\ HostsAreServers'
  BY <1>1, SameInput
<1>4. NullConf' /\ Observed'
  BY <1>1 DEF IInv, NullConf, Observed
<1> QED
  BY <1>2, <1>3, <1>4 DEF IInv

(* So does a step of somebody else. *)
LEMMA Stutter ==
  ASSUME IInv, UNCHANGED vars
  PROVE  IInv'
<1>1. UNCHANGED <<call_next, event_set, pconf, pa, chunk_streamer, in_file, child,
        resp_file, wr, rd, rcvd, stream, client, bounds, payloads, heads, nresp>>
  BY DEF vars, conVars, clientVars
<1>2. Control' /\ Input' /\ HostsAreServers'
  BY <1>1, ControlUnchanged, SameInput DEF IInv
<1>3. NullConf' /\ Observed'
  BY <1>1 DEF IInv, NullConf, Observed
<1> QED
  BY <1>2, <1>3 DEF IInv

(* The invariant is inductive. *)
LEMMA NextIInv == IInv /\ [Next]_vars => IInv'
<1> SUFFICES ASSUME IInv, [Next]_vars PROVE IInv'
  OBVIOUS
<1>1. CASE GetFirstRequest
  BY <1>1, GetFirstRequestStep
<1>2. CASE GetRequest
  <2>1. ReadMore("_get_request") /\ _get_request(pa)
    BY <1>2 DEF GetRequest
  <2>2. pa \in Parser /\ pa.last <= rd
    BY DEF IInv, Input
  <2> QED
    BY <2>1, <2>2, GetRequestStep
<1>3. CASE GetNewRequest
  <2>1. ReadMore("_get_new_request") /\ _get_request(NewParser(rd))
    BY <1>3 DEF GetNewRequest, _get_new_request
  <2>2. NewParser(rd) \in Parser /\ NewParser(rd).last <= rd
    BY DEF IInv, Input, NewParser, Parser, ParserStatus
  <2> QED
    BY <2>1, <2>2, GetRequestStep
<1>4. CASE ReadBody
  BY <1>4, ReadBodyStep
<1>5. CASE RecvNothing
  BY <1>5, RecvNothingStep
<1>6. CASE WaitCgi
  BY <1>6, WaitCgiStep
<1>7. CASE \E res \in Results : Write(res) \/ WriteThenClose(res)
  BY <1>7, WriteStep, WriteThenCloseStep
<1>8. CASE ClientSend
  BY <1>8, ClientSendStep
<1>9. CASE ClientLeaves
  BY <1>9, ClientLeavesStep
<1>10. CASE ChildEnds
  BY <1>10, ChildEndsStep
<1>11. CASE UNCHANGED vars
  BY <1>11, Stutter
<1> QED
  BY <1>1, <1>2, <1>3, <1>4, <1>5, <1>6, <1>7, <1>8, <1>9, <1>10, <1>11
     DEF Next, Worker

(* Every reachable state of a connection satisfies the inductive invariant,
   whatever the configuration, the buffer size and the requests. *)
THEOREM Invariant == Spec => []IInv
  BY InitIInv, NextIInv, PTL DEF Spec

(* Type correctness: in particular _in_buf never holds more than BUFSIZE -
   1, pos never passes end, and the temporary file only holds consumed
   input (Buf::read_more and every function that moves Buf::pos). *)
THEOREM TypeCorrect == Spec => []TypeOK
<1>1. IInv => TypeOK
  BY DEF IInv, Control, Input, Observed, TypeOK
<1> QED
  BY <1>1, Invariant, PTL

(* While _pconf is NULL the connection is at its first header or about to
   be closed, so _dispatch never dereferences it (_get_first_request,
   operator()). *)
THEOREM NullConfCorrect == Spec => []NullConf
<1>1. IInv => NullConf
  BY DEF IInv
<1> QED
  BY <1>1, Invariant, PTL

(* waitpid() is only called on a child of this connection, and no child
   survives the wait for it (CgiHandler::run, waitChild, _wait_cgi). *)
THEOREM PidCorrect == Spec => []PidMatchesCallback
<1>1. IInv => PidMatchesCallback
  BY DEF IInv, Control
<1> QED
  BY <1>1, Invariant, PTL

(* poll() is always asked for the event the next callback works on (what
   the callbacks return, and operator()). *)
THEOREM EventCorrect == Spec => []EventMatchesCallback
<1>1. IInv => EventMatchesCallback
  BY DEF IInv, Control
<1> QED
  BY <1>1, Invariant, PTL

(* _resp_file is open exactly as long as a response needs it: every open()
   finds it closed, and write_some never streams from a closed file
   (_prepare_page, _prepare_cgi_page, _prepare_error, _write). *)
THEOREM RespFileCorrect == Spec => []RespFileMatchesResponse
<1>1. IInv => RespFileMatchesResponse
  BY DEF IInv, Control
<1> QED
  BY <1>1, Invariant, PTL
=============================================================================
