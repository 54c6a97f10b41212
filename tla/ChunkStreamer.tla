---------------------------- MODULE ChunkStreamer ----------------------------
(***************************************************************************)
(* ChunkStreamer: the body of a request, moved from the input window       *)
(* (rd, hi] of s into the request's temporary file.                        *)
(*                                                                         *)
(* A streamer is [status, rem, min] (_status, _rem_chunk_size and          *)
(* _min_expected_size).  The functions are written over a record           *)
(*    c = [st : streamer, rd : offset, got : positions stored, res]        *)
(* and map one such record to the set of its successors; res is "run"      *)
(* while the function goes on, and otherwise what it returned ("MORE",     *)
(* "DONE") or the HttpError it threw.                                      *)
(***************************************************************************)
EXTENDS Buf

CONSTANT Faults        \* the operating system calls that may fail

StreamerStatus == {"CHUNK_PREFIX", "CHUNK_PAYLOAD", "CRLF", "TRAILER", "DONE"}

Streamer == [status : StreamerStatus, rem : Int, min : Int]

NewStreamer == [status |-> "CHUNK_PREFIX", rem |-> 0, min |-> 0]

Call(st, rd) == [st |-> st, rd |-> rd, got |-> {}, res |-> "run"]

Goto(c, status)        == [c EXCEPT !.st.status = status]
Return(c, status, res) == [Goto(c, status) EXCEPT !.res = res]
Raise(c, code)         == [c EXCEPT !.res = code]

(* The function is still running, at this label of its switch.  Between    *)
(* two returns st.status names the label reached; the code assigns _status *)
(* only when it returns.                                                   *)
At(c, status) == c.res = "run" /\ c.st.status = status

(* _get_chunk_size, and the lines of read_some_chunked that follow it      *)
SizeRead(c, n, e) ==
  [st  |-> [status |-> IF n = 0 THEN "TRAILER" ELSE "CHUNK_PAYLOAD",
            rem    |-> n,
            min    |-> c.st.min + n],
   rd  |-> e,
   got |-> c.got,
   res |-> c.res]

ChunkSize(s, c, e) ==
  IF e = c.rd + 2 /\ s[c.rd+1].k = "size" THEN SizeRead(c, s[c.rd+1].n, e)
  ELSE Raise(c, "400")

GetChunkSize(s, c, hi) ==
  IF ~At(c, "CHUNK_PREFIX") THEN {c}
  ELSE IF Crlf(s, c.rd, hi) = {}
  THEN {IF Full(c.rd, hi) THEN Raise(c, "500") ELSE Return(c, "CHUNK_PREFIX", "MORE")}
  ELSE {ChunkSize(s, c, e) : e \in Crlf(s, c.rd, hi)}

(* Bug: the size limit is not checked. *)
CheckMaxSizeNever(c, max) == c

(* The size limit, checked before a chunk's payload is read.               *)
CheckMaxSize(c, max) ==
  IF At(c, "CHUNK_PAYLOAD") /\ max > 0 /\ c.st.min > max THEN Raise(c, "413") ELSE c

(* Bug: everything in the buffer is taken for payload. *)
PayloadSizesAll(c, hi) == {hi - c.rd}

(* Bug: the rest of the chunk is written whether it has arrived or not. *)
PayloadSizesNoMin(c, hi) == {c.st.rem}

(* _stream_chunk_payload: min(_rem_chunk_size, data_size) bytes are written*)
(* to the file; the write may fail.                                        *)
PayloadSizes(c, hi) ==
  {v \in 0..hi - c.rd : v = c.st.rem \/ (v < c.st.rem /\ v = hi - c.rd)}

Stored(c, w) ==
  [st  |-> [c.st EXCEPT !.rem = @ - w],
   rd  |-> c.rd + w,
   got |-> c.rd+1..c.rd+w,
   res |-> c.res]

StreamChunkPayload(c, hi) ==
  {Stored(c, w) : w \in PayloadSizes(c, hi)}
  \cup (IF "disk" \in Faults THEN {Raise(c, "500")} ELSE {})

AfterPayload(d, next) ==
  IF d.res # "run" THEN d
  ELSE IF d.st.rem > 0 THEN Return(d, "CHUNK_PAYLOAD", "MORE") ELSE next

ReadChunkPayload(c, hi) ==
  IF ~At(c, "CHUNK_PAYLOAD") THEN {c}
  ELSE {AfterPayload(d, Goto(d, "CRLF")) : d \in StreamChunkPayload(c, hi)}

(* _expect_crlf                                                            *)
ExpectCrlf(s, c, hi) ==
  IF ~At(c, "CRLF") THEN c
  ELSE IF hi = c.rd THEN Return(c, "CRLF", "MORE")
  ELSE IF IsNL(s[c.rd+1]) THEN [Goto(c, "TRAILER") EXCEPT !.rd = @ + 1]
  ELSE Raise(c, "400")

(* _discard_trailer: up to and including the first empty line; without one *)
(* every complete line of the window is dropped.                           *)
EmptyLines(s, lo, hi) ==
  {e \in lo+1..hi : IsNL(s[e]) /\ (e = lo + 1 \/ IsNL(s[e-1]))}

LineStarts(s, lo, hi) ==
  {p \in lo..hi : (p = lo \/ IsNL(s[p])) /\ \A i \in p+1..hi : ~IsNL(s[i])}

(* Bug: the empty line that ends the body is left in the buffer. *)
DiscardTrailerShort(s, c, hi) ==
  LET empty == EmptyLines(s, c.rd, hi)
  IN  IF ~At(c, "TRAILER") THEN {c}
      ELSE IF empty = {}
      THEN {[Return(c, "TRAILER", "MORE") EXCEPT !.rd = p] :
              p \in LineStarts(s, c.rd, hi)}
      ELSE {[Return(c, "TRAILER", "DONE") EXCEPT !.rd = e - 1] :
              e \in {d \in empty : \A f \in empty : d <= f}}

DiscardTrailer(s, c, hi) ==
  LET empty == EmptyLines(s, c.rd, hi)
  IN  IF ~At(c, "TRAILER") THEN {c}
      ELSE IF empty = {}
      THEN {[Return(c, "TRAILER", "MORE") EXCEPT !.rd = p] :
              p \in LineStarts(s, c.rd, hi)}
      ELSE {[Return(c, "TRAILER", "DONE") EXCEPT !.rd = e] :
              e \in {d \in empty : \A f \in empty : d <= f}}

(* read_some_chunked.  DONE is returned with _status left at TRAILER, and  *)
(* after the CRLF of a chunk the status becomes TRAILER, never again       *)
(* CHUNK_PREFIX.                                                           *)
ReadSomeChunked(s, c, hi, max) ==
  LET prefixed == {CheckMaxSize(d, max) : d \in GetChunkSize(s, c, hi)}
      stored   == UNION {ReadChunkPayload(d, hi) : d \in prefixed}
      ended    == {ExpectCrlf(s, d, hi) : d \in stored}
  IN  UNION {DiscardTrailer(s, d, hi) : d \in ended}

(* read_some_single: a body of known length is one chunk.                  *)
ReadSomeSingle(c, hi) ==
  {AfterPayload(d, Return(d, "DONE", "DONE")) : d \in StreamChunkPayload(c, hi)}
=============================================================================
