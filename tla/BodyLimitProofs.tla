--------------------------- MODULE BodyLimitProofs ---------------------------
(***************************************************************************)
(* The size of a body: the temporary file never holds more than max_body().*)
(*                                                                         *)
(* BodyWithinLimit is not inductive: a body is stored over many calls of   *)
(* _read_body, and nothing is compared with the limit once the size is     *)
(* known.  What makes it true is a budget: between two calls, what is      *)
(* stored and what is still to come fit together (Fits), from the moment   *)
(* the size is read to the last byte.                                      *)
(***************************************************************************)
EXTENDS ConStateProofs, FiniteSetTheorems

(* There is room for what is still to come of the body, and for nothing    *)
(* more.                                                                   *)
Budget(rem, file, max) == rem \in Nat /\ Cardinality(file) + rem <= max

(* Between two calls of _read_body: either the size of the body is not     *)
(* known, and nothing is stored yet, or it is, and it fits.                *)
Fits(st, file, max) ==
  \/ st.status = "CHUNK_PREFIX" /\ file = {} /\ st.min \in Nat
  \/ st.status # "CHUNK_PREFIX" /\ Budget(st.rem, file, max)

(* A server is selected, and it limits the size of a body. *)
Limited == pconf # NoConf /\ MaxBody[pconf] > 0

(* The limit holds, with the budget that makes it hold; nothing is stored  *)
(* before a server is selected.                                            *)
BodyFits ==
  /\ pconf = NoConf => in_file = {}
  /\ Limited => Cardinality(in_file) <= MaxBody[pconf]
  /\ Limited /\ call_next = "_read_body"
       => Fits(chunk_streamer, in_file, MaxBody[pconf])

(* operator>> into a size_t: a chunk size is never negative.               *)
SizesAreNatural ==
  \A i \in 1..Len(stream) : stream[i].k = "size" => stream[i].n \in Nat

(* The Host header that selects a server ends the calls of                 *)
(* _get_first_request.                                                     *)
FirstRequest == call_next = "_get_first_request" => pconf = NoConf

(* The inductive invariant *)
BodyInv == IInv /\ SizesAreNatural /\ FirstRequest /\ BodyFits

(* The temporary file holds finitely many bytes. *)
LEMMA FileIsFinite ==
  ASSUME NEW r \in Nat, NEW file \in SUBSET (1..r)
  PROVE  IsFiniteSet(file) /\ Cardinality(file) \in Nat
<1>1. IsFiniteSet(1..r)
  BY FS_Interval
<1> QED
  BY <1>1, FS_Subset, FS_CardinalityType

(* Storing w bytes adds at most w to the file. *)
LEMMA FileGrows ==
  ASSUME NEW file, IsFiniteSet(file), NEW lo \in Nat, NEW w \in Nat
  PROVE  /\ Cardinality(file \cup (lo+1..lo+w)) \in Nat
         /\ Cardinality(file \cup (lo+1..lo+w)) <= Cardinality(file) + w
<1> DEFINE new == lo+1..lo+w
<1>1. IsFiniteSet(new) /\ Cardinality(new) = w
  BY FS_Interval
<1>2. IsFiniteSet(file) /\ Cardinality(file) \in Nat
  BY FS_CardinalityType
<1> HIDE DEF new
<1>3. IsFiniteSet(file \cap new) /\ Cardinality(file \cap new) \in Nat
  BY <1>1, FS_Subset, FS_CardinalityType
<1>4. /\ IsFiniteSet(file \cup new)
      /\ Cardinality(file \cup new) = Cardinality(file) + w - Cardinality(file \cap new)
  BY <1>1, <1>2, FS_Union
<1>5. Cardinality(file \cup new) \in Nat
  BY <1>4, FS_CardinalityType
<1>6. Cardinality(file \cup new) <= Cardinality(file) + w
  BY <1>2, <1>3, <1>4
<1> QED
  BY <1>5, <1>6 DEF new

-----------------------------------------------------------------------------
(* One call of _read_body                                                  *)

(* What a call may have done when it ends or throws *)
Kept(c, file, max) ==
  /\ Cardinality(file \cup c.got) <= max
  /\ c.res \in {"run", "MORE"} => Fits(c.st, file \cup c.got, max)

(* _stream_chunk_payload never stores more than _rem_chunk_size. *)
LEMMA PayloadFits ==
  ASSUME NEW lo \in Nat, NEW hi \in Nat, NEW c \in CallRecord(lo, hi),
         NEW file, IsFiniteSet(file), NEW max \in Nat,
         c.got = {}, Budget(c.st.rem, file, max),
         NEW d \in StreamChunkPayload(c, hi)
  PROVE  /\ d \in CallRecord(lo, hi)
         /\ d.res # "run" \/ Budget(d.st.rem, file \cup d.got, max)
         /\ Cardinality(file \cup d.got) <= max
         /\ d.res = c.res \/ d.res = "500"
<1>0. Cardinality(file) \in Nat /\ c.st.rem \in Nat /\ c.rd \in Nat
      /\ Cardinality(file) + c.st.rem <= max
  BY FS_CardinalityType, CallFields DEF Budget
<1>1. d \in CallRecord(lo, hi)
  BY PayloadType
<1>2. CASE d = Raise(c, "500")
  <2>1. d.got = {} /\ d.res = "500"
    BY <1>2, CallFields DEF Raise
  <2>2. file \cup {} = file /\ Cardinality(file) <= max
    BY <1>0
  <2> QED
    BY <1>1, <2>1, <2>2
<1>3. ASSUME NEW w \in PayloadSizes(c, hi), d = Stored(c, w)
      PROVE  /\ Budget(d.st.rem, file \cup d.got, max) /\ d.res = c.res
             /\ Cardinality(file \cup d.got) <= max
  <2>1. w \in Nat /\ w <= c.st.rem
    BY <1>0, <1>3 DEF PayloadSizes
  <2>2. d.st.rem = c.st.rem - w /\ d.got = c.rd+1..c.rd+w /\ d.res = c.res
    BY <1>3, CallFields DEF Stored, Streamer
  <2>3. /\ Cardinality(file \cup d.got) \in Nat
        /\ Cardinality(file \cup d.got) <= Cardinality(file) + w
    BY <1>0, <2>1, <2>2, FileGrows
  <2>4. d.st.rem \in Nat /\ Cardinality(file \cup d.got) + d.st.rem <= max
    BY <1>0, <2>1, <2>2, <2>3
  <2>5. Cardinality(file \cup d.got) <= max
    BY <2>3, <2>4
  <2> QED
    BY <2>2, <2>4, <2>5 DEF Budget
<1> QED
  BY <1>1, <1>2, <1>3 DEF StreamChunkPayload

(* The test of _rem_chunk_size keeps the budget. *)
LEMMA AfterPayloadFits ==
  ASSUME NEW lo \in Nat, NEW hi \in Nat, NEW d \in CallRecord(lo, hi),
         NEW file, NEW max \in Nat, NEW status \in {"CRLF", "DONE"},
         NEW next \in {Goto(d, status), Return(d, status, "DONE")},
         Cardinality(file \cup d.got) <= max,
         d.res = "run" \/ d.res = "500",
         d.res # "run" \/ Budget(d.st.rem, file \cup d.got, max)
  PROVE  Kept(AfterPayload(d, next), file, max)
<1>1. CASE d.res # "run"
  BY <1>1 DEF AfterPayload, Kept
<1>2. CASE d.res = "run" /\ d.st.rem > 0
  <2>1. AfterPayload(d, next) = Return(d, "CHUNK_PAYLOAD", "MORE")
    BY <1>2 DEF AfterPayload
  <2>2. /\ Return(d, "CHUNK_PAYLOAD", "MORE").got = d.got
        /\ Return(d, "CHUNK_PAYLOAD", "MORE").st.status = "CHUNK_PAYLOAD"
        /\ Return(d, "CHUNK_PAYLOAD", "MORE").st.rem = d.st.rem
    BY CallFields DEF Return, Goto, Streamer
  <2> QED
    BY <1>2, <2>1, <2>2 DEF Kept, Fits
<1>3. CASE d.res = "run" /\ ~(d.st.rem > 0)
  <2>1. AfterPayload(d, next) = next
    BY <1>3 DEF AfterPayload
  <2>2. next.got = d.got /\ next.st.status = status /\ next.st.rem = d.st.rem
    <3>1. CASE next = Goto(d, status)
      BY <3>1, CallFields DEF Goto, Streamer
    <3>2. CASE next = Return(d, status, "DONE")
      BY <3>2, CallFields DEF Return, Goto, Streamer
    <3> QED
      BY <3>1, <3>2
  <2> QED
    BY <1>3, <2>1, <2>2 DEF Kept, Fits
<1> QED
  BY <1>1, <1>2, <1>3

(* read_some_single keeps within a size that fits. *)
LEMMA SingleFits ==
  ASSUME NEW lo \in Nat, NEW hi \in Nat, NEW c \in CallRecord(lo, hi),
         NEW file, IsFiniteSet(file), NEW max \in Nat,
         c.got = {}, c.res = "run", Budget(c.st.rem, file, max),
         NEW d \in ReadSomeSingle(c, hi)
  PROVE  Kept(d, file, max)
<1>1. PICK e \in StreamChunkPayload(c, hi) : d = AfterPayload(e, Return(e, "DONE", "DONE"))
  BY DEF ReadSomeSingle
<1>2. /\ e \in CallRecord(lo, hi)
      /\ e.res # "run" \/ Budget(e.st.rem, file \cup e.got, max)
      /\ Cardinality(file \cup e.got) <= max
      /\ e.res = c.res \/ e.res = "500"
  BY PayloadFits
<1> QED
  BY <1>1, <1>2, AfterPayloadFits

(* A file that fits is within the limit. *)
LEMMA FitsBound ==
  ASSUME NEW st, NEW file, IsFiniteSet(file), NEW max \in Nat, Fits(st, file, max)
  PROVE  Cardinality(file) <= max
<1>1. Cardinality(file) \in Nat /\ Cardinality({}) = 0
  BY FS_CardinalityType, FS_EmptySet
<1>2. CASE file = {}
  BY <1>1, <1>2
<1>3. CASE Budget(st.rem, file, max)
  BY <1>1, <1>3 DEF Budget
<1> QED
  BY <1>2, <1>3 DEF Fits

(* An empty file leaves room for any body within the limit. *)
LEMMA EmptyFits ==
  ASSUME NEW max \in Nat, NEW n \in Nat, n <= max
  PROVE  Budget(n, {}, max)
  BY FS_EmptySet DEF Budget

(* read_some_chunked, one function after the other.  A chunk whose size    *)
(* was just read has not been compared with the limit yet.                 *)
Sized(c, file, max) ==
  /\ c.got = {}
  /\ \/ Fits(c.st, file, max)
     \/ /\ c.res = "run" /\ c.st.status = "CHUNK_PAYLOAD" /\ file = {}
        /\ c.st.rem \in Nat /\ c.st.rem <= c.st.min

(* _get_chunk_size stores nothing, and adds the size to _min_expected_size. *)
LEMMA GetChunkSizeFits ==
  ASSUME NEW s \in Seq(Symbol), NEW lo \in Nat, NEW hi \in Nat, hi <= Len(s),
         \A i \in 1..Len(s) : s[i].k = "size" => s[i].n \in Nat,
         NEW c \in CallRecord(lo, hi), NEW file, NEW max \in Nat,
         c.got = {}, Fits(c.st, file, max),
         NEW d \in GetChunkSize(s, c, hi)
  PROVE  Sized(d, file, max)
<1>1. c.rd \in Nat
  BY CallFields
<1>2. \A x : Sized(Raise(c, x), file, max)
  <2> TAKE x
  <2>1. Raise(c, x).got = {} /\ Raise(c, x).st = c.st
    BY CallFields DEF Raise
  <2> QED
    BY <2>1 DEF Sized
<1>3. CASE d = c
  BY <1>3 DEF Sized
<1>4. CASE At(c, "CHUNK_PREFIX") /\ d = Return(c, "CHUNK_PREFIX", "MORE")
  <2>1. d.got = {} /\ d.st = c.st
    BY <1>4, CallFields DEF Return, Goto, Streamer, At
  <2> QED
    BY <2>1 DEF Sized
<1>5. ASSUME NEW e \in Crlf(s, c.rd, hi), e = c.rd + 2, s[c.rd+1].k = "size",
             At(c, "CHUNK_PREFIX"), d = SizeRead(c, s[c.rd+1].n, e)
      PROVE  Sized(d, file, max)
  <2>1. c.rd + 1 \in 1..Len(s)
    BY <1>1, <1>5 DEF Crlf
  <2>2. s[c.rd+1].n \in Nat
    BY <1>5, <2>1
  <2> DEFINE n == s[c.rd+1].n
  <2>3. file = {} /\ c.st.min \in Nat /\ c.res = "run"
    BY <1>5 DEF Fits, At
  <2>4. /\ d.got = {} /\ d.res = "run" /\ d.st.rem = n /\ d.st.min = c.st.min + n
        /\ d.st.status = IF n = 0 THEN "TRAILER" ELSE "CHUNK_PAYLOAD"
    BY <1>5, <2>3 DEF SizeRead
  <2>5. CASE n = 0
    BY <2>3, <2>4, <2>5, EmptyFits DEF Sized, Fits
  <2>6. CASE n # 0
    <3>1. n <= c.st.min + n
      BY <2>2, <2>3
    <3> QED
      BY <2>2, <2>3, <2>4, <2>6, <3>1 DEF Sized
  <2> QED
    BY <2>5, <2>6
<1> QED
  BY <1>2, <1>3, <1>4, <1>5 DEF GetChunkSize, ChunkSize

(* A chunk that passes the size check fits. *)
LEMMA CheckMaxSizeFits ==
  ASSUME NEW lo \in Nat, NEW hi \in Nat, NEW c \in CallRecord(lo, hi),
         NEW file, IsFiniteSet(file), NEW max \in Nat \ {0}, Sized(c, file, max)
  PROVE  CheckMaxSize(c, max).got = {} /\ Kept(CheckMaxSize(c, max), file, max)
<1> DEFINE d == CheckMaxSize(c, max)
<1>1. d.got = {} /\ d.st = c.st /\ (d = c \/ d.res = "413")
  BY CallFields DEF CheckMaxSize, Raise, Sized
<1>2. Cardinality(file) <= max /\ (d.res \in {"run", "MORE"} => Fits(d.st, file, max))
  <2>1. CASE Fits(c.st, file, max)
    BY <1>1, <2>1, FitsBound
  <2>2. CASE ~Fits(c.st, file, max)
    <3>1. /\ c.res = "run" /\ c.st.status = "CHUNK_PAYLOAD" /\ file = {}
          /\ c.st.rem \in Nat /\ c.st.rem <= c.st.min
      BY <2>2 DEF Sized
    <3>2. Cardinality(file) <= max
      BY <3>1, FS_EmptySet
    <3>3. CASE c.st.min > max
      BY <1>1, <3>1, <3>2, <3>3 DEF CheckMaxSize, At, Raise
    <3>4. CASE ~(c.st.min > max)
      <4>1. c.st.rem <= max
        BY <3>1, <3>4, CallFields DEF Streamer
      <4> QED
        BY <1>1, <3>1, <3>2, <4>1, EmptyFits DEF Fits
    <3> QED
      BY <3>3, <3>4
  <2> QED
    BY <2>1, <2>2
<1>3. file \cup d.got = file
  BY <1>1
<1> QED
  BY <1>1, <1>2, <1>3 DEF Kept

(* The payload case of read_some_chunked keeps the budget. *)
LEMMA ReadChunkPayloadFits ==
  ASSUME NEW lo \in Nat, NEW hi \in Nat, NEW c \in CallRecord(lo, hi),
         NEW file, IsFiniteSet(file), NEW max \in Nat,
         c.got = {}, Kept(c, file, max),
         NEW d \in ReadChunkPayload(c, hi)
  PROVE  Kept(d, file, max)
<1>1. CASE ~At(c, "CHUNK_PAYLOAD")
  BY <1>1 DEF ReadChunkPayload
<1>2. CASE At(c, "CHUNK_PAYLOAD")
  <2>1. PICK e \in StreamChunkPayload(c, hi) : d = AfterPayload(e, Goto(e, "CRLF"))
    BY <1>2 DEF ReadChunkPayload
  <2>2. Budget(c.st.rem, file, max)
    <3>1. file \cup c.got = file
      OBVIOUS
    <3> QED
      BY <1>2, <3>1 DEF At, Kept, Fits
  <2>3. /\ e \in CallRecord(lo, hi)
        /\ e.res # "run" \/ Budget(e.st.rem, file \cup e.got, max)
        /\ Cardinality(file \cup e.got) <= max
        /\ e.res = c.res \/ e.res = "500"
    BY <2>1, <2>2, PayloadFits, SMTT(30)
  <2>4. c.res = "run"
    BY <1>2 DEF At
  <2> QED
    BY <2>1, <2>3, <2>4, AfterPayloadFits
<1> QED
  BY <1>1, <1>2

(* A case that stores nothing keeps the budget. *)
LEMMA KeptAlong ==
  ASSUME NEW c, NEW d, NEW file, NEW max, Kept(c, file, max), c.res = "run",
         c.st.status # "CHUNK_PREFIX", d.got = c.got,
         \/ d.res \notin {"run", "MORE"}
         \/ d.st.rem = c.st.rem /\ d.st.status # "CHUNK_PREFIX"
  PROVE  Kept(d, file, max)
  BY DEF Kept, Fits

(* _expect_crlf keeps the budget. *)
LEMMA ExpectCrlfFits ==
  ASSUME NEW s, NEW lo \in Nat, NEW hi \in Nat, NEW c \in CallRecord(lo, hi),
         NEW file, NEW max, Kept(c, file, max)
  PROVE  Kept(ExpectCrlf(s, c, hi), file, max)
<1>1. CASE At(c, "CRLF")
  <2>1. c.res = "run" /\ c.st.status # "CHUNK_PREFIX"
    BY <1>1 DEF At
  <2> DEFINE d == ExpectCrlf(s, c, hi)
  <2>2. /\ d.got = c.got
        /\ \/ d.res \notin {"run", "MORE"}
           \/ d.st.rem = c.st.rem /\ d.st.status # "CHUNK_PREFIX"
    <3>1. CASE d = Return(c, "CRLF", "MORE")
      BY <3>1, CallFields DEF Return, Goto, Streamer
    <3>2. CASE d = [Goto(c, "TRAILER") EXCEPT !.rd = @ + 1]
      BY <3>2, CallFields DEF Goto, Streamer
    <3>3. CASE d = Raise(c, "400")
      BY <3>3, CallFields DEF Raise
    <3> QED
      BY <1>1, <3>1, <3>2, <3>3 DEF ExpectCrlf
  <2> HIDE DEF d
  <2>3. Kept(d, file, max)
    <3>1. /\ Kept(c, file, max) /\ c.res = "run" /\ c.st.status # "CHUNK_PREFIX"
          /\ d.got = c.got
      BY <2>1, <2>2
    <3>2. CASE d.res \notin {"run", "MORE"}
      BY <3>1, <3>2 DEF Kept
    <3>3. CASE d.st.rem = c.st.rem /\ d.st.status # "CHUNK_PREFIX"
      BY <3>1, <3>3, KeptAlong
    <3> QED
      BY <2>2, <3>2, <3>3
  <2> QED
    BY <2>3 DEF d
<1> QED
  BY <1>1 DEF ExpectCrlf

(* _discard_trailer keeps the budget. *)
LEMMA DiscardTrailerFits ==
  ASSUME NEW s, NEW lo \in Nat, NEW hi \in Nat, NEW c \in CallRecord(lo, hi),
         NEW file, NEW max, Kept(c, file, max), NEW d \in DiscardTrailer(s, c, hi)
  PROVE  Kept(d, file, max)
<1>1. CASE At(c, "TRAILER")
  <2>1. \E res : \E r : d = [Return(c, "TRAILER", res) EXCEPT !.rd = r]
    BY <1>1 DEF DiscardTrailer
  <2>2. d.got = c.got /\ d.st.rem = c.st.rem /\ d.st.status = "TRAILER"
    BY <2>1, CallFields DEF Return, Goto, Streamer
  <2>3. c.res = "run" /\ c.st.status # "CHUNK_PREFIX"
    BY <1>1 DEF At
  <2> QED
    BY <2>2, <2>3, KeptAlong
<1> QED
  BY <1>1 DEF DiscardTrailer

(* read_some_chunked keeps the budget, from any state it is resumed in. *)
LEMMA ChunkedFits ==
  ASSUME NEW s \in Seq(Symbol), NEW lo \in Nat, NEW hi \in Nat, hi <= Len(s),
         \A i \in 1..Len(s) : s[i].k = "size" => s[i].n \in Nat,
         NEW c \in CallRecord(lo, hi), NEW file, IsFiniteSet(file),
         NEW max \in Nat \ {0}, c.got = {}, Fits(c.st, file, max),
         NEW d \in ReadSomeChunked(s, c, hi, max)
  PROVE  Kept(d, file, max)
<1> DEFINE prefixed == {CheckMaxSize(e, max) : e \in GetChunkSize(s, c, hi)}
           stored   == UNION {ReadChunkPayload(e, hi) : e \in prefixed}
           ended    == {ExpectCrlf(s, e, hi) : e \in stored}
<1>1. \A e \in prefixed : e \in CallRecord(lo, hi) /\ e.got = {} /\ Kept(e, file, max)
  BY GetChunkSizeType, GetChunkSizeFits, CheckMaxSizeType, CheckMaxSizeFits
<1> HIDE DEF prefixed
<1>2. \A e \in stored : e \in CallRecord(lo, hi) /\ Kept(e, file, max)
  BY <1>1, ReadChunkPayloadType, ReadChunkPayloadFits
<1> HIDE DEF stored
<1>3. \A e \in ended : e \in CallRecord(lo, hi) /\ Kept(e, file, max)
  BY <1>2, ExpectCrlfType, ExpectCrlfFits
<1>4. PICK e \in ended : d \in DiscardTrailer(s, e, hi)
  BY DEF ReadSomeChunked, ended, stored, prefixed
<1> HIDE DEF ended
<1> QED
  BY <1>3, <1>4, DiscardTrailerFits

(* A Content-Length within the limit fits; a larger one throws before
   anything is stored. *)
LEMMA LengthFits ==
  ASSUME NEW hi \in Nat, NEW st \in Streamer, NEW r \in 0..hi, NEW x, x.n \in Int,
         NEW file, IsFiniteSet(file), NEW max \in Nat \ {0}, Fits(st, file, max),
         NEW d \in ReadLength(Call(st, r), x, max), rcvd' = hi
  PROVE  Kept(d, file, max)
<1> DEFINE c == Call(st, r)
<1>1. c.st = st /\ c.got = {} /\ c.res = "run" /\ r \in Nat /\ r <= hi
  BY DEF Call
<1>2. c \in CallRecord(r, hi)
  BY <1>1, NewCallIsRecord
<1>3. Cardinality(file) <= max /\ file \cup {} = file
  BY FitsBound
<1>4. CASE st.status # "CHUNK_PREFIX"
  <2>1. Budget(c.st.rem, file, max) /\ d \in ReadSomeSingle(c, hi)
    BY <1>1, <1>4 DEF Fits, ReadLength
  <2> HIDE DEF c
  <2> QED
    BY <1>1, <1>2, <2>1, SingleFits
<1>5. CASE st.status = "CHUNK_PREFIX" /\ \E code \in {"400", "413"} : d = Raise(c, code)
  <2>1. d.got = {} /\ d.res \notin {"run", "MORE"}
    BY <1>1, <1>5 DEF Raise
  <2> QED
    BY <1>3, <2>1 DEF Kept
<1>6. CASE /\ st.status = "CHUNK_PREFIX" /\ x.n >= 0 /\ x.n <= max
           /\ d \in ReadSomeSingle([c EXCEPT !.st.rem = x.n], hi)
  <2> DEFINE e == [c EXCEPT !.st.rem = x.n]
  <2>1. e \in CallRecord(r, hi)
    BY <1>1, CallIsRecord
  <2>2. e.got = {} /\ e.res = "run" /\ e.st.rem = x.n
    BY <1>1 DEF Call, Streamer
  <2>3. Budget(e.st.rem, file, max)
    BY <1>6, <2>2, EmptyFits DEF Fits
  <2> HIDE DEF e
  <2>4. d \in ReadSomeSingle(e, hi)
    BY <1>6 DEF e
  <2> QED
    BY <1>1, <2>1, <2>2, <2>3, <2>4, SingleFits
<1> QED
  BY <1>1, <1>4, <1>5, <1>6 DEF ReadLength

(* One call of _read_body, for each way a body is announced. *)
LEMMA OutcomesFit ==
  ASSUME stream \in Seq(Symbol), pa' \in Parser, pa'.last <= Len(stream),
         rcvd' \in Nat, rcvd' <= Len(stream), SizesAreNatural,
         NEW st \in Streamer, NEW r \in 0..rcvd', NEW file, IsFiniteSet(file),
         NEW max \in Nat \ {0}, max = MaxBody[pconf'], Fits(st, file, max),
         NEW d \in ReadBodyOutcomes(Call(st, r))
  PROVE  Kept(d, file, max)
<1> DEFINE c == Call(st, r)
<1>1. c.st = st /\ c.got = {} /\ c.res = "run" /\ r \in Nat /\ r <= rcvd'
  BY DEF Call
<1>2. c \in CallRecord(r, rcvd')
  BY <1>1, NewCallIsRecord
<1>3. CASE d \in ReadSomeChunked(stream, c, rcvd', max)
  <2> HIDE DEF c
  <2> QED
    BY <1>1, <1>2, <1>3, ChunkedFits DEF SizesAreNatural
<1>4. CASE \E x \in Fields(stream, pa', "length") : d \in ReadLength(c, x, max)
  <2>1. PICK x \in Fields(stream, pa', "length") : d \in ReadLength(c, x, max)
    BY <1>4
  <2>2. x.n \in Int
    BY FieldIsSymbol, SymbolSize
  <2> QED
    BY <2>1, <2>2, LengthFits
<1>5. CASE d = [c EXCEPT !.res = "DONE"]
  <2>1. d.got = {} /\ d.res \notin {"run", "MORE"}
    BY <1>1, <1>5 DEF Call
  <2>2. Cardinality(file) <= max /\ file \cup {} = file
    BY FitsBound
  <2> QED
    BY <2>1, <2>2 DEF Kept
<1> QED
  BY <1>3, <1>4, <1>5 DEF ReadBodyOutcomes

(* Where the callbacks lead *)
Answers == call_next' \in {"_wait_cgi", "_write", "_write_then_close"}

(* A response leads to _write. *)
LEMMA RespondAnswers ==
  ASSUME NEW left, NEW body, NEW open, Respond(left, body, open)
  PROVE  Answers
  BY DEF Respond, Answers

(* An error leads to one of the two writing callbacks. *)
LEMMA ThrowAnswers ==
  ASSUME NEW code, NEW open, Throw(code, open)
  PROVE  Answers
  BY DEF Throw, Answers

(* _wait_cgi leads to itself or to a writing callback. *)
LEMMA CgiAnswers ==
  ASSUME NEW state, NEW waited, _wait_cgi(state, waited)
  PROVE  Answers
<1>1. CASE call_next' = "_wait_cgi"
  BY <1>1 DEF Answers
<1> QED
  BY <1>1, RespondAnswers, ThrowAnswers DEF _wait_cgi, _prepare_cgi_page, ServeFile

(* _prepare_page never leads back to reading. *)
LEMMA PageAnswers == _prepare_page => Answers
  BY RespondAnswers, ThrowAnswers, CgiAnswers DEF _prepare_page, RunCgi, ServeFile

(* _read_body leads to an answer or to itself. *)
LEMMA ReadBodyAnswers ==
  ASSUME NEW st, NEW file, NEW r, _read_body(st, file, r)
  PROVE  Answers \/ call_next' = "_read_body"
  BY PageAnswers, ThrowAnswers DEF _read_body, Await

(* _dispatch leads to an answer or to _read_body. *)
LEMMA DispatchAnswers ==
  ASSUME NEW r, _dispatch(r)
  PROVE  Answers \/ call_next' = "_read_body"
  BY RespondAnswers, ThrowAnswers, PageAnswers, ReadBodyAnswers
     DEF _dispatch, StartBody

(* _read_body keeps the body within the limit. *)
LEMMA ReadBodyFits ==
  ASSUME stream \in Seq(Symbol), pa' \in Parser, pa'.last <= Len(stream),
         rcvd' \in Nat, rcvd' <= Len(stream), SizesAreNatural, pconf' # NoConf,
         pconf' \in Servers,
         NEW st \in Streamer, NEW r \in 0..rcvd', NEW file, IsFiniteSet(file),
         MaxBody[pconf'] > 0 => Fits(st, file, MaxBody[pconf']),
         _read_body(st, file, r)
  PROVE  BodyFits'
<1> SUFFICES ASSUME MaxBody[pconf'] > 0
             PROVE  /\ Cardinality(in_file') <= MaxBody[pconf']
                    /\ call_next' = "_read_body"
                         => Fits(chunk_streamer', in_file', MaxBody[pconf'])
  BY DEF BodyFits, Limited
<1> DEFINE max == MaxBody[pconf']
<1>1. max \in Nat \ {0}
  BY ConStateAssumption
<1>2. PICK c \in ReadBodyOutcomes(Call(st, r)) :
        /\ chunk_streamer' = c.st
        /\ in_file' \subseteq file \cup c.got
        /\ \/ /\ c.res = "MORE" /\ in_file' = file \cup c.got /\ Await("_read_body")
           \/ c.res = "DONE" /\ _prepare_page
           \/ c.res \in Codes /\ Throw(c.res, resp_file)
  BY CloseFile DEF _read_body
<1>3. Kept(c, file, max)
  BY <1>1, OutcomesFit
<1>4. CASE c.res = "MORE"
  BY <1>2, <1>3, <1>4 DEF Kept, Codes
<1>5. CASE c.res # "MORE"
  <2>1. call_next' # "_read_body"
    BY <1>2, <1>5, PageAnswers DEF Throw, Answers
  <2> DEFINE all == file \cup c.got
  <2>2. IsFiniteSet(all)
    <3>1. c.got \in SUBSET (1..rcvd')
      BY ReadBodyOutcomesType DEF CallRecord
    <3> QED
      BY <3>1, FileIsFinite, FS_Union
  <2>3. in_file' \in SUBSET all /\ Cardinality(all) <= max
    BY <1>2, <1>3 DEF Kept
  <2> HIDE DEF all
  <2>4. /\ Cardinality(in_file') \in Nat /\ Cardinality(all) \in Nat
        /\ Cardinality(in_file') <= Cardinality(all)
    BY <2>2, <2>3, FS_Subset, FS_CardinalityType
  <2> QED
    BY <1>1, <2>1, <2>3, <2>4
<1> QED
  BY <1>4, <1>5

-----------------------------------------------------------------------------
(* The steps of the connection                                             *)

(* A step that leaves the file alone keeps the body within the limit, also
   when it selects the server. *)
LEMMA UntouchedFits ==
  ASSUME BodyFits, in_file' = in_file, call_next' # "_read_body",
         pconf' \in Servers \cup {NoConf}, pconf' = pconf \/ pconf = NoConf
  PROVE  BodyFits'
<1>1. CASE pconf' = pconf
  BY <1>1 DEF BodyFits, Limited
<1>2. CASE pconf = NoConf
  <2>1. in_file' = {} /\ Cardinality(in_file') = 0
    BY <1>2, FS_EmptySet DEF BodyFits
  <2>2. pconf' # NoConf => MaxBody[pconf'] \in Nat
    BY ConStateAssumption
  <2> QED
    BY <2>1, <2>2 DEF BodyFits, Limited
<1> QED
  BY <1>1, <1>2

(* _dispatch keeps the body within the limit: openFile(0) truncates the
   file. *)
LEMMA DispatchFits ==
  ASSUME stream \in Seq(Symbol), pa' \in Parser, pa'.last <= Len(stream),
         rcvd' \in Nat, rcvd' <= Len(stream), SizesAreNatural,
         pconf' # NoConf, pconf' \in Servers, pconf' = pconf \/ pconf = NoConf,
         BodyFits, NEW r \in 0..rcvd', _dispatch(r)
  PROVE  BodyFits'
<1>1. CASE in_file' = in_file /\ call_next' # "_read_body"
  BY <1>1, UntouchedFits
<1>2. CASE _read_body(NewStreamer, {}, r)
  <2>1. NewStreamer \in Streamer /\ IsFiniteSet({})
    BY FS_EmptySet DEF NewStreamer, Streamer, StreamerStatus
  <2>2. Fits(NewStreamer, {}, MaxBody[pconf'])
    BY DEF Fits, NewStreamer
  <2> QED
    BY <1>2, <2>1, <2>2, ReadBodyFits
<1>3. Answers => call_next' # "_read_body"
  BY DEF Answers
<1> QED
  BY <1>1, <1>2, <1>3, RespondAnswers, ThrowAnswers, PageAnswers
     DEF _dispatch, StartBody, NoBody

(* A callback that parses a header keeps the body within the limit. *)
LEMMA HeaderFits ==
  ASSUME BodyInv, NEW callback \in ReadCallbacks, ReadMore(callback),
         NEW parser \in Parser, parser.last <= rd,
         NEW o \in ParseSome(stream, parser, rd, rcvd'), pa' = o.pa,
         pconf' \in Servers \cup {NoConf}, pconf' = pconf \/ pconf = NoConf,
         \/ _dispatch(o.rd) /\ pconf' # NoConf
         \/ \E next \in ReadCallbacks \ {"_read_body"} : AwaitHeader(next, o)
         \/ NoBody(o.rd) /\ \E code : Throw(code, resp_file)
  PROVE  BodyFits'
<1>1. /\ stream \in Seq(Symbol) /\ rd \in Nat /\ rcvd' \in Nat /\ rd <= rcvd'
      /\ rcvd' <= Len(stream) /\ BodyFits /\ SizesAreNatural /\ Len(stream) \in Nat
  BY ReadMoreType DEF BodyInv
<1>2. pa' \in Parser /\ o.rd \in rd..rcvd' /\ pa'.last <= o.rd
  BY <1>1, ParseSomeType
<1>3. o.rd \in 0..rcvd' /\ pa'.last <= Len(stream)
  BY <1>1, <1>2 DEF Parser
<1>4. CASE _dispatch(o.rd) /\ pconf' # NoConf
  BY <1>1, <1>2, <1>3, <1>4, DispatchFits
<1>5. CASE NoBody(o.rd) /\ call_next' # "_read_body"
  BY <1>1, <1>5, UntouchedFits DEF NoBody
<1>6. Answers => call_next' # "_read_body"
  BY DEF Answers
<1> QED
  BY <1>4, <1>5, <1>6, ThrowAnswers DEF AwaitHeader, Await

(* _get_first_request, whether or not the Host header has come. *)
LEMMA GetFirstRequestFits ==
  ASSUME BodyInv, GetFirstRequest
  PROVE  FirstRequest' /\ BodyFits'
<1>1. /\ ReadMore("_get_first_request")
      /\ {"_get_first_request", "_get_request"} \subseteq ReadCallbacks \ {"_read_body"}
      /\ "_get_first_request" \in ReadCallbacks
      /\ call_next = "_get_first_request"
  BY DEF GetFirstRequest, ReadMore, ReadCallbacks
<1>2. /\ pa \in Parser /\ pa.last <= rd /\ HostsAreServers /\ pconf = NoConf
      /\ NoConf \notin Servers
  BY <1>1, ConStateAssumption DEF BodyInv, IInv, Input, FirstRequest
<1>3. PICK o \in ParseSome(stream, pa, rd, rcvd') :
        /\ pa' = o.pa
        /\ \/ /\ pconf' = pconf
              /\ NoBody(o.rd) /\ \E code : Throw(code, resp_file)
           \/ pconf' = pconf /\ AwaitHeader("_get_first_request", o)
           \/ /\ pconf' \in HostServers(stream, o.pa)
              /\ \/ _dispatch(o.rd)
                 \/ AwaitHeader("_get_request", o)
                 \/ NoBody(o.rd) /\ Throw("500", resp_file)
  BY DEF GetFirstRequest, _get_first_request, ParseError
<1>4. CASE pconf' = pconf
  <2>1. \/ AwaitHeader("_get_first_request", o)
        \/ NoBody(o.rd) /\ \E code : Throw(code, resp_file)
    BY <1>1, <1>2, <1>3, <1>4, HostSelectsServer DEF BodyInv
  <2>2. BodyFits'
    BY <1>1, <1>2, <1>3, <1>4, <2>1, HeaderFits
  <2> QED
    BY <1>2, <1>4, <2>2 DEF FirstRequest
<1>5. CASE pconf' # pconf
  <2>1. /\ pconf' \in HostServers(stream, o.pa)
        /\ \/ _dispatch(o.rd)
           \/ AwaitHeader("_get_request", o)
           \/ NoBody(o.rd) /\ Throw("500", resp_file)
    BY <1>3, <1>5
  <2>2. pconf' \in Servers
    BY <1>1, <2>1, HostSelectsServer DEF BodyInv
  <2>3. BodyFits'
    BY <1>1, <1>2, <1>3, <2>1, <2>2, HeaderFits
  <2>4. call_next' # "_get_first_request"
    BY <2>1, DispatchAnswers, ThrowAnswers DEF Answers, AwaitHeader, Await
  <2> QED
    BY <2>3, <2>4 DEF FirstRequest
<1> QED
  BY <1>4, <1>5

(* _get_request and _get_new_request. *)
LEMMA GetRequestFits ==
  ASSUME BodyInv, NEW callback \in {"_get_request", "_get_new_request"},
         ReadMore(callback), NEW parser \in Parser, parser.last <= rd,
         _get_request(parser)
  PROVE  FirstRequest' /\ BodyFits'
<1>1. callback \in ReadCallbacks /\ "_get_request" \in ReadCallbacks \ {"_read_body"}
  BY DEF ReadCallbacks
<1>2. pconf' = pconf /\ pconf \in Servers \cup {NoConf} /\ pconf # NoConf
  BY DEF _get_request, BodyInv, IInv, Input, NullConf, ReadMore
<1>3. PICK o \in ParseSome(stream, parser, rd, rcvd') :
        /\ pa' = o.pa
        /\ \/ NoBody(o.rd) /\ \E code : Throw(code, resp_file)
           \/ _dispatch(o.rd)
           \/ AwaitHeader("_get_request", o)
  BY DEF _get_request, ParseError
<1>4. BodyFits'
  BY <1>1, <1>2, <1>3, HeaderFits
<1>5. call_next' # "_get_first_request"
  BY <1>3, DispatchAnswers, ThrowAnswers DEF Answers, AwaitHeader, Await
<1> QED
  BY <1>4, <1>5 DEF FirstRequest

(* _read_body, resumed. *)
LEMMA ReadBodyStepFits ==
  ASSUME BodyInv, ReadBody
  PROVE  FirstRequest' /\ BodyFits'
<1>1. /\ ReadMore("_read_body") /\ "_read_body" \in ReadCallbacks
      /\ call_next = "_read_body" /\ pa' = pa /\ pconf' = pconf
      /\ _read_body(chunk_streamer, in_file, rd)
  BY DEF ReadBody, ReadMore, ReadCallbacks
<1>2. /\ stream \in Seq(Symbol) /\ rd \in Nat /\ rcvd' \in Nat /\ rd <= rcvd'
      /\ rcvd' <= Len(stream)
  BY <1>1, ReadMoreType DEF BodyInv
<1>3. /\ pa \in Parser /\ pa.last <= rd /\ pa.last \in Nat
      /\ pconf \in Servers /\ pconf # NoConf /\ chunk_streamer \in Streamer
      /\ in_file \in SUBSET (1..rd) /\ SizesAreNatural
      /\ (MaxBody[pconf] > 0 => Fits(chunk_streamer, in_file, MaxBody[pconf]))
  BY <1>1 DEF BodyInv, IInv, Input, NullConf, Parser, BodyFits, Limited
<1>4. IsFiniteSet(in_file) /\ rd \in 0..rcvd' /\ pa'.last <= Len(stream)
  <2>1. IsFiniteSet(in_file)
    BY <1>2, <1>3, FileIsFinite
  <2>2. rd \in 0..rcvd' /\ pa'.last <= Len(stream)
    BY <1>1, <1>2, <1>3
  <2> QED
    BY <2>1, <2>2
<1>5. BodyFits'
  BY <1>1, <1>2, <1>3, <1>4, ReadBodyFits
<1>6. call_next' # "_get_first_request"
  BY <1>1, ReadBodyAnswers DEF Answers
<1> QED
  BY <1>5, <1>6 DEF FirstRequest

(* A step that does not read *)
LEMMA SameFits ==
  ASSUME BodyInv, UNCHANGED <<call_next, pconf, chunk_streamer>>,
         in_file' = in_file \/ in_file' = {}
  PROVE  FirstRequest' /\ BodyFits'
<1>1. FirstRequest'
  BY DEF BodyInv, FirstRequest
<1>2. CASE in_file' = in_file
  BY <1>1, <1>2 DEF BodyInv, BodyFits, Limited
<1>3. CASE in_file' = {}
  <2>1. Cardinality(in_file') = 0 /\ Cardinality(in_file) \in Nat
    <3>1. rd \in Nat /\ in_file \in SUBSET (1..rd)
      BY DEF BodyInv, IInv, Input
    <3>2. Cardinality(in_file) \in Nat
      BY <3>1, FileIsFinite
    <3> QED
      BY <1>3, <3>2, FS_EmptySet
  <2>2. pconf # NoConf => MaxBody[pconf] \in Nat
    BY ConStateAssumption DEF BodyInv, IInv, Input
  <2>3. \A max \in Nat : Fits(chunk_streamer, in_file, max)
          => Fits(chunk_streamer, in_file', max)
    BY <1>3, <2>1 DEF Fits, Budget
  <2> QED
    BY <1>1, <1>3, <2>1, <2>2, <2>3 DEF BodyInv, BodyFits, Limited
<1> QED
  BY <1>2, <1>3

(* A step that prepares or sends an answer. *)
LEMMA AnsweringFits ==
  ASSUME BodyInv, UNCHANGED <<pconf, in_file>>,
         call_next' \notin {"_get_first_request", "_read_body"}
  PROVE  FirstRequest' /\ BodyFits'
<1>1. pconf \in Servers \cup {NoConf} /\ BodyFits
  BY DEF BodyInv, IInv, Input
<1>2. BodyFits'
  BY <1>1, UntouchedFits
<1> QED
  BY <1>2 DEF FirstRequest

(* _wait_cgi stores nothing. *)
LEMMA WaitCgiFits ==
  ASSUME BodyInv, WaitCgi
  PROVE  FirstRequest' /\ BodyFits'
<1>1. UNCHANGED <<pconf, in_file>> /\ _wait_cgi(child.state, child.waited)
  BY DEF WaitCgi
<1>2. call_next' \notin {"_get_first_request", "_read_body"}
  BY <1>1, CgiAnswers DEF Answers
<1> QED
  BY <1>1, <1>2, AnsweringFits

(* _write and _write_then_close store nothing. *)
LEMMA WriteFits ==
  ASSUME BodyInv, NEW res, Write(res) \/ WriteThenClose(res)
  PROVE  FirstRequest' /\ BodyFits'
<1>1. CASE Close
  BY <1>1, SameFits DEF Close
<1>2. CASE /\ UNCHANGED <<pconf, pa, chunk_streamer, in_file, child, rd>>
           /\ \/ Throw("500", resp_file)
              \/ \E w : SendMore(w)
              \/ \E w : ResponseSent(w)
  <2>1. CASE \E w : SendMore(w)
    BY <1>2, <2>1, SameFits DEF SendMore
  <2>2. CASE call_next' \notin {"_get_first_request", "_read_body"}
    BY <1>2, <2>2, AnsweringFits
  <2> QED
    BY <1>2, <2>1, <2>2, ThrowAnswers DEF Answers, ResponseSent
<1> QED
  BY <1>1, <1>2 DEF Write, WriteThenClose

(* Chunk sizes are read as unsigned numbers. *)
LEMMA SizesStayNatural ==
  ASSUME BodyInv, [Next]_vars
  PROVE  SizesAreNatural'
<1>1. CASE stream' = stream
  BY <1>1 DEF BodyInv, SizesAreNatural
<1>2. CASE ClientSend
  <2>1. PICK r \in Requests : stream' = stream \o r.syms
    BY <1>2 DEF ClientSend
  <2>2. /\ r.syms \in Seq(Symbol)
        /\ \A i \in 1..Len(r.syms) : r.syms[i].k = "size" => r.syms[i].n >= 0
    BY ConStateAssumption
  <2>3. stream \in Seq(Symbol) /\ Len(stream) \in Nat /\ Len(r.syms) \in Nat
    BY <2>2 DEF BodyInv, IInv, Input
  <2> SUFFICES ASSUME NEW i \in 1..Len(stream'), stream'[i].k = "size"
               PROVE  stream'[i].n \in Nat
    BY DEF SizesAreNatural
  <2>4. CASE i <= Len(stream)
    BY <2>1, <2>2, <2>3, <2>4 DEF BodyInv, SizesAreNatural
  <2>5. CASE i > Len(stream)
    <3>1. /\ i - Len(stream) \in 1..Len(r.syms)
          /\ stream'[i] = r.syms[i - Len(stream)]
      BY <2>1, <2>2, <2>3, <2>5
    <3>2. r.syms[i - Len(stream)].n \in Int
      BY <2>2, <3>1, SymbolSize
    <3> QED
      BY <2>2, <3>1, <3>2
  <2> QED
    BY <2>3, <2>4, <2>5
<1>3. Worker => stream' = stream
  BY DEF Worker, GetFirstRequest, GetRequest, GetNewRequest, ReadBody, ReadMore,
         RecvNothing, WaitCgi, Write, WriteThenClose, Writable, clientVars
<1> QED
  BY <1>1, <1>2, <1>3 DEF Next, ClientLeaves, ChildEnds, vars, clientVars

(* The invariant with the budget is inductive. *)
LEMMA NextBodyInv == BodyInv /\ [Next]_vars => BodyInv'
<1> SUFFICES ASSUME BodyInv, [Next]_vars PROVE BodyInv'
  OBVIOUS
<1>1. IInv' /\ SizesAreNatural' /\ pa \in Parser /\ pa.last <= rd /\ rd \in Nat
  BY NextIInv, SizesStayNatural DEF BodyInv, IInv, Input
<1>2. CASE GetFirstRequest
  BY <1>2, GetFirstRequestFits, <1>1 DEF BodyInv
<1>3. CASE GetRequest
  BY <1>1, <1>3, GetRequestFits DEF GetRequest, BodyInv
<1>4. CASE GetNewRequest
  <2>1. NewParser(rd) \in Parser /\ NewParser(rd).last <= rd
    BY <1>1 DEF NewParser, Parser, ParserStatus
  <2>2. ReadMore("_get_new_request") /\ _get_request(NewParser(rd))
    BY <1>4 DEF GetNewRequest, _get_new_request
  <2> QED
    BY <1>1, <2>1, <2>2, GetRequestFits DEF BodyInv
<1>5. CASE ReadBody
  BY <1>1, <1>5, ReadBodyStepFits DEF BodyInv
<1>6. CASE RecvNothing
  BY <1>1, <1>6, SameFits DEF RecvNothing, Close, BodyInv
<1>7. CASE WaitCgi
  BY <1>1, <1>7, WaitCgiFits DEF BodyInv
<1>8. CASE \E res \in Results : Write(res) \/ WriteThenClose(res)
  BY <1>1, <1>8, WriteFits DEF BodyInv
<1>9. CASE ClientSend \/ ClientLeaves \/ ChildEnds \/ UNCHANGED vars
  <2>1. UNCHANGED <<call_next, pconf, chunk_streamer, in_file>>
    BY <1>9 DEF ClientSend, ClientLeaves, ChildEnds, vars, conVars
  <2> QED
    BY <1>1, <2>1, SameFits DEF BodyInv
<1> QED
  BY <1>2, <1>3, <1>4, <1>5, <1>6, <1>7, <1>8, <1>9 DEF Next, Worker

(* A connection that was just accepted satisfies it. *)
LEMMA InitBodyInv == Init => BodyInv
<1> SUFFICES ASSUME Init PROVE BodyInv
  OBVIOUS
<1>1. IInv
  BY InitIInv
<1>2. SizesAreNatural /\ FirstRequest /\ BodyFits
  BY DEF Init, SizesAreNatural, FirstRequest, BodyFits, Limited
<1> QED
  BY <1>1, <1>2 DEF BodyInv

(* Whatever the limit, the buffer and the way the bytes arrive, a request
   never gets more of its body stored than max_body() allows, whether it
   announces a length or sends a chunk (_read_body, read_some_chunked,
   read_some_single). *)
THEOREM BodyLimit == Spec => []BodyWithinLimit
<1>1. BodyInv => BodyWithinLimit
  BY DEF BodyInv, BodyFits, Limited, BodyWithinLimit
<1> QED
  BY <1>1, InitBodyInv, NextBodyInv, PTL DEF Spec
=============================================================================
