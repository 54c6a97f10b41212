---------------------------- MODULE ExchangeProofs ----------------------------
(***************************************************************************)
(* What a connection promises its client, for every configuration, buffer  *)
(* size, way the bytes arrive and choice of failing calls: it is kept at   *)
(* the first byte of the next request, a script reads the body of its own  *)
(* request, a request gets one answer, the answer has its page, and a      *)
(* connection as a whole implements Exchange.  All but the page are        *)
(* promised to clients that keep to the protocol (Clients) only: what      *)
(* becomes of the rest of a request after an error is not their request.   *)
(*                                                                         *)
(* KeepAliveAtBoundary is not inductive: it says where a request starts,   *)
(* and to know where it ends takes the offsets of everything in between.   *)
(* Position has them, for every callback, and Sent says that the input is  *)
(* one conforming request after the other; they need the type invariant    *)
(* and the budget of BodyLimitProofs.  The answers are counted with        *)
(* Streaming and Counted, and Ordered gives the requests their turns.      *)
(***************************************************************************)
EXTENDS RequestProofs

(* A request that is the part s[b+1..e] of the input, and where its body   *)
(* is, as the conditions on the client have it.                            *)
WellSent(s, b, e, payload) ==
  /\ b < e /\ e <= Len(s) /\ HeaderEnds(s, b, e) # {}
  /\ \A h \in HeaderEnds(s, b, e) :
       /\ EndIsTold(s, b, h, e)
       /\ OneChunkClient /\ ReadsBody(s[b+1]) => payload = Body(s, b, h, e)
       /\ ServedClient => FitsServers(s, b, h, e)

(* The input is one request after the other. *)
Sent ==
  /\ Len(payloads) = Len(bounds) /\ Len(stream) = Boundary(Len(bounds))
  /\ \A i \in 1..Len(bounds) :
       WellSent(stream, Boundary(i - 1), bounds[i], payloads[i])

(* The request that is being read or answered lies between these offsets,  *)
(* and its header ends here.                                               *)
First       == Boundary(nresp)
End         == bounds[nresp + 1]
CurrentEnds == HeaderEnds(stream, First, End)

(* All of the client's requests may have been answered. *)
AtRequest == nresp < Len(bounds)

(* Some lines of its header have been parsed. *)
AtHeader(parser, r) ==
  /\ AtLine(parser, First, r)
  /\ IF AtRequest THEN \A h \in CurrentEnds : r <= h ELSE r = First

HeaderRead ==
  AtRequest /\ pa.first = First /\ pa.status = "PREBODY" /\ pa.last \in CurrentEnds

ReadingBody ==
  /\ HeaderRead /\ ReadsBody(stream[First + 1])
  /\ InBody(stream, First, pa.last, End, chunk_streamer, rd, in_file)

(* What a file is left with of this body: on a full disk, its start *)
Left(file, body, r) ==
  \/ file = body
  \/ "disk" \in Faults /\ \E n \in 0..r : file = {i \in body : i <= n}

(* The body is in the file. *)
BodyInFile ==
  ReadsBody(stream[First + 1]) /\ Left(in_file, Body(stream, First, pa.last, End), rd)

(* Where each callback finds the connection in its input *)
Position ==
  Open =>
    /\ nresp \in 0..Len(bounds)
    /\ call_next \in {"_get_first_request", "_get_request"} => AtHeader(pa, rd)
    /\ call_next = "_get_new_request" => rd = First
    /\ call_next = "_read_body" => ReadingBody
    /\ call_next \in {"_wait_cgi", "_write"} => HeaderRead /\ rd = End
    /\ call_next = "_wait_cgi" /\ RequestLine(stream, pa).m = "POST" => BodyInFile
    /\ call_next = "_write_then_close" => AtRequest /\ (ServedClient => rd = End)

KInv == Sent /\ Position

-----------------------------------------------------------------------------
(* What the client sends *)

(* A request stays what it is when it is sent, and when more is sent. *)
LEMMA ShiftWellSent ==
  ASSUME NEW s, NEW t, NEW b, NEW e, NEW d, Shifted(s, t, b, e, d),
         NEW payload, WellSent(s, b, e, payload)
  PROVE  WellSent(t, d + b, d + e, {d + i : i \in payload})
<1>1. /\ b \in Nat /\ e \in Nat /\ d \in Nat /\ Len(t) \in Nat
      /\ b < e /\ d + e <= Len(t)
  BY DEF Shifted, WellSent
<1>2. HeaderEnds(t, d + b, d + e) # {}
  <2>1. PICK h \in HeaderEnds(s, b, e) : TRUE
    BY DEF WellSent
  <2>2. h \in Int
    BY <1>1, <2>1, HeaderEndType
  <2> QED
    BY <2>1, <2>2, ShiftHeaderEnd
<1>3. ASSUME NEW g \in HeaderEnds(t, d + b, d + e)
      PROVE  /\ EndIsTold(t, d+b, g, d+e)
             /\ OneChunkClient /\ ReadsBody(t[(d+b)+1])
                  => {d + i : i \in payload} = Body(t, d+b, g, d+e)
             /\ ServedClient => FitsServers(t, d+b, g, d+e)
  <2> DEFINE h == g - d
  <2>1. g \in Int /\ d + h = g /\ h \in Int
    BY <1>1 DEF HeaderEnds
  <2> HIDE DEF h
  <2>2. h \in HeaderEnds(s, b, e)
    BY <1>3, <2>1, ShiftHeaderEnd
  <2>3. h \in b+2..e-1
    BY <2>2 DEF HeaderEnds
  <2>4. /\ EndIsTold(s, b, h, e)
        /\ OneChunkClient /\ ReadsBody(s[b+1]) => payload = Body(s, b, h, e)
        /\ ServedClient => FitsServers(s, b, h, e)
    BY <2>2 DEF WellSent
  <2>5. EndIsTold(t, d+b, d+h, d+e)
    BY <2>3, <2>4, ShiftEnd
  <2>6. t[(d+b)+1] = s[b+1]
    <3>1. b + 1 \in b+1..e /\ d + (b + 1) = (d + b) + 1
      BY <1>1
    <3> QED
      BY <3>1 DEF Shifted
  <2>7. ReadsBody(s[b+1]) => Body(t, d+b, d+h, d+e) = {d + i : i \in Body(s, b, h, e)}
    BY <2>3, <2>4, ShiftBody
  <2>8. ServedClient => FitsServers(t, d+b, d+h, d+e)
    BY <2>3, <2>4, ShiftFits
  <2> QED
    BY <2>1, <2>4, <2>5, <2>6, <2>7, <2>8
<1>4. d + b < d + e
  BY <1>1
<1> QED
  BY <1>1, <1>2, <1>3, <1>4 DEF WellSent

(* A request that a conforming client can send *)
LEMMA RequestWellSent ==
  ASSUME ConformingClient, NEW r \in Requests
  PROVE  WellSent(r.syms, 0, Len(r.syms), r.payload)
<1>1. r.syms \in Seq(Symbol) /\ Len(r.syms) \in Nat
  BY ConStateAssumption
<1>2. Conforming(r) /\ (OneChunkClient => OneChunk(r)) /\ (ServedClient => Fitting(r))
  BY DEF ConformingClient, OneChunkClient, ServedClient
<1>3. PICK h : h \in HeaderEnds(r.syms, 0, Len(r.syms))
  BY <1>2 DEF Conforming, Ends
<1>4. 0 < Len(r.syms)
  BY <1>1, <1>3 DEF HeaderEnds
<1> QED
  BY <1>1, <1>2, <1>3, <1>4 DEF Conforming, OneChunk, Fitting, Ends, WellSent

(* The offsets of the requests are in order. *)
LEMMA BoundaryType ==
  ASSUME Observed, Sent, NEW i \in 0..Len(bounds)
  PROVE  Boundary(i) \in Nat /\ Boundary(i) <= Len(stream)
<1>1. bounds \in Seq(Nat) /\ Len(bounds) \in Nat
  BY DEF Observed
<1>2. CASE i = 0
  BY <1>1, <1>2 DEF Boundary, Sent
<1>3. CASE i # 0
  <2>1. i \in 1..Len(bounds)
    BY <1>1, <1>3
  <2>2. bounds[i] \in Nat
    BY <1>1, <2>1
  <2>3. bounds[i] <= Len(stream)
    BY <2>1 DEF Sent, WellSent
  <2> QED
    BY <1>3, <2>2, <2>3 DEF Boundary
<1> QED
  BY <1>2, <1>3

(* What a sent request adds to the input changes nothing of the rest. *)
LEMMA SentGrows ==
  ASSUME IInv, IInv', ConformingClient, Sent, ClientSend
  PROVE  /\ Sent'
         /\ Len(bounds') = Len(bounds) + 1 /\ Len(stream) <= Len(stream')
         /\ \A i \in 1..Len(stream) : stream'[i] = stream[i]
         /\ \A i \in 0..Len(bounds) : Boundary(i)' = Boundary(i)
         /\ \A i \in 1..Len(bounds) : bounds'[i] = bounds[i]
<1>1. PICK r \in Requests :
        /\ stream' = stream \o r.syms
        /\ bounds' = Append(bounds, Len(stream) + Len(r.syms))
        /\ payloads' = Append(payloads, {Len(stream) + i : i \in r.payload})
  BY DEF ClientSend
<1>0. /\ stream \in Seq(Symbol) /\ stream' \in Seq(Symbol)
      /\ bounds \in Seq(Nat) /\ payloads \in Seq(SUBSET Nat)
  BY DEF IInv, Input, Observed
<1>n. PICK n \in Nat : n = Len(bounds)
  BY <1>0
<1>d. PICK d \in Nat : d = Len(stream)
  BY <1>0
<1>k. PICK k \in Nat : k = Len(r.syms) /\ r.syms \in Seq(Symbol)
  BY ConStateAssumption
<1>2. /\ stream \in Seq(Symbol) /\ stream' \in Seq(Symbol) /\ r.syms \in Seq(Symbol)
      /\ bounds \in Seq(Nat) /\ payloads \in Seq(SUBSET Nat)
      /\ n = Len(bounds) /\ d = Len(stream) /\ k = Len(r.syms)
  BY <1>0, <1>n, <1>d, <1>k
<1>3. /\ Len(stream') = d + k
      /\ \A i \in 1..d : stream'[i] = stream[i]
      /\ \A i \in 1..k : stream'[d + i] = r.syms[i]
  BY <1>1, <1>2
<1>4. /\ Len(bounds') = n + 1 /\ bounds'[n+1] = d + k
      /\ \A i \in 1..n : bounds'[i] = bounds[i]
  BY <1>1, <1>2
<1>5. /\ Len(payloads) = n /\ Len(payloads') = n + 1
      /\ payloads'[n+1] = {d + i : i \in r.payload}
      /\ \A i \in 1..n : payloads'[i] = payloads[i] /\ payloads[i] \in SUBSET Nat
  <2>1. Len(payloads) = n
    BY <1>2 DEF Sent
  <2> QED
    BY <1>1, <1>2, <2>1
<1>6. \A i \in 0..n : Boundary(i)' = Boundary(i)
  BY <1>2, <1>4 DEF Boundary
<1>7. Boundary(n) = d
  BY <1>2 DEF Sent
<1>8. Boundary(n + 1)' = d + k
  BY <1>2, <1>4 DEF Boundary
<1>9. ASSUME NEW i \in 1..n
      PROVE  WellSent(stream', Boundary(i - 1)', bounds'[i], payloads'[i])
  <2>1. i - 1 \in 0..n /\ i \in 0..n
    BY <1>2
  <2>2. /\ Boundary(i - 1) \in Nat /\ bounds[i] \in Nat /\ bounds[i] <= d
        /\ WellSent(stream, Boundary(i - 1), bounds[i], payloads[i])
    <3>1. Boundary(i - 1) \in Nat
      BY <1>2, <2>1, BoundaryType DEF IInv
    <3>2. WellSent(stream, Boundary(i - 1), bounds[i], payloads[i])
      BY <1>2 DEF Sent
    <3> QED
      BY <1>2, <3>1, <3>2 DEF WellSent
  <2>3. Shifted(stream, stream', Boundary(i - 1), bounds[i], 0)
    <3>1. ASSUME NEW j \in Boundary(i - 1)+1..bounds[i] PROVE stream'[0+j] = stream[j]
      <4>1. j \in 1..d /\ 0 + j = j
        BY <1>2, <2>2
      <4> QED
        BY <1>3, <4>1
    <3>2. 0 + bounds[i] <= Len(stream')
      BY <1>2, <1>3, <2>2
    <3> QED
      BY <1>2, <2>2, <3>1, <3>2 DEF Shifted
  <2>4. WellSent(stream', 0 + Boundary(i - 1), 0 + bounds[i], {0 + j : j \in payloads[i]})
    BY <2>2, <2>3, ShiftWellSent
  <2>5. {0 + j : j \in payloads[i]} = payloads[i]
    BY <1>5
  <2>6. Boundary(i - 1)' = Boundary(i - 1) /\ bounds'[i] = bounds[i] /\ payloads'[i] = payloads[i]
    BY <1>4, <1>5, <1>6, <2>1
  <2> QED
    BY <2>2, <2>4, <2>5, <2>6
<1>10. WellSent(stream', Boundary(n)', bounds'[n+1], payloads'[n+1])
  <2>1. Shifted(r.syms, stream', 0, k, d)
    BY <1>2, <1>3 DEF Shifted
  <2>2. WellSent(stream', d + 0, d + k, {d + i : i \in r.payload})
    <3>1. WellSent(r.syms, 0, k, r.payload)
      BY <1>2, RequestWellSent
    <3> QED
      BY <2>1, <3>1, ShiftWellSent
  <2>3. Boundary(n)' = d
    BY <1>2, <1>6, <1>7
  <2> QED
    BY <1>2, <1>4, <1>5, <2>2, <2>3
<1>11. Sent'
  <2>1. ASSUME NEW i \in 1..n + 1
        PROVE  WellSent(stream', Boundary(i - 1)', bounds'[i], payloads'[i])
    <3>1. CASE i \in 1..n
      BY <1>9, <3>1
    <3>2. CASE i = n + 1
      BY <1>2, <1>10, <3>2
    <3> QED
      BY <1>2, <3>1, <3>2
  <2>2. Len(stream') = Boundary(Len(bounds))'
    BY <1>3, <1>4, <1>8 DEF Boundary
  <2> QED
    BY <1>4, <1>5, <2>1, <2>2 DEF Sent
<1> QED
  BY <1>2, <1>3, <1>4, <1>6, <1>11

(* Reading a body goes on as it was when more is sent. *)
LEMMA ShiftInBody ==
  ASSUME NEW s, NEW t, NEW b, NEW e, Shifted(s, t, b, e, 0),
         NEW h \in HeaderEnds(s, b, e), EndIsTold(s, b, h, e), ReadsBody(s[b+1])
  PROVE  /\ Body(t, b, h, e) = Body(s, b, h, e)
         /\ \A st, r, file : InBody(s, b, h, e, st, r, file) => InBody(t, b, h, e, st, r, file)
<1>1. /\ b \in Nat /\ e \in Nat /\ h \in b+2..e-1 /\ h \in Nat
      /\ 0 + b = b /\ 0 + h = h /\ 0 + e = e
  BY DEF Shifted, HeaderEnds
<1>2. IsChunked(s, b, h) => h + 2 <= e /\ s[h+2].n \in Int
  BY <1>1, OffsetsOfRequest
<1>3. /\ IsChunked(t, 0+b, 0+h) <=> IsChunked(s, b, h)
      /\ BodyStart(s, b, h) \in Int /\ BodyEnd(s, b, h, e) \in Int
      /\ TrailerStart(s, b, h, e) \in Int
      /\ BodySize(t, 0+b, 0+h, 0+e) = BodySize(s, b, h, e)
      /\ BodyStart(t, 0+b, 0+h) = 0 + BodyStart(s, b, h)
      /\ BodyEnd(t, 0+b, 0+h, 0+e) = 0 + BodyEnd(s, b, h, e)
      /\ TrailerStart(t, 0+b, 0+h, 0+e) = 0 + TrailerStart(s, b, h, e)
  BY <1>1, <1>2, ShiftOffsets
<1>4. /\ IsChunked(t, b, h) <=> IsChunked(s, b, h)
      /\ BodySize(t, b, h, e) = BodySize(s, b, h, e)
      /\ BodyStart(t, b, h) = BodyStart(s, b, h)
      /\ BodyEnd(t, b, h, e) = BodyEnd(s, b, h, e)
      /\ TrailerStart(t, b, h, e) = TrailerStart(s, b, h, e)
  BY <1>1, <1>3
<1>5. Body(t, b, h, e) = Body(s, b, h, e)
  BY <1>4 DEF Body
<1>6. IsChunked(s, b, h) => TrailerStart(s, b, h, e) >= b
  <2>1. IsChunked(s, b, h) => TrailerStart(s, b, h, e) >= h + 3
    <3>1. IsChunked(s, b, h) => TrailerStart(s, b, h, e) \in h+3..e-1
      BY DEF EndIsTold, ChunkedBody
    <3> QED
      BY <1>3, <3>1
  <2> QED
    BY <1>1, <1>3, <2>1
<1>7. ASSUME IsChunked(s, b, h), NEW r \in TrailerStart(s, b, h, e)..e-1
      PROVE  r = TrailerStart(s, b, h, e) \/ (IsNL(t[r]) <=> IsNL(s[r]))
  <2> DEFINE x == TrailerStart(s, b, h, e)
  <2>1. x \in Int /\ x >= b
    BY <1>3, <1>6, <1>7
  <2> HIDE DEF x
  <2>2. r \in x..e-1
    BY <1>7 DEF x
  <2>3. r # x => r \in b+1..e /\ 0 + r = r
    BY <1>1, <2>1, <2>2
  <2> QED
    BY <2>3 DEF x, Shifted
<1> QED
  BY <1>4, <1>5, <1>7 DEF InBody

(* The facts about the current request that its callbacks rely on *)
LEMMA CurrentRequest ==
  ASSUME IInv, Sent, nresp \in 0..Len(bounds), AtRequest
  PROVE  /\ First \in Nat /\ End \in Nat /\ First < End /\ End <= Len(stream)
         /\ Len(stream) \in Nat /\ Len(bounds) \in Nat /\ nresp \in Nat
         /\ CurrentEnds # {} /\ Boundary(nresp + 1) = End
         /\ \A h \in CurrentEnds :
              /\ EndIsTold(stream, First, h, End)
              /\ OneChunkClient /\ ReadsBody(stream[First+1])
                   => payloads[nresp+1] = Body(stream, First, h, End)
              /\ ServedClient => FitsServers(stream, First, h, End)
<1>1. /\ stream \in Seq(Symbol) /\ bounds \in Seq(Nat)
      /\ Len(stream) \in Nat /\ Len(bounds) \in Nat
  BY DEF IInv, Input, Observed
<1>2. nresp \in Nat /\ nresp + 1 \in 1..Len(bounds) /\ (nresp + 1) - 1 = nresp
  BY <1>1 DEF AtRequest
<1>3. First \in Nat
  BY BoundaryType DEF IInv, First
<1>4. WellSent(stream, First, End, payloads[nresp+1])
  BY <1>2 DEF Sent, First, End
<1>5. End \in Nat
  BY <1>1, <1>2 DEF End
<1>6. Boundary(nresp + 1) = End
  BY <1>2 DEF Boundary, End
<1> QED
  BY <1>1, <1>2, <1>3, <1>4, <1>5, <1>6 DEF WellSent, CurrentEnds

(* A client that sends more disturbs nobody. *)
LEMMA ClientSendPosition ==
  ASSUME IInv, IInv', ConformingClient, Sent, Position, ClientSend
  PROVE  Sent' /\ Position'
<1>1. UNCHANGED <<call_next, event_set, pconf, pa, chunk_streamer, in_file, child,
                  resp_file, wr, rd, rcvd, client, heads, nresp>>
  BY DEF ClientSend, conVars
<1>2. /\ Sent' /\ Len(bounds') = Len(bounds) + 1 /\ Len(stream) <= Len(stream')
      /\ \A i \in 1..Len(stream) : stream'[i] = stream[i]
      /\ \A i \in 0..Len(bounds) : Boundary(i)' = Boundary(i)
      /\ \A i \in 1..Len(bounds) : bounds'[i] = bounds[i]
  BY SentGrows
<1> SUFFICES ASSUME Open PROVE Position'
  BY <1>1, <1>2 DEF Position, Open
<1>3. /\ stream \in Seq(Symbol) /\ stream' \in Seq(Symbol)
      /\ bounds \in Seq(Nat) /\ Len(bounds) \in Nat /\ Len(stream) \in Nat
      /\ nresp \in 0..Len(bounds)
  BY DEF IInv, Input, Observed, Position
<1>4. nresp' \in 0..Len(bounds)' /\ AtRequest'
  BY <1>1, <1>2, <1>3 DEF AtRequest
<1>5. First' = First
  BY <1>1, <1>2, <1>3 DEF First, Boundary
<1>6. CASE AtRequest
  <2>1. /\ First \in Nat /\ End \in Nat /\ First < End /\ End <= Len(stream)
        /\ \A h \in CurrentEnds : EndIsTold(stream, First, h, End)
    BY <1>3, <1>6, CurrentRequest
  <2>2. End' = End
    <3>1. nresp + 1 \in 1..Len(bounds)
      BY <1>3, <1>6 DEF AtRequest
    <3> QED
      BY <1>1, <1>2, <3>1 DEF End
  <2>3. Shifted(stream, stream', First, End, 0)
    <3>1. \A j \in First+1..End : stream'[0+j] = stream[j]
      BY <1>2, <1>3, <2>1
    <3>2. 0 + End <= Len(stream')
      BY <1>2, <1>3, <2>1
    <3> QED
      BY <1>3, <2>1, <3>1, <3>2 DEF Shifted
  <2>4. CurrentEnds' = CurrentEnds
    <3>1. /\ CurrentEnds = HeaderEnds(stream, First, End)
          /\ CurrentEnds' = HeaderEnds(stream', First, End)
      BY <1>5, <2>2 DEF CurrentEnds
    <3>2. ASSUME NEW h \in Int
          PROVE  h \in HeaderEnds(stream', First, End) <=> h \in HeaderEnds(stream, First, End)
      <4>1. 0 + h = h /\ 0 + First = First /\ 0 + End = End
        BY <2>1
      <4> QED
        BY <2>3, <4>1, ShiftHeaderEnd
    <3>3. /\ HeaderEnds(stream, First, End) \subseteq Int
          /\ HeaderEnds(stream', First, End) \subseteq Int
      BY <2>1 DEF HeaderEnds
    <3> QED
      BY <3>1, <3>2, <3>3
  <2>5. stream'[First+1] = stream[First+1]
    BY <1>2, <1>3, <2>1
  <2>6. ASSUME HeaderRead, ReadsBody(stream[First+1])
        PROVE  /\ Body(stream', First, pa.last, End) = Body(stream, First, pa.last, End)
               /\ InBody(stream, First, pa.last, End, chunk_streamer, rd, in_file)
                    => InBody(stream', First, pa.last, End, chunk_streamer, rd, in_file)
    BY <2>1, <2>3, <2>6, ShiftInBody DEF HeaderRead, CurrentEnds
  <2>7. HeaderRead => HeaderRead'
    BY <1>1, <1>4, <1>5, <2>4 DEF HeaderRead
  <2>8. ReadingBody => ReadingBody'
    BY <1>1, <1>5, <2>2, <2>5, <2>6, <2>7 DEF ReadingBody
  <2>9. HeaderRead /\ BodyInFile => BodyInFile'
    BY <1>1, <1>5, <2>2, <2>5, <2>6 DEF BodyInFile, Left
  <2>10. AtHeader(pa, rd) => AtHeader(pa, rd)'
    BY <1>1, <1>4, <1>5, <1>6, <2>4 DEF AtHeader, AtLine
  <2>11. HeaderRead => RequestLine(stream', pa') = RequestLine(stream, pa)
    BY <1>1, <2>5 DEF HeaderRead, RequestLine
  <2> QED
    BY <1>1, <1>4, <1>5, <2>2, <2>7, <2>8, <2>9, <2>10, <2>11 DEF Position, Open
<1>7. CASE ~AtRequest
  <2>1. call_next \notin {"_read_body", "_wait_cgi", "_write", "_write_then_close"}
    BY <1>7 DEF Position, ReadingBody, HeaderRead
  <2>2. AtHeader(pa, rd) => AtHeader(pa, rd)'
    <3>1. ASSUME NEW h \in CurrentEnds' PROVE First <= h
      <4>1. First \in Nat /\ h \in First'+2..End'-1
        BY <1>3, BoundaryType DEF IInv, First, CurrentEnds, HeaderEnds
      <4> QED
        BY <1>5, <4>1
    <3> QED
      BY <1>1, <1>4, <1>5, <1>7, <3>1 DEF AtHeader, AtLine
  <2> QED
    BY <1>1, <1>4, <1>5, <2>1, <2>2 DEF Position, Open
<1> QED
  BY <1>6, <1>7

-----------------------------------------------------------------------------
(* What the callbacks leave *)

(* The offsets of the current request change only with these. *)
SameRequest == UNCHANGED <<stream, bounds, nresp>>

(* A step that changes none of these leaves the current request as it was. *)
LEMMA RequestUnchanged ==
  ASSUME SameRequest
  PROVE  /\ First' = First /\ End' = End /\ CurrentEnds' = CurrentEnds
         /\ AtRequest' = AtRequest
  BY DEF SameRequest, First, End, CurrentEnds, AtRequest, Boundary

(* A callback that has an answer, or a script that writes one, has read the
   request to its end. *)
LEMMA AnswersPosition ==
  ASSUME Observed', Answers, HeaderRead', rd' = End',
         call_next' = "_wait_cgi" /\ RequestLine(stream', pa').m = "POST" => BodyInFile'
  PROVE  Position'
<1>1. nresp' \in 0..Len(bounds')
  BY DEF Observed, HeaderRead, AtRequest
<1>2. AtRequest'
  BY DEF HeaderRead
<1> QED
  BY <1>1, <1>2 DEF Answers, Position

(* A callback that gives up closes the connection after its answer. *)
LEMMA GivesUpPosition ==
  ASSUME Observed', AtRequest', ~ServedClient, call_next' = "_write_then_close"
  PROVE  Position'
<1>1. nresp' \in 0..Len(bounds')
  BY DEF Observed, AtRequest
<1> QED
  BY <1>1 DEF Position

(* Where Throw leads *)
LEMMA ThrowLeads ==
  ASSUME NEW code, NEW open, Throw(code, open)
  PROVE  IF chunk_streamer'.status = "DONE" THEN call_next' = "_write"
         ELSE call_next' = "_write_then_close"
  BY DEF Throw

(* _read_body leaves the connection inside the body, or at its end, or
   gives up. *)
LEMMA ReadBodyPosition ==
  ASSUME IInv, Sent, Observed', ConformingClient, SameRequest,
         nresp \in 0..Len(bounds), pconf' \in Servers, HeaderRead',
         ReadsBody(stream[First+1]), rcvd' \in Nat, rcvd' <= Len(stream),
         NEW st \in Streamer, NEW r \in Nat, r <= rcvd', NEW file,
         InBody(stream, First, pa'.last, End, st, r, file),
         _read_body(st, file, r)
  PROVE  Position'
<1> DEFINE h == pa'.last
           max == MaxBody[pconf']
<1>1. /\ stream' = stream /\ First' = First /\ End' = End /\ CurrentEnds' = CurrentEnds
      /\ AtRequest /\ AtRequest' /\ pa'.first = First /\ h \in CurrentEnds
  BY RequestUnchanged DEF HeaderRead, SameRequest
<1>2. /\ First \in Nat /\ End \in Nat /\ End <= Len(stream)
      /\ EndIsTold(stream, First, h, End)
      /\ ServedClient => FitsServers(stream, First, h, End)
  BY <1>1, CurrentRequest
<1>3. BodyRequest(stream, First, h, End)
  BY <1>1, <1>2 DEF BodyRequest, CurrentEnds, IInv, Input
<1>4. max \in Nat /\ BufCap > 1
  BY ConStateAssumption DEF ConformingClient
<1>5. PICK c \in ReadBodyOutcomes(Call(st, r)) :
        /\ chunk_streamer' = c.st
        /\ rd' = c.rd
        /\ \/ /\ c.res = "MORE" /\ in_file' = file \cup c.got
              /\ Await("_read_body")
           \/ /\ c.res = "DONE" /\ in_file' \in closeFile(file \cup c.got)
              /\ _prepare_page
           \/ c.res \in Codes /\ Throw(c.res, resp_file)
  BY DEF _read_body
<1>6. GoesRight(stream, First, h, End, file, max, c)
  BY <1>1, <1>2, <1>3, <1>4, OutcomesGoRight
<1>7. CASE /\ c.res = "MORE" /\ in_file' = file \cup c.got
           /\ Await("_read_body")
  <2>1. call_next' = "_read_body"
    BY <1>7 DEF Await
  <2>2. InBody(stream', First', h, End', chunk_streamer', rd', in_file')
    BY <1>1, <1>5, <1>6, <1>7 DEF GoesRight
  <2>3. ReadingBody'
    BY <1>1, <2>2 DEF ReadingBody
  <2>4. nresp' \in 0..Len(bounds')
    BY DEF SameRequest
  <2> QED
    BY <2>1, <2>3, <2>4 DEF Position
<1>8. CASE /\ c.res = "DONE" /\ in_file' \in closeFile(file \cup c.got)
           /\ _prepare_page
  <2>1. /\ rd' = End' /\ in_file' \in closeFile(file \cup c.got)
        /\ file \cup c.got = Body(stream', First', pa'.last, End')
    BY <1>1, <1>5, <1>6, <1>8 DEF GoesRight
  <2>2. BodyInFile'
    BY <1>1, <2>1 DEF BodyInFile, Left, closeFile
  <2> QED
    BY <1>8, <2>1, <2>2, PageAnswers, AnswersPosition
<1>9. CASE c.res \in Codes /\ Throw(c.res, resp_file)
  <2>1. chunk_streamer'.status # "DONE" /\ ~FitsLimit(stream, First, h, End, max)
    BY <1>5, <1>6, <1>9 DEF GoesRight, Codes
  <2>2. call_next' = "_write_then_close"
    BY <1>9, <2>1, ThrowLeads
  <2>3. ~ServedClient
    BY <1>2, <2>1 DEF ServedClient, FitsServers, FitsLimit
  <2> QED
    BY <1>1, <2>2, <2>3, GivesUpPosition
<1> QED
  BY <1>5, <1>7, <1>8, <1>9

(* _dispatch, entered just behind the header *)
LEMMA DispatchPosition ==
  ASSUME IInv, Sent, Observed', ConformingClient, SameRequest,
         nresp \in 0..Len(bounds), pconf' \in Servers, HeaderRead',
         rcvd' \in Nat, rcvd' <= Len(stream), pa'.last + 1 <= rcvd',
         _dispatch(pa'.last + 1)
  PROVE  Position'
<1> DEFINE h == pa'.last
           line == RequestLine(stream, pa')
<1>1. /\ stream' = stream /\ First' = First /\ End' = End /\ CurrentEnds' = CurrentEnds
      /\ AtRequest /\ AtRequest' /\ pa'.first = First /\ h \in CurrentEnds
  BY RequestUnchanged DEF HeaderRead, SameRequest
<1>2. /\ First \in Nat /\ End \in Nat /\ h \in Nat
      /\ EndIsTold(stream, First, h, End) /\ line = stream[First+1]
  BY <1>1, CurrentRequest, HeaderEndType DEF CurrentEnds, RequestLine
<1>3. ASSUME NoBody(h + 1), Answers, ~ReadsBody(line),
             call_next' = "_wait_cgi" => line.m # "POST"
      PROVE  Position'
  <2>1. rd' = End'
    BY <1>1, <1>2, <1>3 DEF NoBody, EndIsTold
  <2>2. RequestLine(stream', pa').m = "POST" => call_next' # "_wait_cgi"
    BY <1>1, <1>3
  <2> QED
    BY <1>3, <2>1, <2>2, AnswersPosition
<1>4. CASE NoBody(h + 1) /\ line.m \notin Accepts[line.t]
           /\ (Throw("404", resp_file) \/ Throw("405", resp_file))
  BY <1>3, <1>4, ThrowAnswers, ThrowLeads DEF ReadsBody
<1>5. CASE NoBody(h + 1) /\ line.t \in Redirected /\ Respond(0, "page", resp_file)
  <2>1. call_next' = "_write"
    BY <1>5 DEF Respond
  <2> QED
    BY <1>3, <1>5, <2>1, RespondAnswers DEF ReadsBody
<1>6. CASE NoBody(h + 1) /\ line.m = "GET" /\ _prepare_page
  BY <1>3, <1>6, PageAnswers DEF ReadsBody
<1>7. CASE NoBody(h + 1) /\ line.m = "DELETE"
           /\ (Respond(0, "page", resp_file) \/ Throw("404", resp_file))
  BY <1>3, <1>7, RespondAnswers, ThrowAnswers DEF ReadsBody
<1>8. CASE line.m \in Accepts[line.t] /\ line.t \notin Redirected
           /\ line.m = "POST" /\ StartBody(h + 1)
  <2>1. ReadsBody(stream[First+1])
    BY <1>2, <1>8 DEF ReadsBody
  <2>2. CASE _read_body(NewStreamer, {}, h + 1)
    <3>1. NewStreamer \in Streamer
      BY DEF NewStreamer, Streamer, StreamerStatus
    <3>2. InBody(stream, First, h, End, NewStreamer, h + 1, {})
      BY DEF InBody, NewStreamer
    <3>3. h + 1 \in Nat
      BY <1>2
    <3> QED
      BY <2>1, <2>2, <3>1, <3>2, <3>3, ReadBodyPosition
  <2>3. CASE "open" \in Faults /\ chunk_streamer' = NewStreamer /\ Throw("500", resp_file)
    <3>1. call_next' = "_write_then_close" /\ ~ServedClient
      BY <2>3, ThrowLeads DEF NewStreamer, ServedClient
    <3> QED
      BY <1>1, <3>1, GivesUpPosition
  <2> QED
    BY <1>8, <2>2, <2>3 DEF StartBody
<1> QED
  BY <1>4, <1>5, <1>6, <1>7, <1>8 DEF _dispatch

(* A callback that parses a header is only called when more of the request
   comes in, and accepts it. *)
LEMMA HeaderPosition ==
  ASSUME IInv, Sent, ConformingClient, nresp \in 0..Len(bounds),
         NEW callback \in ReadCallbacks, ReadMore(callback),
         NEW parser \in Parser, AtHeader(parser, rd),
         NEW o \in ParseSome(stream, parser, rd, rcvd'), pa' = o.pa
  PROVE  /\ SameRequest /\ AtRequest /\ o.err = None
         /\ \/ /\ o.pa.status = "PREBODY" /\ HeaderRead'
               /\ o.rd = pa'.last + 1 /\ pa'.last + 1 <= rcvd'
            \/ /\ o.pa.status # "PREBODY" /\ AtLine(pa', First, o.rd)
               /\ \A h \in CurrentEnds : o.rd <= h
<1>1. /\ stream' = stream /\ stream \in Seq(Symbol) /\ Len(stream) \in Nat
      /\ rd \in Nat /\ rcvd' \in Nat /\ rd <= rcvd' /\ rcvd' <= Len(stream)
      /\ rd <= rcvd /\ rcvd \in Nat
  BY ReadMoreType DEF IInv, Input
<1>2. SameRequest
  BY <1>1 DEF ReadMore, SameRequest, clientVars
<1>3. AtRequest
  <2> SUFFICES ASSUME ~AtRequest PROVE FALSE
    OBVIOUS
  <2>1. nresp = Len(bounds)
    BY DEF AtRequest, IInv, Observed
  <2>2. rd = Len(stream)
    BY <2>1 DEF AtHeader, First, Sent
  <2>3. PICK k \in 1..Len(stream) - rcvd : TRUE
    BY DEF ReadMore
  <2> QED
    BY <1>1, <2>2, <2>3
<1>4. /\ First \in Nat /\ End \in Nat /\ CurrentEnds # {} /\ BufCap > 1
  BY <1>3, CurrentRequest DEF ConformingClient
<1>5. PICK h : h \in CurrentEnds
  BY <1>4
<1>6. AtLine(parser, First, rd) /\ rd <= h
  BY <1>3, <1>5 DEF AtHeader
<1>7. HeaderParsed(o, First, h)
  BY <1>1, <1>4, <1>5, <1>6, ParseConforming DEF CurrentEnds
<1>8. \A g \in CurrentEnds : g = h
  BY <1>4, <1>5, OneHeaderEnd DEF CurrentEnds
<1>9. CASE o.pa.status = "PREBODY" /\ o.pa.last = h /\ o.rd = h + 1
  <2>1. o.rd <= rcvd'
    <3>1. parser.last <= rd
      BY <1>1, <1>6 DEF AtLine
    <3>2. o.rd \in rd..rcvd'
      BY <1>1, <3>1, ParseSomeType
    <3> QED
      BY <1>1, <3>2
  <2>2. HeaderRead'
    BY <1>2, <1>3, <1>5, <1>7, <1>9, RequestUnchanged DEF HeaderRead, HeaderParsed
  <2> QED
    BY <1>2, <1>3, <1>7, <1>9, <2>1, <2>2 DEF HeaderParsed
<1>10. CASE o.pa.status # "PREBODY" /\ AtLine(o.pa, First, o.rd) /\ o.rd <= h
  BY <1>2, <1>3, <1>7, <1>8, <1>10 DEF HeaderParsed
<1> QED
  BY <1>7, <1>9, <1>10 DEF HeaderParsed

(* It then waits for the rest of the header, *)
LEMMA AwaitHeaderPosition ==
  ASSUME SameRequest, AtRequest, nresp \in 0..Len(bounds),
         NEW o, AtLine(pa', First, o.rd), \A h \in CurrentEnds : o.rd <= h,
         NEW callback \in {"_get_first_request", "_get_request"}, AwaitHeader(callback, o)
  PROVE  Position'
<1>1. rd' = o.rd /\ call_next' = callback
  BY DEF AwaitHeader, NoBody, Await
<1>2. nresp' \in 0..Len(bounds')
  BY DEF SameRequest
<1>3. AtHeader(pa, rd)'
  BY <1>1, RequestUnchanged DEF AtHeader, AtLine
<1> QED
  BY <1>1, <1>2, <1>3 DEF Position

(* _get_first_request *)
LEMMA GetFirstRequestPosition ==
  ASSUME BodyInv, Observed', ConformingClient, Sent, Position, GetFirstRequest
  PROVE  Position'
<1>1. /\ ReadMore("_get_first_request") /\ _get_first_request
      /\ "_get_first_request" \in ReadCallbacks
  BY DEF GetFirstRequest, ReadCallbacks
<1>2. /\ IInv /\ pconf = NoConf /\ chunk_streamer.status # "DONE" /\ pa \in Parser
      /\ nresp \in 0..Len(bounds) /\ AtHeader(pa, rd)
      /\ rcvd' \in Nat /\ rcvd' <= Len(stream)
  <2>1. Open /\ call_next = "_get_first_request"
    BY <1>1 DEF ReadMore, Open
  <2> QED
    BY <1>1, <2>1, ReadMoreType DEF BodyInv, FirstRequest, IInv, NullConf, Input, Position
<1>3. PICK o \in ParseSome(stream, pa, rd, rcvd') :
        /\ pa' = o.pa
        /\ \/ o.err # None
           \/ /\ pconf' \in HostServers(stream, o.pa)
              /\ \/ o.pa.status = "PREBODY" /\ _dispatch(o.rd)
                 \/ o.pa.status # "PREBODY" /\ AwaitHeader("_get_request", o)
                 \/ "slots" \in Faults /\ NoBody(o.rd) /\ Throw("500", resp_file)
           \/ /\ Fields(stream, o.pa, "host") = {}
              /\ \/ o.pa.status # "PREBODY" /\ AwaitHeader("_get_first_request", o)
                 \/ o.pa.status = "PREBODY" /\ NoBody(o.rd) /\ Throw("400", resp_file)
  BY <1>1 DEF _get_first_request
<1>4. /\ SameRequest /\ AtRequest /\ o.err = None
      /\ \/ /\ o.pa.status = "PREBODY" /\ HeaderRead'
            /\ o.rd = pa'.last + 1 /\ pa'.last + 1 <= rcvd'
         \/ /\ o.pa.status # "PREBODY" /\ AtLine(pa', First, o.rd)
            /\ \A h \in CurrentEnds : o.rd <= h
  BY <1>1, <1>2, <1>3, HeaderPosition
<1>5. CASE /\ pconf' \in HostServers(stream, o.pa)
           /\ o.pa.status = "PREBODY" /\ _dispatch(o.rd)
  <2>1. pconf' \in Servers
    BY <1>1, <1>2, <1>3, <1>5, HostSelectsServer
  <2> QED
    BY <1>2, <1>4, <1>5, <2>1, DispatchPosition
<1>6. CASE /\ o.pa.status # "PREBODY"
           /\ AwaitHeader("_get_request", o) \/ AwaitHeader("_get_first_request", o)
  BY <1>2, <1>4, <1>6, AwaitHeaderPosition
<1>7. CASE "slots" \in Faults /\ NoBody(o.rd) /\ Throw("500", resp_file)
  <2>1. call_next' = "_write_then_close"
    BY <1>2, <1>7, ThrowLeads DEF NoBody
  <2>2. ~ServedClient
    BY <1>7 DEF ServedClient
  <2> QED
    BY <1>4, <2>1, <2>2, RequestUnchanged, GivesUpPosition
<1>8. CASE /\ Fields(stream, o.pa, "host") = {}
           /\ o.pa.status = "PREBODY" /\ NoBody(o.rd) /\ Throw("400", resp_file)
  <2>1. call_next' = "_write_then_close"
    BY <1>2, <1>8, ThrowLeads DEF NoBody
  <2>2. ~ServedClient
    <3>1. /\ HeaderRead' /\ pa'.first = First /\ pa'.last \in CurrentEnds
      BY <1>4, <1>8, RequestUnchanged DEF HeaderRead
    <3>2. Fields(stream, o.pa, "host") = HeaderFields(stream, First, pa'.last, "host")
      BY <1>3, <3>1, FieldsOfHeader
    <3> QED
      BY <1>2, <1>4, <1>8, <3>1, <3>2, CurrentRequest DEF FitsServers
  <2> QED
    BY <1>4, <2>1, <2>2, RequestUnchanged, GivesUpPosition
<1> QED
  BY <1>3, <1>4, <1>5, <1>6, <1>7, <1>8

(* _get_request and _get_new_request *)
LEMMA GetRequestPosition ==
  ASSUME IInv, Observed', ConformingClient, Sent, nresp \in 0..Len(bounds),
         NEW callback \in {"_get_request", "_get_new_request"}, ReadMore(callback),
         NEW parser \in Parser, AtHeader(parser, rd), _get_request(parser)
  PROVE  Position'
<1>1. callback \in ReadCallbacks /\ call_next = callback
  BY DEF ReadCallbacks, ReadMore
<1>2. /\ pconf' = pconf /\ pconf \in Servers
      /\ rcvd' \in Nat /\ rcvd' <= Len(stream)
  BY <1>1, ReadMoreType DEF _get_request, IInv, NullConf, Input
<1>3. PICK o \in ParseSome(stream, parser, rd, rcvd') :
        /\ pa' = o.pa
        /\ \/ o.err # None
           \/ o.pa.status = "PREBODY" /\ _dispatch(o.rd)
           \/ o.pa.status # "PREBODY" /\ AwaitHeader("_get_request", o)
  BY DEF _get_request
<1>4. /\ SameRequest /\ AtRequest /\ o.err = None
      /\ \/ /\ o.pa.status = "PREBODY" /\ HeaderRead'
            /\ o.rd = pa'.last + 1 /\ pa'.last + 1 <= rcvd'
         \/ /\ o.pa.status # "PREBODY" /\ AtLine(pa', First, o.rd)
            /\ \A h \in CurrentEnds : o.rd <= h
  BY <1>1, <1>3, HeaderPosition
<1>5. CASE o.pa.status = "PREBODY" /\ _dispatch(o.rd)
  BY <1>2, <1>4, <1>5, DispatchPosition
<1>6. CASE o.pa.status # "PREBODY" /\ AwaitHeader("_get_request", o)
  BY <1>4, <1>6, AwaitHeaderPosition
<1> QED
  BY <1>3, <1>4, <1>5, <1>6

(* Nothing is known of the place of a closed connection. *)
LEMMA ClosePosition ==
  ASSUME Close
  PROVE  Position'
  BY DEF Close, Position, Open

(* A step that moves nothing *)
LEMMA SamePosition ==
  ASSUME Position, SameRequest,
         UNCHANGED <<call_next, event_set, pa, chunk_streamer, in_file, rd>>
  PROVE  Position'
<1>1. /\ HeaderRead' = HeaderRead /\ ReadingBody' = ReadingBody
      /\ BodyInFile' = BodyInFile
  BY RequestUnchanged DEF HeaderRead, ReadingBody, BodyInFile, SameRequest
<1>2. AtHeader(pa, rd)' = AtHeader(pa, rd)
  BY RequestUnchanged DEF AtHeader, AtLine
<1>3. Open' = Open /\ RequestLine(stream, pa)' = RequestLine(stream, pa)
  BY DEF Open, RequestLine, SameRequest
<1> QED
  BY <1>1, <1>2, <1>3, RequestUnchanged DEF Position, SameRequest

(* The first line of the next request is where the one before it ended. *)
LEMMA NewHeader ==
  ASSUME IInv, Sent, nresp \in 0..Len(bounds), rd = First
  PROVE  NewParser(rd) \in Parser /\ AtHeader(NewParser(rd), rd)
<1>1. First \in Nat
  BY BoundaryType DEF IInv, First
<1>2. NewParser(rd) \in Parser
  BY <1>1 DEF NewParser, Parser, ParserStatus
<1>3. AtLine(NewParser(rd), First, rd)
  BY <1>1 DEF AtLine, NewParser
<1>4. ASSUME AtRequest, NEW h \in CurrentEnds PROVE rd <= h
  <2>1. End \in Nat
    BY <1>4, CurrentRequest
  <2>2. h \in First+2..End-1
    BY DEF CurrentEnds, HeaderEnds
  <2> QED
    BY <1>1, <2>1, <2>2
<1> QED
  BY <1>2, <1>3, <1>4 DEF AtHeader

(* _read_body, resumed *)
LEMMA ReadBodyActionPosition ==
  ASSUME IInv, Observed', ConformingClient, Sent, Position, ReadBody
  PROVE  Position'
<1>1. /\ ReadMore("_read_body") /\ "_read_body" \in ReadCallbacks
      /\ UNCHANGED <<pa, pconf>> /\ Open /\ call_next = "_read_body"
      /\ _read_body(chunk_streamer, in_file, rd)
  BY DEF ReadBody, ReadMore, ReadCallbacks, Open
<1>2. SameRequest
  BY <1>1 DEF ReadMore, clientVars, SameRequest
<1>3. /\ rd \in Nat /\ rcvd' \in Nat /\ rd <= rcvd' /\ rcvd' <= Len(stream)
      /\ chunk_streamer \in Streamer /\ pconf' \in Servers
  BY <1>1, ReadMoreType DEF IInv, Input, NullConf
<1>4. nresp \in 0..Len(bounds) /\ ReadingBody
  BY <1>1 DEF Position
<1>5. HeaderRead' /\ ReadsBody(stream[First+1])
  BY <1>1, <1>2, <1>4, RequestUnchanged DEF ReadingBody, HeaderRead
<1>6. InBody(stream, First, pa'.last, End, chunk_streamer, rd, in_file)
  BY <1>1, <1>4 DEF ReadingBody
<1> QED
  BY <1>1, <1>2, <1>3, <1>4, <1>5, <1>6, ReadBodyPosition

(* _wait_cgi *)
LEMMA WaitCgiPosition ==
  ASSUME Observed', Position, WaitCgi
  PROVE  Position'
<1>1. /\ Open /\ call_next = "_wait_cgi" /\ SameRequest
      /\ UNCHANGED <<pa, in_file, rd>>
      /\ _wait_cgi(child.state, child.waited)
  BY DEF WaitCgi, Writable, clientVars, Open, SameRequest
<1>2. /\ HeaderRead /\ rd = End
      /\ RequestLine(stream, pa).m = "POST" => BodyInFile
  BY <1>1 DEF Position
<1>3. HeaderRead' /\ rd' = End' /\ BodyInFile' = BodyInFile
  BY <1>1, <1>2, RequestUnchanged DEF HeaderRead, BodyInFile, SameRequest
<1>4. RequestLine(stream', pa') = RequestLine(stream, pa)
  BY <1>1 DEF SameRequest
<1> QED
  BY <1>1, <1>2, <1>3, <1>4, CgiAnswers, AnswersPosition

(* The last byte of an answer takes the connection to the next request. *)
LEMMA ResponseSentPosition ==
  ASSUME IInv, Sent, nresp \in 0..Len(bounds), HeaderRead, rd = End,
         UNCHANGED <<rd, stream, bounds>>, nresp' = nresp + 1,
         call_next' = "_get_new_request"
  PROVE  Position'
<1>1. AtRequest
  BY DEF HeaderRead
<1>2. /\ nresp \in Nat /\ Len(bounds) \in Nat /\ Boundary(nresp + 1) = End
  BY <1>1, CurrentRequest
<1>3. nresp' \in 0..Len(bounds')
  BY <1>1, <1>2 DEF AtRequest
<1>4. First' = Boundary(nresp + 1)
  BY DEF First, Boundary
<1> QED
  BY <1>2, <1>3, <1>4 DEF Position

(* _write *)
LEMMA WritePosition ==
  ASSUME IInv, Observed', Sent, Position, NEW res, Write(res)
  PROVE  Position'
<1>1. /\ Open /\ call_next = "_write" /\ UNCHANGED clientVars /\ UNCHANGED <<stream, bounds>>
  BY DEF Write, Writable, clientVars, Open
<1>2. HeaderRead /\ rd = End /\ nresp \in 0..Len(bounds)
  BY <1>1 DEF Position
<1>3. PICK w \in Written :
        /\ Finished(res)
        /\ \/ res = "WRITE_ERROR" /\ Close
           \/ /\ UNCHANGED <<pconf, pa, chunk_streamer, in_file, child, rd>>
              /\ \/ res = "READ_ERROR"    /\ Throw("500", resp_file)
                 \/ res = "PARTIAL_WRITE" /\ SendMore(w)
                 \/ res = "OK_FINISHED"   /\ ResponseSent(w)
  BY DEF Write
<1>4. CASE Close
  BY <1>4, ClosePosition
<1>5. CASE UNCHANGED <<pa, rd>> /\ res = "READ_ERROR" /\ Throw("500", resp_file)
  <2>1. SameRequest
    BY <1>1, <1>3, <1>5 DEF SameRequest, Finished
  <2>2. HeaderRead' /\ rd' = End'
    BY <1>2, <1>5, <2>1, RequestUnchanged DEF HeaderRead
  <2>3. call_next' # "_wait_cgi"
    BY <1>5, ThrowLeads
  <2> QED
    BY <1>5, <2>2, <2>3, ThrowAnswers, AnswersPosition
<1>6. CASE /\ UNCHANGED <<pa, chunk_streamer, in_file, rd>>
           /\ res = "PARTIAL_WRITE" /\ SendMore(w)
  <2>1. SameRequest
    BY <1>1, <1>3, <1>6 DEF SameRequest, Finished
  <2> QED
    BY <1>6, <2>1, SamePosition DEF SendMore
<1>7. CASE UNCHANGED rd /\ res = "OK_FINISHED" /\ ResponseSent(w)
  <2>1. nresp' = nresp + 1 /\ call_next' = "_get_new_request"
    BY <1>3, <1>7 DEF Finished, ResponseSent
  <2> QED
    BY <1>1, <1>2, <1>7, <2>1, ResponseSentPosition
<1> QED
  BY <1>3, <1>4, <1>5, <1>6, <1>7

(* _write_then_close *)
LEMMA WriteThenClosePosition ==
  ASSUME Position, NEW res, WriteThenClose(res)
  PROVE  Position'
<1>1. PICK w \in Written :
        /\ Finished(res)
        /\ \/ Close
           \/ /\ res = "PARTIAL_WRITE" /\ SendMore(w)
              /\ UNCHANGED <<pconf, pa, chunk_streamer, in_file, child, rd>>
  BY DEF WriteThenClose
<1>2. CASE Close
  BY <1>2, ClosePosition
<1>3. CASE /\ res = "PARTIAL_WRITE" /\ SendMore(w)
           /\ UNCHANGED <<pconf, pa, chunk_streamer, in_file, child, rd>>
  <2>1. SameRequest
    BY <1>1, <1>3 DEF WriteThenClose, Writable, clientVars, Finished, SameRequest
  <2> QED
    BY <1>3, <2>1, SamePosition DEF SendMore
<1> QED
  BY <1>1, <1>2, <1>3

(* Only the client adds to what was sent. *)
LEMMA SentUnchanged ==
  ASSUME Sent, UNCHANGED <<stream, bounds, payloads>>
  PROVE  Sent'
  BY DEF Sent, Boundary

(* A call of operator() adds nothing to what was sent. *)
LEMMA WorkerSendsNothing ==
  ASSUME Worker
  PROVE  UNCHANGED <<stream, bounds, payloads>>
  BY DEF Worker, GetFirstRequest, GetRequest, GetNewRequest, ReadBody, ReadMore,
         RecvNothing, WaitCgi, Write, WriteThenClose, Writable, clientVars

(* The inductive invariant, with the ones it rests on *)
KeepAliveInv == BodyInv /\ Sent /\ Position

(* A connection that was just accepted is at its first request. *)
LEMMA InitKeepAliveInv == Init => KeepAliveInv
<1> SUFFICES ASSUME Init PROVE Sent /\ Position
  BY InitBodyInv DEF KeepAliveInv
<1>1. Len(bounds) = 0 /\ Boundary(0) = 0 /\ First = 0 /\ ~AtRequest
  BY DEF Init, Boundary, First, AtRequest
<1>2. Sent
  BY <1>1 DEF Init, Sent
<1>3. AtHeader(pa, rd)
  BY <1>1 DEF Init, AtHeader, AtLine, NewParser
<1> QED
  BY <1>1, <1>2, <1>3 DEF Init, Position

(* The invariant is inductive, as long as the client keeps to the
   protocol. *)
LEMMA NextKeepAliveInv ==
  ConformingClient /\ KeepAliveInv /\ [Next]_vars => KeepAliveInv'
<1> SUFFICES ASSUME ConformingClient, KeepAliveInv, [Next]_vars PROVE KeepAliveInv'
  OBVIOUS
<1>1. /\ BodyInv /\ BodyInv' /\ IInv /\ IInv' /\ Observed' /\ Sent /\ Position
  BY NextBodyInv DEF KeepAliveInv, BodyInv, IInv
<1>2. CASE Worker
  <2>1. Sent'
    BY <1>1, <1>2, WorkerSendsNothing, SentUnchanged
  <2>2. ASSUME GetFirstRequest PROVE Position'
    BY <1>1, <2>2, GetFirstRequestPosition
  <2>3. ASSUME GetRequest PROVE Position'
    <3>1. /\ ReadMore("_get_request") /\ _get_request(pa)
          /\ Open /\ call_next = "_get_request"
      BY <2>3 DEF GetRequest, ReadMore, Open
    <3>2. nresp \in 0..Len(bounds) /\ AtHeader(pa, rd) /\ pa \in Parser
      BY <1>1, <3>1 DEF Position, IInv, Input
    <3> QED
      BY <1>1, <3>1, <3>2, GetRequestPosition
  <2>4. ASSUME GetNewRequest PROVE Position'
    <3>1. /\ ReadMore("_get_new_request") /\ _get_request(NewParser(rd))
          /\ Open /\ call_next = "_get_new_request"
      BY <2>4 DEF GetNewRequest, _get_new_request, ReadMore, Open
    <3>2. nresp \in 0..Len(bounds) /\ rd = First
      BY <1>1, <3>1 DEF Position
    <3>3. NewParser(rd) \in Parser /\ AtHeader(NewParser(rd), rd)
      BY <1>1, <3>2, NewHeader
    <3> QED
      BY <1>1, <3>1, <3>2, <3>3, GetRequestPosition
  <2>5. ASSUME ReadBody PROVE Position'
    BY <1>1, <2>5, ReadBodyActionPosition
  <2>6. ASSUME RecvNothing PROVE Position'
    BY <2>6, ClosePosition DEF RecvNothing
  <2>7. ASSUME WaitCgi PROVE Position'
    BY <1>1, <2>7, WaitCgiPosition
  <2>8. ASSUME \E res \in Results : Write(res) \/ WriteThenClose(res)
        PROVE  Position'
    BY <1>1, <2>8, WritePosition, WriteThenClosePosition
  <2> QED
    BY <1>1, <1>2, <2>1, <2>2, <2>3, <2>4, <2>5, <2>6, <2>7, <2>8
       DEF Worker, KeepAliveInv
<1>3. CASE ClientSend
  BY <1>1, <1>3, ClientSendPosition DEF KeepAliveInv
<1>4. CASE ClientLeaves \/ ChildEnds \/ UNCHANGED vars
  <2>1. /\ UNCHANGED <<stream, bounds, payloads>> /\ SameRequest
        /\ UNCHANGED <<call_next, event_set, pa, chunk_streamer, in_file, rd>>
    BY <1>4 DEF ClientLeaves, ChildEnds, vars, conVars, clientVars, SameRequest
  <2> QED
    BY <1>1, <2>1, SentUnchanged, SamePosition DEF KeepAliveInv
<1> QED
  BY <1>2, <1>3, <1>4 DEF Next

(* With such a client, every reachable state of a connection satisfies
   it. *)
THEOREM KeepAliveInvariant ==
  ASSUME ConformingClient
  PROVE  Spec => []KeepAliveInv
<1>1. KeepAliveInv /\ [Next]_vars => KeepAliveInv'
  BY NextKeepAliveInv
<1> QED
  BY <1>1, InitKeepAliveInv, PTL DEF Spec

(* A connection that is kept goes on at the first byte of the client's
   next request: whatever the request, however its bytes arrive and
   whatever fails, all of the one before it has been consumed and nothing
   else (parse_some, _read_body, read_some_chunked, _discard_trailer, and
   NewParser in _get_new_request). *)
THEOREM KeepAlive ==
  ASSUME ConformingClient
  PROVE  Spec => []KeepAliveAtBoundary
<1>1. KeepAliveInv => KeepAliveAtBoundary
  <2> SUFFICES ASSUME KeepAliveInv, Open PROVE KeepAliveAtBoundary
    BY DEF KeepAliveAtBoundary
  <2>1. Position /\ call_next \in ReadCallbacks \cup WriteCallbacks
    BY DEF KeepAliveInv, BodyInv, IInv, Control
  <2>2. call_next = "_get_new_request" => rd = Boundary(nresp)
    BY <2>1 DEF Position, First
  <2>3. ASSUME call_next \notin {"_get_new_request", "_write_then_close"}
        PROVE  pa.first = Boundary(nresp)
    <3>1. CASE call_next \in {"_get_first_request", "_get_request"}
      BY <2>1, <3>1 DEF Position, AtHeader, AtLine, First
    <3>2. CASE call_next \in {"_read_body", "_wait_cgi", "_write"}
      BY <2>1, <3>2 DEF Position, ReadingBody, HeaderRead, First
    <3> QED
      BY <2>1, <2>3, <3>1, <3>2 DEF ReadCallbacks, WriteCallbacks
  <2> QED
    BY <2>2, <2>3 DEF KeepAliveAtBoundary
<1> QED
  BY <1>1, KeepAliveInvariant, PTL

(* The file a CGI script started for a POST reads is the body of that very
   request, all of it and nothing of the requests before and after it, or,
   on a full disk, what closeFile could still write of it and no byte that
   is not its own (_dispatch, _read_body, openFile, closeFile). *)
THEOREM OwnBody ==
  ASSUME ConformingClient, OneChunkClient
  PROVE  Spec => []CgiReadsOwnBody
<1>1. KeepAliveInv => CgiReadsOwnBody
  <2> SUFFICES ASSUME KeepAliveInv, child.state # "none",
                      RequestLine(stream, pa).m = "POST"
               PROVE  Left(in_file, payloads[nresp + 1], rd)
    BY DEF CgiReadsOwnBody, Left
  <2>1. IInv /\ Sent /\ Position /\ Open /\ call_next = "_wait_cgi"
    BY DEF KeepAliveInv, BodyInv, IInv, Control, PidMatchesCallback
  <2>2. /\ HeaderRead /\ BodyInFile /\ nresp \in 0..Len(bounds)
        /\ AtRequest /\ pa.last \in CurrentEnds
    BY <2>1 DEF Position, HeaderRead
  <2>3. payloads[nresp + 1] = Body(stream, First, pa.last, End)
    BY <2>1, <2>2, CurrentRequest DEF BodyInFile
  <2> QED
    BY <2>2, <2>3 DEF BodyInFile
<1> QED
  BY <1>1, KeepAliveInvariant, PTL

-----------------------------------------------------------------------------
(* Answers and their pages *)

(* The connection is sending an answer. *)
Answering == call_next \in {"_write", "_write_then_close"}

(* What is being streamed is not at its end. *)
Streaming == Open /\ Answering /\ wr.phase = "stream" => wr.left > 0

(* The line of the request has been consumed. *)
LineRead == pa.first <= pa.last /\ (pa.status = "PREBODY" => pa.first < rd)

(* The request is for a script. *)
CgiRequest == pa.status = "PREBODY" /\ RequestLine(stream, pa).t \in CgiTargets

(* The script may have left output that cannot be read, and there is a page
   for that error, which is lost. *)
Lost ==
  "malformed" \in CgiOutputs /\ CgiRequest /\ pconf # NoConf /\ "500" \in ErrorPages

(* What each callback knows of the request, and the page of its answer *)
Asked ==
  /\ LineRead
  /\ Open => /\ call_next = "_read_body" => pa.status = "PREBODY"
             /\ call_next = "_wait_cgi" => CgiRequest
             /\ Answering => wr.body = "page" \/ Lost

(* A callback that ends in an answer has it ready in _wr, from its first
   byte and with its page, and one that goes on knows its request. *)
Prepared ==
  /\ Open'
  /\ call_next' = "_read_body" => pa'.status = "PREBODY"
  /\ call_next' = "_wait_cgi" => CgiRequest'
  /\ Answering' => wr'.phase = "first" /\ (wr'.body = "page" \/ Lost')

(* A response is prepared with its page. *)
LEMMA RespondPrepared ==
  ASSUME NEW left, NEW open, Respond(left, "page", open)
  PROVE  Prepared
  BY DEF Respond, Response, Prepared, Open

(* So is the page for an error, unless a file is already open: that of a
   script whose output cannot be read. *)
LEMMA ThrowPrepared ==
  ASSUME NEW code, NEW open, Throw(code, open),
         open => code = "500" /\ "malformed" \in CgiOutputs /\ CgiRequest'
  PROVE  Prepared
<1>1. wr'.phase = "first" /\ (wr'.body = "page" \/ Lost')
  <2>1. CASE ~open
    BY <2>1 DEF Throw, ErrorPage, Response
  <2>2. CASE pconf' # NoConf /\ code \in ErrorPages /\ open
    <3>1. Lost'
      BY <2>2 DEF Lost
    <3>2. wr'.phase = "first"
      BY DEF Throw, ErrorPage, Response
    <3> QED
      BY <3>1, <3>2
  <2>3. CASE pconf' = NoConf \/ code \notin ErrorPages
    BY <2>3 DEF Throw, ErrorPage, Response
  <2> QED
    BY <2>1, <2>2, <2>3
<1>2. /\ call_next' \in {"_write", "_write_then_close"} /\ event_set' = "POLLOUT"
  BY DEF Throw
<1> QED
  BY <1>1, <1>2 DEF Prepared, Open

(* A callback that waits for input has no answer to prepare. *)
LEMMA AwaitPrepared ==
  ASSUME NEW callback \in ReadCallbacks, Await(callback),
         callback = "_read_body" => pa'.status = "PREBODY"
  PROVE  Prepared
  BY DEF ReadCallbacks, Await, Prepared, Answering, Open

(* A file that is opened on a closed stream is read. *)
LEMMA ServeFilePrepared ==
  ASSUME ~resp_file, ServeFile
  PROVE  Prepared
  BY RespondPrepared DEF ServeFile

(* _wait_cgi goes on waiting, or prepares the page of the script. *)
LEMMA CgiPrepared ==
  ASSUME ~resp_file, CgiRequest', NEW state, NEW waited, _wait_cgi(state, waited)
  PROVE  Prepared
<1>1. CASE call_next' = "_wait_cgi" /\ event_set' = "POLLOUT"
  BY <1>1 DEF Prepared, Answering, Open
<1>2. CASE Throw("500", resp_file)
  BY <1>2, ThrowPrepared
<1>3. CASE _prepare_cgi_page
  BY <1>3, ServeFilePrepared, ThrowPrepared DEF _prepare_cgi_page
<1> QED
  BY <1>1, <1>2, <1>3 DEF _wait_cgi

(* _prepare_page prepares one. *)
LEMMA PagePrepared ==
  ASSUME ~resp_file, stream' = stream, pa'.status = "PREBODY", _prepare_page
  PROVE  Prepared
<1>1. CASE RequestLine(stream, pa').t \in CgiTargets /\ RunCgi
  <2>1. CgiRequest'
    BY <1>1 DEF CgiRequest
  <2> QED
    BY <1>1, <2>1, CgiPrepared, ThrowPrepared DEF RunCgi
<1>2. CASE ServeFile
  BY <1>2, ServeFilePrepared
<1>3. CASE \E open : Respond(0, "page", open)
  BY <1>3, RespondPrepared
<1>4. CASE Throw("404", FALSE)
  BY <1>4, ThrowPrepared
<1> QED
  BY <1>1, <1>2, <1>3, <1>4 DEF _prepare_page

(* _read_body waits for more, prepares one or gives up. *)
LEMMA ReadBodyPrepared ==
  ASSUME ~resp_file, stream' = stream, pa'.status = "PREBODY",
         NEW st, NEW file, NEW r, _read_body(st, file, r)
  PROVE  Prepared
<1>1. "_read_body" \in ReadCallbacks
  BY DEF ReadCallbacks
<1> QED
  BY <1>1, AwaitPrepared, PagePrepared, ThrowPrepared DEF _read_body

(* So does _dispatch, *)
LEMMA DispatchPrepared ==
  ASSUME ~resp_file, stream' = stream, pa'.status = "PREBODY",
         NEW r, _dispatch(r)
  PROVE  Prepared
  BY RespondPrepared, ThrowPrepared, PagePrepared, ReadBodyPrepared
     DEF _dispatch, StartBody

(* and so do _get_first_request *)
LEMMA FirstRequestPrepared ==
  ASSUME ~resp_file, stream' = stream, _get_first_request
  PROVE  Prepared
<1>1. {"_get_first_request", "_get_request"} \subseteq ReadCallbacks
  BY DEF ReadCallbacks
<1> QED
  BY <1>1, AwaitPrepared, DispatchPrepared, ThrowPrepared
     DEF _get_first_request, ParseError, AwaitHeader

(* and _get_request. *)
LEMMA RequestPrepared ==
  ASSUME ~resp_file, stream' = stream, NEW parser, _get_request(parser)
  PROVE  Prepared
<1>1. "_get_request" \in ReadCallbacks
  BY DEF ReadCallbacks
<1> QED
  BY <1>1, AwaitPrepared, DispatchPrepared, ThrowPrepared
     DEF _get_request, ParseError, AwaitHeader

-----------------------------------------------------------------------------
(* The kinds of steps of the server, as an observer of the socket
   distinguishes them *)

(* A callback reads, works or waits. *)
Works ==
  /\ Open /\ ~Answering /\ Prepared
  /\ rcvd' \in Nat /\ rcvd <= rcvd'
  /\ UNCHANGED <<bounds, heads, nresp>>

(* The connection is dropped. *)
Drops == Open /\ ~Open' /\ UNCHANGED <<bounds, rcvd, heads, nresp>>

(* write_some was called. *)
Writes(res) ==
  /\ Open /\ Answering
  /\ UNCHANGED <<bounds, rcvd>> /\ CountHead(res) /\ Finished(res)
  /\ \/ res = "WRITE_ERROR" /\ ~Open'
     \/ /\ res = "PARTIAL_WRITE" /\ Open' /\ Answering'
        /\ wr'.phase # "first" /\ wr'.body = wr.body
        /\ wr'.phase = "stream" => wr'.left > 0
        /\ UNCHANGED <<stream, pa, pconf>>
     \/ res = "OK_FINISHED" /\ (Open' => call_next' = "_get_new_request")

(* Nothing happens to the connection. *)
Rests == UNCHANGED <<call_next, event_set, wr, bounds, rcvd, heads, nresp,
                     stream, pa, pconf>>

(* write_some meets its file open while there is something left to stream. *)
LEMMA WriteSomeStreams ==
  ASSUME IInv, Streaming, "read" \notin Faults, Open, Answering,
         NEW res, NEW w \in Written, WriteSome(res, w)
  PROVE  /\ res \in {"WRITE_ERROR", "PARTIAL_WRITE", "OK_FINISHED"}
         /\ res = "PARTIAL_WRITE"
              => /\ w.phase # "first" /\ w.body = wr.body
                 /\ w.phase = "stream" => w.left > 0
<1>1. wr \in Writer /\ wr.left \in Nat /\ (wr.left > 0 => resp_file)
  BY DEF IInv, Control, RespFileMatchesResponse, Answering, Writer
<1>2. CASE SendHeader(res, w)
  BY <1>1, <1>2 DEF SendHeader, Writer
<1>3. CASE SendBlock(res, w)
  <2>1. wr.phase = "stream" /\ wr.left > 0 /\ resp_file
    BY <1>1, <1>3 DEF SendBlock, Streaming
  <2>2. /\ res = IF wr.left > 1 THEN "PARTIAL_WRITE" ELSE "OK_FINISHED"
        /\ w = [wr EXCEPT !.left = wr.left - 1]
    BY <1>3, <2>1 DEF SendBlock
  <2> QED
    BY <1>1, <2>1, <2>2 DEF Writer
<1> QED
  BY <1>2, <1>3 DEF WriteSome

(* _write and _write_then_close send, finish or close. *)
LEMMA WriteWrites ==
  ASSUME IInv, Streaming, "read" \notin Faults, NEW res,
         Write(res) \/ WriteThenClose(res)
  PROVE  Writes(res)
<1>1. Open /\ Answering /\ UNCHANGED <<bounds, rcvd>>
  BY DEF Write, WriteThenClose, Writable, clientVars, Open, Answering
<1>2. PICK w \in Written :
        /\ WriteSome(res, w) /\ CountHead(res) /\ Finished(res)
        /\ \/ res # "PARTIAL_WRITE" /\ Close
           \/ res = "READ_ERROR"
           \/ res = "PARTIAL_WRITE" /\ SendMore(w)
           \/ res = "OK_FINISHED" /\ ResponseSent(w)
  BY DEF Write, WriteThenClose
<1>3. /\ res \in {"WRITE_ERROR", "PARTIAL_WRITE", "OK_FINISHED"}
      /\ res = "PARTIAL_WRITE"
           => /\ w.phase # "first" /\ w.body = wr.body
              /\ w.phase = "stream" => w.left > 0
  BY <1>1, <1>2, WriteSomeStreams
<1>4. CASE res # "PARTIAL_WRITE" /\ Close
  <2>1. ~Open'
    BY <1>4 DEF Close, Open
  <2> QED
    BY <1>1, <1>2, <1>3, <1>4, <2>1 DEF Writes
<1>5. CASE res = "PARTIAL_WRITE" /\ SendMore(w)
  <2>1. Open' /\ Answering' /\ wr' = w /\ UNCHANGED <<stream, pa, pconf>>
    <3>1. UNCHANGED <<stream, pa, pconf>>
      BY <1>5 DEF Write, WriteThenClose, Writable, clientVars, Close,
                  Throw, ResponseSent
    <3> QED
      BY <1>1, <1>5, <3>1 DEF SendMore, Open, Answering
  <2> QED
    BY <1>1, <1>2, <1>3, <1>5, <2>1 DEF Writes
<1>6. CASE res = "OK_FINISHED" /\ ResponseSent(w)
  <2>1. call_next' = "_get_new_request"
    BY <1>6 DEF ResponseSent
  <2> QED
    BY <1>1, <1>2, <1>6, <2>1 DEF Writes
<1> QED
  BY <1>2, <1>3, <1>4, <1>5, <1>6

(* A callback that reads, and what it reads *)
LEMMA ReadWorks ==
  ASSUME IInv, NEW callback \in ReadCallbacks, ReadMore(callback), Prepared
  PROVE  Works
<1>1. Open /\ ~Answering /\ UNCHANGED <<bounds, heads, nresp>>
  BY DEF ReadMore, ReadCallbacks, Open, Answering, clientVars
<1>2. rcvd' \in Nat /\ rcvd <= rcvd'
  <2>1. PICK k \in 1..Len(stream) - rcvd : rcvd' = rcvd + k
    BY DEF ReadMore
  <2>2. rcvd \in Nat /\ Len(stream) \in Nat
    BY DEF IInv, Input
  <2> QED
    BY <2>1, <2>2
<1> QED
  BY <1>1, <1>2 DEF Works

(* Every step is one of these, or the client sends a request. *)
LEMMA StepKinds ==
  ASSUME IInv, Streaming, Asked, "read" \notin Faults, [Next]_vars
  PROVE  Works \/ Drops \/ (\E res : Writes(res)) \/ ClientSend \/ Rests
<1>1. ASSUME NEW callback \in ReadCallbacks, ReadMore(callback)
      PROVE  ~resp_file /\ stream' = stream
  BY <1>1, ReadMoreType
<1>2. CASE GetFirstRequest
  <2>1. ReadMore("_get_first_request") /\ "_get_first_request" \in ReadCallbacks
    BY <1>2 DEF GetFirstRequest, ReadCallbacks
  <2> QED
    BY <1>1, <1>2, <2>1, FirstRequestPrepared, ReadWorks DEF GetFirstRequest
<1>3. CASE GetRequest
  <2>1. ReadMore("_get_request") /\ "_get_request" \in ReadCallbacks
    BY <1>3 DEF GetRequest, ReadCallbacks
  <2> QED
    BY <1>1, <1>3, <2>1, RequestPrepared, ReadWorks DEF GetRequest
<1>4. CASE GetNewRequest
  <2>1. ReadMore("_get_new_request") /\ "_get_new_request" \in ReadCallbacks
    BY <1>4 DEF GetNewRequest, ReadCallbacks
  <2> QED
    BY <1>1, <1>4, <2>1, RequestPrepared, ReadWorks DEF GetNewRequest, _get_new_request
<1>5. CASE ReadBody
  <2>1. ReadMore("_read_body") /\ "_read_body" \in ReadCallbacks
    BY <1>5 DEF ReadBody, ReadCallbacks
  <2>2. pa'.status = "PREBODY"
    BY <1>5, <2>1 DEF ReadBody, ReadMore, Asked, Open
  <2> QED
    BY <1>1, <1>5, <2>1, <2>2, ReadBodyPrepared, ReadWorks DEF ReadBody
<1>6. CASE RecvNothing
  BY <1>6 DEF RecvNothing, Close, clientVars, Drops, Open
<1>7. CASE WaitCgi
  <2>1. /\ Open /\ call_next = "_wait_cgi"
        /\ UNCHANGED <<bounds, rcvd, heads, nresp, stream, pa>>
        /\ _wait_cgi(child.state, child.waited)
    BY <1>7 DEF WaitCgi, Writable, clientVars, Open
  <2>2. ~resp_file /\ rcvd \in Nat /\ CgiRequest'
    BY <2>1 DEF IInv, Control, RespFileMatchesResponse, Input, Asked, CgiRequest,
                RequestLine
  <2> QED
    BY <2>1, <2>2, CgiPrepared DEF Works, Answering
<1>8. CASE \E res \in Results : Write(res) \/ WriteThenClose(res)
  BY <1>8, WriteWrites
<1>9. CASE ClientLeaves \/ ChildEnds \/ UNCHANGED vars
  BY <1>9 DEF ClientLeaves, ChildEnds, vars, conVars, clientVars, Rests
<1> QED
  BY <1>2, <1>3, <1>4, <1>5, <1>6, <1>7, <1>8, <1>9 DEF Next, Worker

-----------------------------------------------------------------------------
(* No page is lost. *)

(* A file is streamed to its end and not beyond. *)
LEMMA StreamingStep ==
  ASSUME IInv, Streaming, Asked, "read" \notin Faults, [Next]_vars
  PROVE  Streaming'
<1>1. CASE ClientSend
  BY <1>1 DEF ClientSend, conVars, Streaming, Open, Answering
<1>2. CASE Works
  BY <1>2 DEF Works, Prepared, Streaming
<1>3. CASE Drops
  BY <1>3 DEF Drops, Streaming
<1>4. CASE \E res : Writes(res)
  BY <1>4 DEF Writes, Streaming, Answering
<1>5. CASE Rests
  BY <1>5 DEF Rests, Streaming, Open, Answering
<1> QED
  BY <1>1, <1>2, <1>3, <1>4, <1>5, StepKinds

(* parse_some takes the whole request line or does not get to the body. *)
LEMMA ParseReadsLine ==
  ASSUME NEW s, NEW parser \in Parser, NEW lo \in Nat, NEW hi \in Nat,
         parser.last <= lo, parser.first <= parser.last,
         parser.status = "PREBODY" => parser.first < lo,
         NEW o \in ParseSome(s, parser, lo, hi)
  PROVE  o.pa.first <= o.pa.last /\ (o.pa.status = "PREBODY" => o.pa.first < o.rd)
<1>1. parser.first \in Nat /\ parser.last \in Nat
  BY DEF Parser
<1>2. CASE parser.status = "PREBODY"
  <2>1. o = Outcome(parser, parser.status, parser.last, lo, None)
    BY <1>2 DEF ParseSome
  <2> QED
    BY <1>1, <1>2, <2>1, OutcomeFields
<1>3. CASE parser.status # "PREBODY"
  <2>1. PICK p \in lo..hi :
          \/ \E r, err : o = Outcome(parser, StatusAt(parser, lo, p), p, r, err)
          \/ o = Outcome(parser, "PREBODY", p, p + 1, None)
    BY <1>3 DEF ParseSome
  <2>2. parser.first <= p /\ p \in Nat
    BY <1>1
  <2>3. StatusAt(parser, lo, p) # "PREBODY"
    BY <1>3 DEF StatusAt
  <2>4. CASE \E r, err : o = Outcome(parser, StatusAt(parser, lo, p), p, r, err)
    BY <2>2, <2>3, <2>4, OutcomeFields
  <2>5. CASE o = Outcome(parser, "PREBODY", p, p + 1, None)
    <3>1. o.pa.first = parser.first /\ o.pa.last = p /\ o.rd = p + 1
      BY <2>5, OutcomeFields
    <3> QED
      BY <1>1, <2>2, <3>1
  <2> QED
    BY <2>1, <2>4, <2>5
<1> QED
  BY <1>2, <1>3

(* What has been consumed of a request stays consumed. *)
LEMMA HeaderReadsLine ==
  ASSUME IInv, NEW callback \in ReadCallbacks, ReadMore(callback),
         NEW parser \in Parser, parser.last <= rd, parser.first <= parser.last,
         parser.status = "PREBODY" => parser.first < rd,
         NEW o \in ParseSome(stream, parser, rd, rcvd'), pa' = o.pa,
         NoBody(o.rd) \/ _dispatch(o.rd)
  PROVE  LineRead'
<1>1. /\ rd \in Nat /\ rcvd' \in Nat /\ rd <= rcvd' /\ rcvd' <= Len(stream)
      /\ stream \in Seq(Symbol) /\ Len(stream) \in Nat
  BY ReadMoreType
<1>2. /\ o.pa.first <= o.pa.last
      /\ o.pa.status = "PREBODY" => o.pa.first < o.rd
      /\ o.pa \in Parser /\ o.rd \in rd..rcvd' /\ o.pa.last <= o.rd
  BY <1>1, ParseReadsLine, ParseSomeType
<1>3. o.rd \in Nat /\ o.rd <= rcvd' /\ o.pa.first \in Nat /\ o.pa.last \in Nat
  BY <1>1, <1>2 DEF Parser
<1>4. rd' \in Nat /\ o.rd <= rd'
  <2>1. CASE NoBody(o.rd)
    BY <1>3, <2>1 DEF NoBody
  <2>2. CASE _dispatch(o.rd)
    <3>1. o.pa.last <= Len(stream)
      BY <1>1, <1>2, <1>3
    <3>2. chunk_streamer \in Streamer /\ in_file \subseteq 1..rd
      BY DEF IInv, Input
    <3>3. rd' \in o.rd..rcvd'
      BY <1>1, <1>2, <2>2, <3>1, <3>2, DispatchInput
    <3> QED
      BY <1>1, <1>3, <3>3
  <2> QED
    BY <2>1, <2>2
<1> QED
  BY <1>2, <1>3, <1>4 DEF LineRead

(* So does every step. *)
LEMMA LineReadStep ==
  ASSUME IInv, LineRead, [Next]_vars
  PROVE  LineRead'
<1>1. /\ pa \in Parser /\ pa.last <= rd /\ rd \in Nat /\ pa.first \in Nat
      /\ stream \in Seq(Symbol) /\ chunk_streamer \in Streamer
      /\ in_file \in SUBSET (1..rd) /\ pa.last \in Nat
  BY DEF IInv, Input, Parser
<1>2. CASE GetFirstRequest
  <2>1. ReadMore("_get_first_request") /\ "_get_first_request" \in ReadCallbacks
    BY <1>2 DEF GetFirstRequest, ReadCallbacks
  <2>2. PICK o \in ParseSome(stream, pa, rd, rcvd') :
          pa' = o.pa /\ (NoBody(o.rd) \/ _dispatch(o.rd))
    BY <1>2 DEF GetFirstRequest, _get_first_request, ParseError, AwaitHeader
  <2> QED
    BY <1>1, <2>1, <2>2, HeaderReadsLine DEF LineRead
<1>3. ASSUME NEW callback \in {"_get_request", "_get_new_request"}, ReadMore(callback),
             NEW parser \in Parser, parser.last <= rd, parser.first <= parser.last,
             parser.status = "PREBODY" => parser.first < rd, _get_request(parser)
      PROVE  LineRead'
  <2>1. callback \in ReadCallbacks
    BY DEF ReadCallbacks
  <2>2. PICK o \in ParseSome(stream, parser, rd, rcvd') :
          pa' = o.pa /\ (NoBody(o.rd) \/ _dispatch(o.rd))
    BY <1>3 DEF _get_request, ParseError, AwaitHeader
  <2> QED
    BY <1>3, <2>1, <2>2, HeaderReadsLine
<1>4. CASE GetRequest
  BY <1>1, <1>3, <1>4 DEF GetRequest, LineRead
<1>5. CASE GetNewRequest
  <2>1. /\ NewParser(rd) \in Parser /\ NewParser(rd).last = rd
        /\ NewParser(rd).first = rd /\ NewParser(rd).status # "PREBODY"
    BY <1>1 DEF NewParser, Parser, ParserStatus
  <2> QED
    BY <1>1, <1>3, <1>5, <2>1 DEF GetNewRequest, _get_new_request
<1>6. CASE ReadBody
  <2>1. /\ ReadMore("_read_body") /\ "_read_body" \in ReadCallbacks
        /\ pa' = pa /\ _read_body(chunk_streamer, in_file, rd)
    BY <1>6 DEF ReadBody, ReadCallbacks
  <2>2. /\ rcvd' \in Nat /\ rd <= rcvd' /\ rcvd' <= Len(stream) /\ Len(stream) \in Nat
    BY <1>1, <2>1, ReadMoreType
  <2>3. pa'.last <= Len(stream) /\ rd \in 0..rcvd'
    BY <1>1, <2>1, <2>2
  <2>4. rd' \in rd..rcvd'
    BY <1>1, <2>1, <2>2, <2>3, ReadBodyInput
  <2> QED
    BY <1>1, <2>1, <2>2, <2>4 DEF LineRead
<1>7. CASE UNCHANGED <<pa, rd>>
  BY <1>7 DEF LineRead
<1>8. ASSUME NEW res, Write(res) \/ WriteThenClose(res)
      PROVE  UNCHANGED <<pa, rd>>
  BY <1>8 DEF Write, WriteThenClose, Close
<1> QED
  BY <1>2, <1>4, <1>5, <1>6, <1>7, <1>8
     DEF Next, Worker, RecvNothing, Close, WaitCgi, ClientSend, ClientLeaves,
         ChildEnds, vars, conVars

(* A client that sends more changes nothing that has been asked. *)
LEMMA SendKeepsAsked ==
  ASSUME IInv, Asked, ClientSend
  PROVE  Asked'
<1>1. PICK r \in Requests : stream' = stream \o r.syms
  BY DEF ClientSend
<1>2. r.syms \in Seq(Symbol) /\ stream \in Seq(Symbol)
  BY ConStateAssumption DEF IInv, Input
<1>3. UNCHANGED <<call_next, event_set, pconf, pa, wr, rd>>
  BY DEF ClientSend, conVars
<1>4. pa.status = "PREBODY" => RequestLine(stream', pa) = RequestLine(stream, pa)
  <2> SUFFICES ASSUME pa.status = "PREBODY"
               PROVE  stream'[pa.first + 1] = stream[pa.first + 1]
    BY DEF RequestLine
  <2>1. pa.first \in Nat /\ pa.first < rd /\ rd \in Nat /\ rd <= Len(stream)
    BY <1>2 DEF IInv, Input, Asked, LineRead, Parser
  <2>2. pa.first + 1 \in 1..Len(stream)
    BY <1>2, <2>1
  <2> QED
    BY <1>1, <1>2, <2>2
<1>5. CgiRequest' = CgiRequest
  BY <1>3, <1>4 DEF CgiRequest
<1> QED
  BY <1>3, <1>5 DEF Asked, LineRead, Open, Answering, Lost

(* The page of an answer stays there until it has gone out. *)
LEMMA AskedStep ==
  ASSUME IInv, Streaming, Asked, "read" \notin Faults, [Next]_vars
  PROVE  Asked'
<1>1. LineRead'
  BY LineReadStep DEF Asked
<1>2. CASE ClientSend
  BY <1>2, SendKeepsAsked
<1>3. CASE Works
  BY <1>1, <1>3 DEF Works, Prepared, Asked
<1>4. CASE Drops
  BY <1>1, <1>4 DEF Drops, Asked
<1>5. ASSUME NEW res, Writes(res) PROVE Asked'
  <2>1. CASE ~Open'
    BY <1>1, <2>1 DEF Asked
  <2>2. CASE Open' /\ call_next' = "_get_new_request"
    BY <1>1, <2>2 DEF Asked, Answering
  <2>3. CASE Answering' /\ wr'.body = wr.body /\ UNCHANGED <<stream, pa, pconf>>
    <3>1. wr.body = "page" \/ Lost
      BY <1>5 DEF Writes, Asked
    <3>2. Lost' = Lost
      BY <2>3 DEF Lost, CgiRequest, RequestLine
    <3> QED
      BY <1>1, <2>3, <3>1, <3>2 DEF Asked, Answering
  <2> QED
    BY <1>5, <2>1, <2>2, <2>3 DEF Writes
<1>6. CASE Rests
  <2>1. Lost' = Lost /\ CgiRequest' = CgiRequest
    BY <1>6 DEF Rests, Lost, CgiRequest, RequestLine
  <2> QED
    BY <1>1, <1>6, <2>1 DEF Rests, Asked, Open, Answering
<1> QED
  BY <1>2, <1>3, <1>4, <1>5, <1>6, StepKinds

(* Nothing has been asked at first. *)
LEMMA InitAsked == Init => Streaming /\ Asked
<1> SUFFICES ASSUME Init PROVE Streaming /\ Asked
  OBVIOUS
<1>1. LineRead
  BY DEF Init, LineRead, NewParser
<1> QED
  BY <1>1 DEF Init, Streaming, Asked, Answering

(* Every response has the page that was prepared for it: no open() meets a
   stream that the response before has left open.  One is lost: the 500
   page of a server that has one, for a script whose output cannot be read,
   which _prepare_cgi_page refuses with that output still open
   (_prepare_page, _prepare_cgi_page, _prepare_error, _write). *)
THEOREM PagesGoOut ==
  ASSUME "read" \notin Faults
  PROVE  Spec => []PageNotLost
<1>1. Asked => PageNotLost
  BY DEF Asked, PageNotLost, Answering, Lost, CgiRequest
<1>2. IInv /\ Streaming /\ Asked /\ [Next]_vars => Streaming' /\ Asked'
  BY StreamingStep, AskedStep
<1> QED
  BY <1>1, <1>2, InitAsked, InitIInv, NextIInv, PTL DEF Spec

-----------------------------------------------------------------------------
(* What has been counted agrees with what is being sent: one status line   *)
(* more than whole answers exactly while an answer is on its way.          *)
Counted ==
  /\ heads \in {nresp, nresp + 1} /\ heads <= Len(bounds)
  /\ Open => (heads = nresp + 1 <=> Answering /\ wr.phase # "first")

CountInv == KeepAliveInv /\ Streaming /\ Asked /\ Counted

(* The counts go on agreeing with what is sent. *)
LEMMA CountedStep ==
  ASSUME ConformingClient, "read" \notin Faults, CountInv, [Next]_vars
  PROVE  Counted'
<1>1. /\ IInv /\ IInv' /\ Sent /\ Position /\ Streaming /\ Asked /\ Counted
      /\ heads \in Nat /\ nresp \in Nat /\ Len(bounds) \in Nat
  BY NextIInv DEF CountInv, KeepAliveInv, BodyInv, IInv, Observed
<1>2. CASE ClientSend
  <2>1. Len(bounds') = Len(bounds) + 1
    BY <1>1, <1>2, SentGrows
  <2>2. UNCHANGED <<call_next, event_set, wr, heads, nresp>>
    BY <1>2 DEF ClientSend, conVars
  <2>3. Open' = Open /\ Answering' = Answering
    BY <2>2 DEF Open, Answering
  <2> QED
    BY <1>1, <2>1, <2>2, <2>3 DEF Counted
<1>3. CASE Works
  BY <1>1, <1>3 DEF Works, Prepared, Counted
<1>4. CASE Drops
  BY <1>1, <1>4 DEF Drops, Counted
<1>5. ASSUME NEW res, Writes(res) PROVE Counted'
  <2>1. nresp < Len(bounds)
    BY <1>1, <1>5 DEF Writes, Answering, Position, HeaderRead, AtRequest
  <2>2. /\ heads = IF wr.phase = "first" THEN nresp ELSE nresp + 1
        /\ UNCHANGED bounds
    BY <1>1, <1>5 DEF Writes, Counted
  <2>3. heads' = IF wr.phase = "first" /\ res # "WRITE_ERROR" THEN heads + 1 ELSE heads
    BY <1>5 DEF Writes, CountHead
  <2>4. nresp' = IF res = "OK_FINISHED" THEN nresp + 1 ELSE nresp
    BY <1>5 DEF Writes, Finished
  <2>5. CASE res = "WRITE_ERROR" /\ ~Open'
    BY <1>1, <2>1, <2>2, <2>3, <2>4, <2>5 DEF Counted
  <2>6. CASE res = "PARTIAL_WRITE" /\ Answering' /\ wr'.phase # "first"
    BY <1>1, <2>1, <2>2, <2>3, <2>4, <2>6 DEF Counted
  <2>7. CASE res = "OK_FINISHED" /\ (Open' => call_next' = "_get_new_request")
    BY <1>1, <2>1, <2>2, <2>3, <2>4, <2>7 DEF Counted, Answering
  <2> QED
    BY <1>5, <2>5, <2>6, <2>7 DEF Writes
<1>6. CASE Rests
  BY <1>1, <1>6 DEF Rests, Counted, Open, Answering
<1> QED
  BY <1>1, <1>2, <1>3, <1>4, <1>5, <1>6, StepKinds

(* Nothing is counted at first. *)
LEMMA InitCountInv == Init => CountInv
<1> SUFFICES ASSUME Init PROVE Counted
  BY InitKeepAliveInv, InitAsked DEF CountInv
<1> QED
  BY DEF Init, Counted, Answering

(* The invariant with the counts is inductive. *)
LEMMA NextCountInv ==
  ASSUME ConformingClient, "read" \notin Faults, CountInv, [Next]_vars
  PROVE  CountInv'
<1>1. KeepAliveInv'
  BY NextKeepAliveInv DEF CountInv
<1>2. IInv /\ Streaming /\ Asked
  BY DEF CountInv, KeepAliveInv, BodyInv
<1>3. Streaming' /\ Asked' /\ Counted'
  BY <1>2, StreamingStep, AskedStep, CountedStep
<1> QED
  BY <1>1, <1>3 DEF CountInv

(* A client that keeps to the protocol gets at most one status line for
   each of its requests, and none before it has sent one, whatever errors
   the request runs into on the way (_write, _write_then_close, Throw). *)
THEOREM OneStatusLine ==
  ASSUME ConformingClient, "read" \notin Faults
  PROVE  Spec => []OneStatusLinePerRequest
<1>1. CountInv => OneStatusLinePerRequest
  <2> SUFFICES ASSUME CountInv PROVE OneStatusLinePerRequest
    OBVIOUS
  <2>1. heads \in Nat /\ nresp \in Nat /\ Counted
    BY DEF CountInv, KeepAliveInv, BodyInv, IInv, Observed
  <2> QED
    BY <2>1 DEF Counted, OneStatusLinePerRequest
<1>2. CountInv /\ [Next]_vars => CountInv'
  BY NextCountInv
<1> QED
  BY <1>1, <1>2, InitCountInv, PTL DEF Spec

-----------------------------------------------------------------------------
(* The refinement                                                          *)

(* The requests that have been received whole *)
Arrived  == {i \in DOMAIN bounds : bounds[i] <= rcvd}
Received == Cardinality(Arrived)

(* The requests end one after the other. *)
Ordered == \A i \in 1..Len(bounds) : \A j \in i..Len(bounds) : bounds[i] <= bounds[j]

ExchangeInv == CountInv /\ Ordered

(* What the steps of the proof know of the numbers *)
LEMMA ExchangeTypes ==
  ASSUME ExchangeInv
  PROVE  /\ IInv /\ Sent /\ Position /\ Streaming /\ Asked /\ Counted
         /\ KeepAliveInv
         /\ heads \in Nat /\ nresp \in Nat /\ rcvd \in Nat
         /\ bounds \in Seq(Nat) /\ Len(bounds) \in Nat
         /\ stream \in Seq(Symbol) /\ Len(stream) \in Nat
         /\ rd \in Nat /\ rd <= rcvd /\ rcvd <= Len(stream)
  BY DEF ExchangeInv, CountInv, KeepAliveInv, BodyInv, IInv, Input, Observed

(* What was received is counted in a number. *)
LEMMA ArrivedFinite ==
  ASSUME bounds \in Seq(Nat)
  PROVE  IsFiniteSet(Arrived) /\ Received \in Nat
<1>1. IsFiniteSet(1..Len(bounds))
  BY FS_Interval
<1>2. Arrived \subseteq 1..Len(bounds)
  BY DEF Arrived
<1> QED
  BY <1>1, <1>2, FS_Subset, FS_CardinalityType DEF Received

(* Receiving more never takes a request back. *)
LEMMA ReceivedGrows ==
  ASSUME bounds \in Seq(Nat), UNCHANGED bounds,
         rcvd \in Nat, rcvd' \in Nat, rcvd <= rcvd'
  PROVE  Received \in Nat /\ Received' \in Nat /\ Received <= Received'
<1>1. IsFiniteSet(Arrived) /\ Received \in Nat
  BY ArrivedFinite
<1>2. IsFiniteSet(Arrived') /\ Received' \in Nat
  <2>1. IsFiniteSet(1..Len(bounds))
    BY FS_Interval
  <2>2. Arrived' \subseteq 1..Len(bounds)
    BY DEF Arrived
  <2> QED
    BY <2>1, <2>2, FS_Subset, FS_CardinalityType DEF Received
<1>3. Arrived \subseteq Arrived'
  <2> SUFFICES ASSUME NEW i \in DOMAIN bounds, bounds[i] <= rcvd PROVE bounds[i] <= rcvd'
    BY DEF Arrived
  <2>1. bounds[i] \in Nat
    OBVIOUS
  <2> QED
    BY <2>1
<1> QED
  BY <1>1, <1>2, <1>3, FS_Subset DEF Received

(* A request that the client sends ends after what has been received. *)
LEMMA SendStep ==
  ASSUME ExchangeInv, IInv', ConformingClient, ClientSend
  PROVE  Ordered' /\ Received' = Received
<1>1. /\ IInv /\ Sent /\ rcvd \in Nat /\ rcvd <= Len(stream)
      /\ Len(stream) \in Nat /\ bounds \in Seq(Nat) /\ Ordered
  BY ExchangeTypes DEF ExchangeInv
<1>2. UNCHANGED rcvd
  BY DEF ClientSend
<1>n. PICK n \in Nat : n = Len(bounds)
  BY <1>1
<1>3. /\ Sent' /\ Len(bounds') = n + 1
      /\ Boundary(n)' = Boundary(n) /\ Boundary(n) = Len(stream)
      /\ \A i \in 1..n : bounds'[i] = bounds[i]
  <2>1. n \in 0..Len(bounds)
    BY <1>n
  <2> QED
    BY <1>1, <1>n, <2>1, SentGrows DEF Sent
<1>4. bounds' \in Seq(Nat) /\ bounds'[n+1] \in Nat
  BY <1>3 DEF IInv, Observed
<1>5. Len(stream) < bounds'[n+1]
  <2>1. WellSent(stream', Boundary((n + 1) - 1)', bounds'[n+1], payloads'[n+1])
    BY <1>3 DEF Sent
  <2>2. (n + 1) - 1 = n
    OBVIOUS
  <2>3. Boundary((n + 1) - 1)' = Boundary(n)'
    BY <2>2
  <2> QED
    BY <1>3, <2>1, <2>3 DEF WellSent
<1>6. \A i \in 1..n : bounds[i] \in Nat /\ bounds[i] <= Len(stream)
  BY <1>1, <1>n, BoundaryType DEF IInv, Boundary
<1>7. Ordered'
  <2> SUFFICES ASSUME NEW i \in 1..n+1, NEW j \in i..n+1
               PROVE  bounds'[i] <= bounds'[j]
    BY <1>3 DEF Ordered
  <2>1. CASE j \in 1..n
    <3>1. i \in 1..n /\ j \in i..n
      BY <2>1
    <3> QED
      BY <1>1, <1>3, <1>n, <3>1 DEF Ordered
  <2>2. CASE j = n + 1 /\ i \in 1..n
    BY <1>1, <1>3, <1>4, <1>5, <1>6, <2>2
  <2>3. CASE j = n + 1 /\ i = n + 1
    BY <1>4, <2>3
  <2> QED
    BY <2>1, <2>2, <2>3
<1>8. Arrived' = Arrived
  <2>1. DOMAIN bounds = 1..n /\ DOMAIN bounds' = 1..n+1
    BY <1>1, <1>n, <1>3, <1>4
  <2>2. ~(bounds'[n+1] <= rcvd)
    BY <1>1, <1>4, <1>5
  <2>3. \A i \in 1..n+1 : i \in 1..n \/ i = n + 1
    OBVIOUS
  <2>4. 1..n \subseteq 1..n+1
    OBVIOUS
  <2> QED
    BY <1>2, <1>3, <2>1, <2>2, <2>3, <2>4 DEF Arrived
<1> QED
  BY <1>7, <1>8 DEF Received

(* An answer is sent to a request that was received to its end. *)
LEMMA AnswersReceived ==
  ASSUME ExchangeInv, ServedClient, Open, Answering
  PROVE  nresp < Received
<1>1. /\ IInv /\ Sent /\ Position /\ nresp \in Nat /\ rcvd \in Nat /\ rd \in Nat
      /\ rd <= rcvd /\ bounds \in Seq(Nat) /\ Len(bounds) \in Nat /\ Ordered
  BY ExchangeTypes DEF ExchangeInv
<1>2. AtRequest /\ rd = End
  BY <1>1 DEF Answering, Position, HeaderRead
<1>3. nresp + 1 \in 1..Len(bounds) /\ bounds[nresp + 1] <= rcvd
  BY <1>1, <1>2 DEF AtRequest, End
<1>4. 1..nresp + 1 \subseteq Arrived
  <2> SUFFICES ASSUME NEW i \in 1..nresp + 1
               PROVE  i \in DOMAIN bounds /\ bounds[i] <= rcvd
    BY DEF Arrived
  <2>1. i \in 1..Len(bounds) /\ nresp + 1 \in i..Len(bounds)
    BY <1>1, <1>3
  <2>2. bounds[i] <= bounds[nresp + 1] /\ bounds[i] \in Nat /\ bounds[nresp + 1] \in Nat
    BY <1>1, <1>3, <2>1 DEF Ordered
  <2> QED
    BY <1>1, <1>3, <2>1, <2>2
<1>5. Cardinality(1..nresp + 1) = nresp + 1
  <2>1. Cardinality(1..nresp + 1)
          = IF 1 > nresp + 1 THEN 0 ELSE (nresp + 1) - 1 + 1
    BY <1>1, FS_Interval
  <2> QED
    BY <1>1, <2>1
<1>6. IsFiniteSet(Arrived) /\ Received \in Nat
  BY <1>1, ArrivedFinite
<1>7. Cardinality(1..nresp + 1) <= Received
  BY <1>4, <1>6, FS_Subset DEF Received
<1> QED
  BY <1>1, <1>5, <1>6, <1>7

(* Each step is one of Exchange, or changes nothing of what it shows. *)
LEMMA ExchangeStep ==
  ASSUME ServedClient, "read" \notin Faults, ExchangeInv, [Next]_vars
  PROVE  ExchangeInv' /\ [Abstract!Next]_<<Received, heads, nresp, Open>>
<1>1. /\ IInv /\ Sent /\ Position /\ Streaming /\ Asked /\ Counted
      /\ KeepAliveInv
      /\ heads \in Nat /\ nresp \in Nat /\ rcvd \in Nat
      /\ bounds \in Seq(Nat) /\ Ordered /\ CountInv
  BY ExchangeTypes DEF ExchangeInv
<1>2. ConformingClient /\ CountInv' /\ IInv'
  BY <1>1, NextCountInv, NextIInv DEF ServedClient
<1>3. UNCHANGED bounds => Ordered'
  BY <1>1 DEF Ordered
<1>4. UNCHANGED <<bounds, rcvd>> => Received' = Received
  BY DEF Received, Arrived
<1>5. CASE ClientSend
  <2>1. UNCHANGED <<event_set, heads, nresp>>
    BY <1>5 DEF ClientSend, conVars
  <2>2. Open' = Open
    BY <2>1 DEF Open
  <2> QED
    BY <1>2, <1>5, <2>1, <2>2, SendStep DEF ExchangeInv
<1>6. CASE Works
  <2>1. /\ Open /\ Open' /\ UNCHANGED <<bounds, heads, nresp>>
        /\ rcvd' \in Nat /\ rcvd <= rcvd'
    BY <1>6 DEF Works, Prepared
  <2>2. Received \in Nat /\ Received' \in Nat /\ Received <= Received'
    BY <1>1, <2>1, ReceivedGrows
  <2>3. CASE Received' = Received
    BY <1>2, <1>3, <2>1, <2>3 DEF ExchangeInv, Open
  <2>4. CASE Received' > Received
    <3>1. Open' = Open
      BY <2>1 DEF Open
    <3>2. Abstract!Receive
      BY <2>1, <2>2, <2>4, <3>1 DEF Abstract!Receive, Received, Arrived
    <3> QED
      BY <1>2, <1>3, <2>1, <3>2 DEF ExchangeInv, Abstract!Next
  <2> QED
    BY <2>2, <2>3, <2>4
<1>7. CASE Drops
  <2>1. Open' = FALSE
    BY <1>7 DEF Drops, Open
  <2>2. Abstract!Close
    BY <1>4, <1>7, <2>1 DEF Drops, Abstract!Close, Received, Arrived
  <2> QED
    BY <1>2, <1>3, <1>7, <2>2 DEF Drops, ExchangeInv, Abstract!Next
<1>8. ASSUME NEW res, Writes(res)
      PROVE  ExchangeInv' /\ [Abstract!Next]_<<Received, heads, nresp, Open>>
  <2>1. /\ Open /\ Answering /\ Received' = Received /\ Ordered' /\ Open' \in BOOLEAN
    BY <1>3, <1>4, <1>8 DEF Writes, Open
  <2>2. nresp < Received /\ Received \in Nat
    BY <1>1, <2>1, AnswersReceived, ArrivedFinite
  <2>3. heads = IF wr.phase = "first" THEN nresp ELSE nresp + 1
    BY <1>1, <2>1 DEF Counted
  <2>4. heads' = IF wr.phase = "first" /\ res # "WRITE_ERROR" THEN heads + 1 ELSE heads
    BY <1>8 DEF Writes, CountHead
  <2>5. nresp' = IF res = "OK_FINISHED" THEN nresp + 1 ELSE nresp
    BY <1>8 DEF Writes, Finished
  <2>6. CASE res = "WRITE_ERROR" /\ ~Open'
    <3>1. Open' = FALSE
      BY <2>6 DEF Open
    <3>2. Abstract!Close
      BY <2>1, <2>4, <2>5, <2>6, <3>1 DEF Abstract!Close, Received, Arrived
    <3> QED
      BY <1>2, <2>1, <3>2 DEF ExchangeInv, Abstract!Next
  <2>7. CASE res = "PARTIAL_WRITE" /\ Open'
    <3>1. Open' = Open /\ nresp' = nresp
      BY <2>1, <2>5, <2>7 DEF Open
    <3>2. CASE wr.phase = "first"
      <4>1. heads = nresp /\ heads' = heads + 1
        BY <2>3, <2>4, <2>7, <3>2
      <4>2. Abstract!Begin
        BY <2>1, <2>2, <3>1, <4>1 DEF Abstract!Begin, Received, Arrived
      <4> QED
        BY <1>2, <2>1, <4>2 DEF ExchangeInv, Abstract!Next
    <3>3. CASE wr.phase # "first"
      BY <1>2, <2>1, <2>4, <3>1, <3>3 DEF ExchangeInv
    <3> QED
      BY <3>2, <3>3
  <2>8. CASE res = "OK_FINISHED"
    <3>1. nresp' = nresp + 1 /\ heads' = nresp + 1
      BY <1>1, <2>3, <2>4, <2>5, <2>8
    <3>2. CASE wr.phase = "first"
      <4>1. heads = nresp
        BY <2>3, <3>2
      <4>2. Abstract!Begin
        BY <2>1, <2>2, <3>1, <4>1 DEF Abstract!Begin, Received, Arrived
      <4> QED
        BY <1>2, <2>1, <4>2 DEF ExchangeInv, Abstract!Next
    <3>3. CASE wr.phase # "first"
      <4>1. heads = nresp + 1 /\ nresp < heads
        BY <1>1, <2>3, <3>3
      <4>2. Abstract!End
        BY <2>1, <3>1, <4>1 DEF Abstract!End, Received, Arrived
      <4> QED
        BY <1>2, <2>1, <4>2 DEF ExchangeInv, Abstract!Next
    <3> QED
      BY <3>2, <3>3
  <2> QED
    BY <1>8, <2>6, <2>7, <2>8 DEF Writes
<1>9. CASE Rests
  <2>1. /\ Received' = Received /\ Ordered' /\ UNCHANGED <<event_set, heads, nresp>>
    BY <1>3, <1>4, <1>9 DEF Rests
  <2>2. Open' = Open
    BY <2>1 DEF Open
  <2> QED
    BY <1>2, <2>1, <2>2 DEF ExchangeInv
<1> QED
  BY <1>1, <1>5, <1>6, <1>7, <1>8, <1>9, StepKinds

(* A connection starts with nothing received and nothing answered. *)
LEMMA InitExchange == Init => ExchangeInv /\ Abstract!Init
<1> SUFFICES ASSUME Init PROVE ExchangeInv /\ Abstract!Init
  OBVIOUS
<1>1. Arrived = {} /\ Ordered
  BY DEF Init, Arrived, Ordered
<1>2. Received = 0
  BY <1>1, FS_EmptySet DEF Received
<1>3. Open = TRUE
  BY DEF Init, Open
<1>4. Abstract!Init
  BY <1>2, <1>3 DEF Init, Abstract!Init, Received, Arrived
<1> QED
  BY <1>1, <1>4, InitCountInv DEF ExchangeInv

(* A connection with a client it can serve does what Exchange promises:
   each request is answered once, in its turn, after all of it has been
   received, and nothing after the connection is closed (the chain of
   callbacks behind operator()). *)
THEOREM Exchanges ==
  ASSUME ServedClient, "read" \notin Faults
  PROVE  Spec => ImplementsExchange
<1>1. ExchangeInv /\ [Next]_vars
        => ExchangeInv' /\ [Abstract!Next]_<<Received, heads, nresp, Open>>
  BY ExchangeStep
<1> QED
  BY <1>1, InitExchange, PTL
     DEF Spec, ImplementsExchange, Abstract!Spec, Received, Arrived
=============================================================================
