---------------------------- MODULE RequestProofs ----------------------------
(***************************************************************************)
(* What parse_some and _read_body make of a request of a client that keeps *)
(* to the protocol: the header is accepted up to its empty line, and the   *)
(* body is read to its last byte and no further, in as many calls as it    *)
(* takes.  These are lemmas about one request; ExchangeProofs follows a    *)
(* connection from request to request with them.                           *)
(*                                                                         *)
(* The first part says that nothing depends on the offset a request has in *)
(* the input, the second follows the parser through the header, and the    *)
(* third the streamer through the body.                                    *)
(***************************************************************************)
EXTENDS Clients, BodyLimitProofs

(* The part of t after offset d + b repeats the part s[b+1..e] of s. *)
Shifted(s, t, b, e, d) ==
  /\ s \in Seq(Symbol) /\ t \in Seq(Symbol)
  /\ b \in Nat /\ e \in Nat /\ d \in Nat
  /\ e <= Len(s) /\ d + e <= Len(t)
  /\ \A i \in b+1..e : t[d+i] = s[i]

(* The same symbols, the other way round *)
LEMMA ShiftBack ==
  ASSUME NEW s, NEW t, NEW b, NEW e, NEW d, Shifted(s, t, b, e, d),
         NEW j \in d+b+1..d+e
  PROVE  j - d \in b+1..e /\ t[j] = s[j-d]
<1>1. b \in Nat /\ e \in Nat /\ d \in Nat
  BY DEF Shifted
<1>2. j - d \in b+1..e /\ d + (j - d) = j
  BY <1>1
<1> QED
  BY <1>2 DEF Shifted

(* Even offsets do not depend on where an input starts. *)
LEMMA SameDistance ==
  ASSUME NEW x \in Int, NEW y \in Int, NEW d \in Int
  PROVE  ((d + x) - (d + y)) % 2 = (x - y) % 2
<1>1. (d + x) - (d + y) = x - y
  OBVIOUS
<1> QED
  BY <1>1

(* A line that is good is good wherever it stands. *)
LEMMA ShiftLine ==
  ASSUME NEW s, NEW t, NEW b, NEW e, NEW d, Shifted(s, t, b, e, d),
         NEW q \in b..e-2, NEW status
  PROVE  GoodLine(t, status, d + q) <=> GoodLine(s, status, q)
<1>1. b \in Nat /\ e \in Nat /\ d \in Nat
  BY DEF Shifted
<1>2. q + 1 \in b+1..e /\ q + 2 \in b+1..e
      /\ d + (q + 1) = (d + q) + 1 /\ d + (q + 2) = (d + q) + 2
  BY <1>1
<1>3. t[(d + q) + 1] = s[q + 1] /\ t[(d + q) + 2] = s[q + 2]
  BY <1>2 DEF Shifted
<1> QED
  BY <1>3 DEF GoodLine

(* So the empty line of a request stands where it stood. *)
LEMMA ShiftHeaderEnd ==
  ASSUME NEW s, NEW t, NEW b, NEW e, NEW d, Shifted(s, t, b, e, d), NEW h \in Int
  PROVE  d + h \in HeaderEnds(t, d + b, d + e) <=> h \in HeaderEnds(s, b, e)
<1>1. b \in Nat /\ e \in Nat /\ d \in Nat
  BY DEF Shifted
<1>2. d + h \in (d+b)+2..(d+e)-1 <=> h \in b+2..e-1
  BY <1>1
<1> SUFFICES ASSUME h \in b+2..e-1
             PROVE  d + h \in HeaderEnds(t, d + b, d + e) <=> h \in HeaderEnds(s, b, e)
  BY <1>2 DEF HeaderEnds
<1>3. ((d + h) - (d + b)) % 2 = (h - b) % 2
  BY <1>1, SameDistance
<1>4. GoodLine(t, "START", d + b) <=> GoodLine(s, "START", b)
  BY <1>1, ShiftLine
<1>5. t[(d + h) + 1] = s[h + 1]
  <2>1. h + 1 \in b+1..e /\ d + (h + 1) = (d + h) + 1
    BY <1>1
  <2> QED
    BY <2>1 DEF Shifted
<1>6. ASSUME NEW q \in b+2..h-1
      PROVE  /\ d + q \in (d+b)+2..(d+h)-1
             /\ ((d + q) - (d + b)) % 2 = (q - b) % 2
             /\ GoodLine(t, "HEADER", d + q) <=> GoodLine(s, "HEADER", q)
  <2>1. q \in b..e-2 /\ q \in Int
    BY <1>1
  <2> QED
    BY <1>1, <2>1, SameDistance, ShiftLine
<1>7. ASSUME NEW p \in (d+b)+2..(d+h)-1
      PROVE  p - d \in b+2..h-1 /\ d + (p - d) = p
  BY <1>1
<1>8. (\A p \in (d+b)+2..(d+h)-1 : (p - (d + b)) % 2 = 0 => GoodLine(t, "HEADER", p))
      <=> (\A q \in b+2..h-1 : (q - b) % 2 = 0 => GoodLine(s, "HEADER", q))
  <2>1. ASSUME \A p \in (d+b)+2..(d+h)-1 : (p - (d + b)) % 2 = 0 => GoodLine(t, "HEADER", p),
               NEW q \in b+2..h-1, (q - b) % 2 = 0
        PROVE  GoodLine(s, "HEADER", q)
    BY <1>6, <2>1
  <2>2. ASSUME \A q \in b+2..h-1 : (q - b) % 2 = 0 => GoodLine(s, "HEADER", q),
               NEW p \in (d+b)+2..(d+h)-1, (p - (d + b)) % 2 = 0
        PROVE  GoodLine(t, "HEADER", p)
    <3>1. p - d \in b+2..h-1 /\ d + (p - d) = p
      BY <1>7
    <3>2. ((p - d) - b) % 2 = 0 /\ (GoodLine(t, "HEADER", p) <=> GoodLine(s, "HEADER", p - d))
      BY <1>6, <2>2, <3>1
    <3> QED
      BY <2>2, <3>1, <3>2
  <2> QED
    BY <2>1, <2>2
<1> QED
  BY <1>2, <1>3, <1>4, <1>5, <1>8 DEF HeaderEnds

(* The lines between two offsets move with the request. *)
LEMMA ShiftLines ==
  ASSUME NEW s, NEW t, NEW b, NEW e, NEW d, Shifted(s, t, b, e, d),
         NEW h \in Int, h <= e, NEW kind
  PROVE  /\ \A i \in Lines(s, [first |-> b, last |-> h], kind) :
              /\ i \in Int /\ t[d+i] = s[i]
              /\ d + i \in Lines(t, [first |-> d + b, last |-> d + h], kind)
         /\ \A j \in Lines(t, [first |-> d + b, last |-> d + h], kind) :
              /\ j \in Int /\ t[j] = s[j-d]
              /\ j - d \in Lines(s, [first |-> b, last |-> h], kind)
<1>1. b \in Nat /\ e \in Nat /\ d \in Nat
  BY DEF Shifted
<1>2. /\ Lines(s, [first |-> b, last |-> h], kind) = {i \in b+1..h : s[i].k = kind}
      /\ Lines(t, [first |-> d + b, last |-> d + h], kind)
           = {j \in (d+b)+1..d+h : t[j].k = kind}
  BY DEF Lines
<1>3. ASSUME NEW i \in b+1..h
      PROVE  d + i \in (d+b)+1..d+h /\ t[d+i] = s[i] /\ i \in Int
  BY <1>1 DEF Shifted
<1>4. ASSUME NEW j \in (d+b)+1..d+h
      PROVE  j - d \in b+1..h /\ t[j] = s[j-d] /\ j \in Int
  <2>1. j \in d+b+1..d+e /\ j - d \in b+1..h
    BY <1>1
  <2> QED
    BY <2>1, ShiftBack
<1> QED
  BY <1>2, <1>3, <1>4

(* And the header has the fields it had, *)
LEMMA ShiftFields ==
  ASSUME NEW s, NEW t, NEW b, NEW e, NEW d, Shifted(s, t, b, e, d),
         NEW h \in Int, h <= e, NEW kind
  PROVE  HeaderFields(t, d + b, d + h, kind) = HeaderFields(s, b, h, kind)
<1> DEFINE L == Lines(s, [first |-> b, last |-> h], kind)
           K == Lines(t, [first |-> d + b, last |-> d + h], kind)
<1>1. d \in Int
  BY DEF Shifted
<1>2. ASSUME NEW i \in L PROVE i \in Int /\ t[d+i] = s[i] /\ d + i \in K
  BY ShiftLines
<1>3. ASSUME NEW j \in K PROVE j \in Int /\ t[j] = s[j-d] /\ j - d \in L
  BY ShiftLines
<1>4. HeaderFields(s, b, h, kind) = {s[i] : i \in {j \in L : \A l \in L : j <= l}}
  BY DEF HeaderFields, Fields
<1>5. HeaderFields(t, d + b, d + h, kind) = {t[i] : i \in {j \in K : \A l \in K : j <= l}}
  BY DEF HeaderFields, Fields
<1> HIDE DEF L, K
<1>6. ASSUME NEW i \in L, \A l \in L : i <= l
      PROVE  d + i \in K /\ \A l \in K : d + i <= l
  <2>1. ASSUME NEW l \in K PROVE d + i <= l
    <3>1. i <= l - d /\ l \in Int /\ i \in Int
      BY <1>2, <1>3, <1>6
    <3> QED
      BY <1>1, <3>1
  <2> QED
    BY <1>2, <2>1
<1>7. ASSUME NEW j \in K, \A l \in K : j <= l
      PROVE  j - d \in L /\ \A l \in L : j - d <= l
  <2>1. ASSUME NEW l \in L PROVE j - d <= l
    <3>1. j <= d + l /\ l \in Int /\ j \in Int
      BY <1>2, <1>3, <1>7
    <3> QED
      BY <1>1, <3>1
  <2> QED
    BY <1>3, <2>1
<1>8. {s[i] : i \in {j \in L : \A l \in L : j <= l}}
        = {t[i] : i \in {j \in K : \A l \in K : j <= l}}
  BY <1>2, <1>3, <1>6, <1>7
<1> QED
  BY <1>4, <1>5, <1>8

(* joined where they were. *)
LEMMA ShiftJoined ==
  ASSUME NEW s, NEW t, NEW b, NEW e, NEW d, Shifted(s, t, b, e, d),
         NEW h \in Int, h <= e, NEW kind
  PROVE  Joined(t, [first |-> d + b, last |-> d + h], kind)
           <=> Joined(s, [first |-> b, last |-> h], kind)
<1> DEFINE L == Lines(s, [first |-> b, last |-> h], kind)
           K == Lines(t, [first |-> d + b, last |-> d + h], kind)
<1>1. d \in Int
  BY DEF Shifted
<1>2. ASSUME NEW i \in L PROVE i \in Int /\ t[d+i] = s[i] /\ d + i \in K
  BY ShiftLines
<1>3. ASSUME NEW j \in K PROVE j \in Int /\ t[j] = s[j-d] /\ j - d \in L
  BY ShiftLines
<1>4. /\ Joined(s, [first |-> b, last |-> h], kind) <=> \E i, j \in L : i # j
      /\ Joined(t, [first |-> d + b, last |-> d + h], kind) <=> \E i, j \in K : i # j
  BY DEF Joined
<1> HIDE DEF L, K
<1>5. ASSUME NEW i \in L, NEW j \in L, i # j
      PROVE  d + i \in K /\ d + j \in K /\ d + i # d + j
  <2>1. i \in Int /\ j \in Int /\ d + i \in K /\ d + j \in K
    BY <1>2
  <2> QED
    BY <1>1, <1>5, <2>1
<1>6. ASSUME NEW i \in K, NEW j \in K, i # j
      PROVE  i - d \in L /\ j - d \in L /\ i - d # j - d
  <2>1. i \in Int /\ j \in Int /\ i - d \in L /\ j - d \in L
    BY <1>3
  <2> QED
    BY <1>1, <1>6, <2>1
<1> QED
  BY <1>4, <1>5, <1>6

(* It announces chunks where it did. *)
LEMMA ShiftChunked ==
  ASSUME NEW s, NEW t, NEW b, NEW e, NEW d, Shifted(s, t, b, e, d),
         NEW h \in Int, h <= e
  PROVE  IsChunked(t, d + b, d + h) <=> IsChunked(s, b, h)
<1>1. /\ HeaderFields(t, d + b, d + h, "chunked") = HeaderFields(s, b, h, "chunked")
      /\ Joined(t, [first |-> d + b, last |-> d + h], "chunked")
           <=> Joined(s, [first |-> b, last |-> h], "chunked")
  BY ShiftFields, ShiftJoined
<1> QED
  BY <1>1 DEF IsChunked, InChunks, HeaderFields

(* Empty lines stay where they are. *)
LEMMA ShiftEmptyLines ==
  ASSUME NEW s, NEW t, NEW b, NEW e, NEW d, Shifted(s, t, b, e, d),
         NEW x \in Int, b <= x, EmptyLines(s, x, e) = {e}
  PROVE  EmptyLines(t, d + x, d + e) = {d + e}
<1>1. b \in Nat /\ e \in Nat /\ d \in Nat
  BY DEF Shifted
<1>2. ASSUME NEW i \in x+1..e
      PROVE  /\ t[d+i] = s[i]
             /\ i # x + 1 => t[(d+i)-1] = s[i-1]
             /\ d + i = (d + x) + 1 <=> i = x + 1
  <2>1. i \in b+1..e /\ (i # x + 1 => i - 1 \in b+1..e) /\ d + (i - 1) = (d + i) - 1
    BY <1>1
  <2>2. d + i = (d + x) + 1 <=> i = x + 1
    BY <1>1
  <2>3. \A j \in b+1..e : t[d+j] = s[j]
    BY DEF Shifted
  <2> QED
    BY <2>1, <2>2, <2>3
<1>3. d + e \in EmptyLines(t, d + x, d + e)
  <2>1. e \in x+1..e /\ IsNL(s[e]) /\ (e = x + 1 \/ IsNL(s[e-1]))
    BY DEF EmptyLines
  <2>2. d + e \in (d+x)+1..d+e
    BY <1>1, <2>1
  <2> QED
    BY <1>2, <2>1, <2>2 DEF EmptyLines
<1>4. ASSUME NEW j \in EmptyLines(t, d + x, d + e)
      PROVE  j = d + e
  <2>1. /\ j \in (d+x)+1..d+e /\ IsNL(t[j]) /\ (j = (d+x) + 1 \/ IsNL(t[j-1]))
    BY <1>4 DEF EmptyLines
  <2>2. j - d \in x+1..e /\ d + (j - d) = j
    BY <1>1, <2>1
  <2>3. IsNL(s[j-d]) /\ (j - d = x + 1 \/ IsNL(s[(j-d)-1]))
    BY <1>2, <2>1, <2>2
  <2>4. j - d \in EmptyLines(s, x, e)
    BY <2>2, <2>3 DEF EmptyLines
  <2> QED
    BY <2>2, <2>4
<1> QED
  BY <1>3, <1>4

(* The offsets of a body move with its request. *)
LEMMA ShiftOffsets ==
  ASSUME NEW s, NEW t, NEW b, NEW e, NEW d, Shifted(s, t, b, e, d),
         NEW h \in b+2..e-1, IsChunked(s, b, h) => h + 2 <= e /\ s[h+2].n \in Int
  PROVE  /\ IsChunked(t, d+b, d+h) <=> IsChunked(s, b, h)
         /\ BodySize(s, b, h, e) \in Int /\ BodyStart(s, b, h) \in Int
         /\ BodyEnd(s, b, h, e) \in Int /\ TrailerStart(s, b, h, e) \in Int
         /\ BodySize(t, d+b, d+h, d+e) = BodySize(s, b, h, e)
         /\ BodyStart(t, d+b, d+h) = d + BodyStart(s, b, h)
         /\ BodyEnd(t, d+b, d+h, d+e) = d + BodyEnd(s, b, h, e)
         /\ TrailerStart(t, d+b, d+h, d+e) = d + TrailerStart(s, b, h, e)
<1>1. b \in Nat /\ e \in Nat /\ d \in Nat /\ h \in Int /\ h <= e
  BY DEF Shifted
<1>2. IsChunked(t, d+b, d+h) <=> IsChunked(s, b, h)
  BY <1>1, ShiftChunked
<1>3. ASSUME IsChunked(s, b, h)
      PROVE  t[(d+h)+2] = s[h+2]
  <2>1. h + 2 \in b+1..e /\ d + (h + 2) = (d + h) + 2
    BY <1>1, <1>3
  <2> QED
    BY <2>1 DEF Shifted
<1>4. BodyStart(s, b, h) \in Int /\ BodyStart(t, d+b, d+h) = d + BodyStart(s, b, h)
  BY <1>1, <1>2 DEF BodyStart
<1>5. BodySize(s, b, h, e) \in Int /\ BodySize(t, d+b, d+h, d+e) = BodySize(s, b, h, e)
  <2>1. CASE IsChunked(s, b, h)
    BY <1>2, <1>3, <2>1 DEF BodySize
  <2>2. CASE ~IsChunked(s, b, h)
    BY <1>1, <1>2, <2>2 DEF BodySize
  <2> QED
    BY <2>1, <2>2
<1>6. BodyEnd(s, b, h, e) \in Int /\ BodyEnd(t, d+b, d+h, d+e) = d + BodyEnd(s, b, h, e)
  BY <1>1, <1>4, <1>5 DEF BodyEnd
<1>7. TrailerStart(s, b, h, e) \in Int
      /\ TrailerStart(t, d+b, d+h, d+e) = d + TrailerStart(s, b, h, e)
  BY <1>1, <1>5, <1>6 DEF TrailerStart
<1> QED
  BY <1>2, <1>4, <1>5, <1>6, <1>7

(* A chunked body is one wherever it stands. *)
LEMMA ShiftChunkedBody ==
  ASSUME NEW s, NEW t, NEW b, NEW e, NEW d, Shifted(s, t, b, e, d),
         NEW h \in b+2..e-1, IsChunked(s, b, h), s[h+2].n \in Int,
         ChunkedBody(s, b, h, e)
  PROVE  ChunkedBody(t, d+b, d+h, d+e)
<1> DEFINE x == TrailerStart(s, b, h, e)
<1>1. b \in Nat /\ e \in Nat /\ d \in Nat /\ h \in Int /\ h <= e
  BY DEF Shifted
<1>2. /\ s[h+2].k = "size" /\ s[h+2].n >= 0 /\ IsNL(s[h+3])
      /\ x \in h+3..e-1 /\ (s[h+2].n > 0 => IsNL(s[x]))
      /\ EmptyLines(s, x, e) = {e}
  BY DEF ChunkedBody
<1>3. x \in Int /\ TrailerStart(t, d+b, d+h, d+e) = d + x
  BY <1>1, <1>2, ShiftOffsets
<1> HIDE DEF x
<1>4. EmptyLines(t, d + x, d + e) = {d + e}
  BY <1>1, <1>2, <1>3, ShiftEmptyLines
<1>5. t[(d+h)+2] = s[h+2] /\ t[(d+h)+3] = s[h+3] /\ t[d+x] = s[x]
  <2>1. /\ h + 2 \in b+1..e /\ d + (h + 2) = (d + h) + 2
        /\ h + 3 \in b+1..e /\ d + (h + 3) = (d + h) + 3
        /\ x \in b+1..e
    BY <1>1, <1>2, <1>3
  <2>2. \A i \in b+1..e : t[d+i] = s[i]
    BY DEF Shifted
  <2>3. t[d+(h+2)] = s[h+2] /\ t[d+(h+3)] = s[h+3]
    BY <2>1, <2>2
  <2>4. t[d+x] = s[x]
    BY <2>1, <2>2
  <2> QED
    BY <2>1, <2>3, <2>4
<1>6. d + x \in (d+h)+3..(d+e)-1
  BY <1>1, <1>2, <1>3
<1> QED
  BY <1>2, <1>3, <1>4, <1>5, <1>6 DEF ChunkedBody

(* What the header tells of the end is true wherever the request stands. *)
LEMMA ShiftEnd ==
  ASSUME NEW s, NEW t, NEW b, NEW e, NEW d, Shifted(s, t, b, e, d),
         NEW h \in b+2..e-1, EndIsTold(s, b, h, e)
  PROVE  EndIsTold(t, d+b, d+h, d+e)
<1>1. b \in Nat /\ e \in Nat /\ d \in Nat /\ h \in Int /\ h <= e
  BY DEF Shifted
<1>2. t[(d+b)+1] = s[b+1]
  <2>1. b + 1 \in b+1..e /\ d + (b + 1) = (d + b) + 1
    BY <1>1
  <2> QED
    BY <2>1 DEF Shifted
<1>3. /\ HeaderFields(t, d+b, d+h, "length") = HeaderFields(s, b, h, "length")
      /\ IsChunked(t, d+b, d+h) <=> IsChunked(s, b, h)
  BY <1>1, ShiftFields, ShiftChunked
<1>4. (d + e) - ((d + h) + 1) = e - (h + 1) /\ (e = h + 1 => d + e = (d + h) + 1)
  BY <1>1
<1>5. CASE ReadsBody(s[b+1]) /\ IsChunked(s, b, h)
  <2>1. ChunkedBody(s, b, h, e)
    BY <1>5 DEF EndIsTold
  <2>2. h + 2 \in 1..Len(s) /\ s \in Seq(Symbol)
    <3>1. TrailerStart(s, b, h, e) \in h+3..e-1 /\ e <= Len(s) /\ Len(s) \in Nat
      BY <2>1 DEF ChunkedBody, Shifted
    <3> QED
      BY <1>1, <3>1 DEF Shifted
  <2>3. s[h+2].n \in Int
    BY <2>2, SymbolSize
  <2>4. ChunkedBody(t, d+b, d+h, d+e)
    BY <1>5, <2>1, <2>3, ShiftChunkedBody
  <2> QED
    BY <1>2, <1>3, <1>5, <2>4 DEF EndIsTold
<1>6. CASE ReadsBody(s[b+1]) /\ ~IsChunked(s, b, h)
  BY <1>2, <1>3, <1>4, <1>6 DEF EndIsTold
<1>7. CASE ~ReadsBody(s[b+1])
  BY <1>2, <1>4, <1>7 DEF EndIsTold
<1> QED
  BY <1>5, <1>6, <1>7

(* The offsets of a request that is told to end where it does. *)
LEMMA OffsetsOfRequest ==
  ASSUME NEW s, NEW t, NEW b, NEW e, NEW d, Shifted(s, t, b, e, d),
         NEW h \in b+2..e-1, EndIsTold(s, b, h, e), ReadsBody(s[b+1])
  PROVE  IsChunked(s, b, h) => h + 2 <= e /\ s[h+2].n \in Int
<1> SUFFICES ASSUME IsChunked(s, b, h)
             PROVE  h + 2 <= e /\ s[h+2].n \in Int
  OBVIOUS
<1>1. b \in Nat /\ e \in Nat /\ d \in Nat /\ h \in Int /\ s \in Seq(Symbol)
      /\ e <= Len(s) /\ Len(s) \in Nat
  BY DEF Shifted
<1>2. TrailerStart(s, b, h, e) \in h+3..e-1
  BY DEF EndIsTold, ChunkedBody
<1>3. h + 2 \in 1..Len(s) /\ h + 2 <= e
  BY <1>1, <1>2
<1> QED
  BY <1>1, <1>3, SymbolSize

(* Its body moves with it. *)
LEMMA ShiftBody ==
  ASSUME NEW s, NEW t, NEW b, NEW e, NEW d, Shifted(s, t, b, e, d),
         NEW h \in b+2..e-1, EndIsTold(s, b, h, e), ReadsBody(s[b+1])
  PROVE  Body(t, d+b, d+h, d+e) = {d + i : i \in Body(s, b, h, e)}
<1> DEFINE x == BodyStart(s, b, h)
           y == BodyEnd(s, b, h, e)
<1>1. d \in Nat
  BY DEF Shifted
<1>2. IsChunked(s, b, h) => h + 2 <= e /\ s[h+2].n \in Int
  BY OffsetsOfRequest
<1>3. /\ x \in Int /\ y \in Int
      /\ BodyStart(t, d+b, d+h) = d + x /\ BodyEnd(t, d+b, d+h, d+e) = d + y
  BY <1>2, ShiftOffsets
<1>4. Body(s, b, h, e) = x+1..y /\ Body(t, d+b, d+h, d+e) = (d+x)+1..d+y
  BY <1>3 DEF Body
<1> HIDE DEF x, y
<1>5. \A i \in x+1..y : d + i \in (d+x)+1..d+y
  BY <1>1, <1>3
<1>6. \A j \in (d+x)+1..d+y : j - d \in x+1..y /\ j = d + (j - d)
  BY <1>1, <1>3
<1> QED
  BY <1>4, <1>5, <1>6

(* And it fits the servers it fitted. *)
LEMMA ShiftFits ==
  ASSUME NEW s, NEW t, NEW b, NEW e, NEW d, Shifted(s, t, b, e, d),
         NEW h \in b+2..e-1, EndIsTold(s, b, h, e), FitsServers(s, b, h, e)
  PROVE  FitsServers(t, d+b, d+h, d+e)
<1>1. b \in Nat /\ e \in Nat /\ d \in Nat /\ h \in Int /\ h <= e
  BY DEF Shifted
<1>2. t[(d+b)+1] = s[b+1]
  <2>1. b + 1 \in b+1..e /\ d + (b + 1) = (d + b) + 1
    BY <1>1
  <2> QED
    BY <2>1 DEF Shifted
<1>3. HeaderFields(t, d+b, d+h, "host") = HeaderFields(s, b, h, "host")
  BY <1>1, ShiftFields
<1>4. ReadsBody(s[b+1]) => BodySize(t, d+b, d+h, d+e) = BodySize(s, b, h, e)
  BY OffsetsOfRequest, ShiftOffsets
<1> QED
  BY <1>2, <1>3, <1>4 DEF FitsServers

(* A request has one empty line that ends its header. *)
LEMMA OneHeaderEnd ==
  ASSUME NEW s, NEW b \in Nat, NEW e \in Nat,
         NEW g \in HeaderEnds(s, b, e), NEW h \in HeaderEnds(s, b, e)
  PROVE  g = h
<1>1. ASSUME NEW x \in HeaderEnds(s, b, e), NEW y \in HeaderEnds(s, b, e), x < y
      PROVE  FALSE
  <2>1. x \in b+2..y-1 /\ (x - b) % 2 = 0
    BY <1>1 DEF HeaderEnds
  <2>2. GoodLine(s, "HEADER", x) /\ IsNL(s[x+1])
    BY <1>1, <2>1 DEF HeaderEnds
  <2> QED
    BY <2>2 DEF GoodLine, IsNL
<1>2. g \in Int /\ h \in Int
  BY DEF HeaderEnds
<1> QED
  BY <1>1, <1>2

-----------------------------------------------------------------------------
(* Parsing a header *)

(* The parser has accepted the lines from b to r, and no empty line. *)
AtLine(parser, b, r) ==
  /\ parser.first = b /\ parser.last = r
  /\ r >= b /\ (r - b) % 2 = 0
  /\ parser.status = IF r = b THEN "START" ELSE "HEADER"

(* What parse_some makes of a request header that ends at h *)
HeaderParsed(o, b, h) ==
  /\ o.err = None /\ o.pa.first = b
  /\ \/ o.pa.status = "PREBODY" /\ o.pa.last = h /\ o.rd = h + 1
     \/ o.pa.status # "PREBODY" /\ AtLine(o.pa, b, o.rd) /\ o.rd <= h

(* What an outcome of parse_some is made of *)
LEMMA OutcomeFields ==
  ASSUME NEW parser \in Parser, NEW status, NEW p, NEW r, NEW err
  PROVE  LET o == Outcome(parser, status, p, r, err)
         IN  /\ o.pa.first = parser.first /\ o.pa.last = p /\ o.pa.status = status
             /\ o.rd = r /\ o.err = err
  BY DEF Outcome, Parser

(* Two even steps are one. *)
LEMMA EvenSum ==
  ASSUME NEW x \in Int, NEW y \in Int, NEW z \in Int,
         (x - y) % 2 = 0, (y - z) % 2 = 0
  PROVE  (x - z) % 2 = 0
  OBVIOUS

(* Two even distances from one offset lie an even distance apart. *)
LEMMA EvenDifference ==
  ASSUME NEW x \in Int, NEW y \in Int, NEW z \in Int,
         (x - y) % 2 = 0, (z - y) % 2 = 0
  PROVE  (x - z) % 2 = 0
  OBVIOUS

(* Offsets an even distance apart are at least one line apart. *)
LEMMA EvenApart ==
  ASSUME NEW x \in Int, NEW y \in Int, x < y, (y - x) % 2 = 0
  PROVE  x + 2 <= y
  OBVIOUS

(* parse_some accepts the header of a conforming request up to its empty
   line, however much of it has come in. *)
LEMMA ParseConforming ==
  ASSUME NEW s, NEW b \in Nat, NEW e \in Nat, NEW h \in HeaderEnds(s, b, e),
         NEW parser \in Parser, NEW lo \in Nat, NEW hi \in Nat, lo <= hi,
         AtLine(parser, b, lo), lo <= h, BufCap > 1,
         NEW o \in ParseSome(s, parser, lo, hi)
  PROVE  HeaderParsed(o, b, h)
<1>1. /\ h \in Nat /\ b + 2 <= h /\ (h - b) % 2 = 0 /\ IsNL(s[h+1])
      /\ GoodLine(s, "START", b)
      /\ \A q \in b+2..h-1 : (q - b) % 2 = 0 => GoodLine(s, "HEADER", q)
  BY DEF HeaderEnds
<1>2. /\ b <= lo /\ (lo - b) % 2 = 0 /\ parser.first = b
      /\ parser.status = IF lo = b THEN "START" ELSE "HEADER"
  BY DEF AtLine
<1> DEFINE status(p) == StatusAt(parser, lo, p)
           complete(p) == Crlf(s, p, hi)
<1>3. PICK p \in lo..hi :
        /\ ParsedTo(s, parser, lo, hi, p)
        /\ o \in (IF complete(p) = {}
                  THEN {Outcome(parser, status(p), p, p, IF Full(p, hi) THEN "431" ELSE None)}
                  ELSE IF EndLine(s, status(p), p)
                  THEN {Outcome(parser, "PREBODY", p, p + 1, None)}
                  ELSE IF GoodLine(s, status(p), p) THEN {}
                  ELSE {Outcome(parser, status(p), p, r, "400") :
                          r \in UNION {ErrorPos(s, status(p), p, x) : x \in complete(p)}})
  BY <1>2 DEF ParseSome
<1>4. /\ p \in Nat /\ lo <= p /\ p <= hi /\ (p - lo) % 2 = 0
      /\ \A q \in lo..p-1 : (q - lo) % 2 = 0 => GoodLine(s, StatusAt(parser, lo, q), q)
  BY <1>3 DEF ParsedTo
<1>5. (p - b) % 2 = 0 /\ (h - lo) % 2 = 0 /\ b <= p
  BY <1>1, <1>2, <1>4, EvenSum, EvenDifference
<1>6. status(p) = IF p = b THEN "START" ELSE "HEADER"
  BY <1>2, <1>4, <1>5 DEF StatusAt
<1>7. p <= h
  <2> SUFFICES ASSUME h < p PROVE FALSE
    BY <1>1, <1>4
  <2>1. h \in lo..p-1
    BY <1>1, <1>4
  <2>2. GoodLine(s, StatusAt(parser, lo, h), h)
    BY <1>4, <1>5, <2>1
  <2> QED
    BY <1>1, <2>2 DEF GoodLine, IsNL
<1> HIDE DEF status, complete
<1>8. CASE p = h
  <2>1. status(p) = "HEADER" /\ EndLine(s, status(p), p)
    BY <1>1, <1>6, <1>8 DEF EndLine
  <2>2. CASE complete(p) = {}
    <3>1. hi = p
      <4>1. ASSUME p + 1 <= hi PROVE p + 1 \in complete(p)
        BY <1>1, <1>4, <1>8, <4>1 DEF complete, Crlf
      <4> QED
        BY <1>4, <2>2, <4>1
    <3>2. ~Full(p, hi)
      BY <1>4, <3>1 DEF Full
    <3>3. o = Outcome(parser, status(p), p, p, None)
      BY <1>3, <2>2, <3>2
    <3>4. o.pa.first = b /\ o.pa.last = p /\ o.pa.status = "HEADER" /\ o.rd = p /\ o.err = None
      BY <1>2, <2>1, <3>3, OutcomeFields
    <3> QED
      BY <1>1, <1>5, <1>8, <3>4 DEF HeaderParsed, AtLine
  <2>3. CASE complete(p) # {}
    <3>1. o = Outcome(parser, "PREBODY", p, p + 1, None)
      BY <1>3, <2>1, <2>3
    <3> QED
      BY <1>2, <1>8, <3>1, OutcomeFields DEF HeaderParsed
  <2> QED
    BY <2>2, <2>3
<1>9. CASE p < h
  <2>1. GoodLine(s, status(p), p)
    <3>1. CASE p = b
      BY <1>1, <1>6, <3>1
    <3>2. CASE p # b
      <4>1. b + 2 <= p
        BY <1>4, <1>5, <3>2, EvenApart
      <4>2. p \in b+2..h-1
        BY <1>1, <1>4, <1>9, <4>1
      <4> QED
        BY <1>1, <1>5, <1>6, <3>2, <4>2
    <3> QED
      BY <3>1, <3>2
  <2>2. ~IsNL(s[p+1]) /\ IsNL(s[p+2])
    BY <2>1 DEF GoodLine, IsNL
  <2>3. ~EndLine(s, status(p), p)
    BY <2>2 DEF EndLine
  <2>4. complete(p) = {}
    BY <1>3, <2>1, <2>3
  <2>5. ~Full(p, hi)
    <3>1. hi < p + 2
      <4>1. ASSUME p + 2 <= hi PROVE p + 2 \in complete(p)
        <5>1. \A i \in p+1..(p+2)-1 : i = p + 1
          BY <1>4
        <5> QED
          BY <1>4, <2>2, <4>1, <5>1 DEF complete, Crlf
      <4> QED
        BY <1>4, <2>4, <4>1
    <3> QED
      BY <1>4, <3>1, BufAssumption DEF Full
  <2>6. o = Outcome(parser, status(p), p, p, None)
    BY <1>3, <2>4, <2>5
  <2>7. o.pa.first = b /\ o.pa.last = p /\ o.pa.status = status(p) /\ o.rd = p /\ o.err = None
    BY <1>2, <2>6, OutcomeFields
  <2> QED
    BY <1>1, <1>4, <1>5, <1>6, <1>9, <2>7 DEF HeaderParsed, AtLine
<1> QED
  BY <1>1, <1>4, <1>7, <1>8, <1>9

(* A request with a body that is read: its header ends at h, and it tells  *)
(* that the request ends at e.                                             *)
BodyRequest(s, b, h, e) ==
  /\ s \in Seq(Symbol) /\ b \in Nat /\ e \in Nat /\ e <= Len(s)
  /\ h \in HeaderEnds(s, b, e) /\ EndIsTold(s, b, h, e) /\ ReadsBody(s[b+1])

(* Between two calls of _read_body: the streamer st has consumed the input *)
(* up to r and stored this much of the body in the file.                   *)
InBody(s, b, h, e, st, r, file) ==
  \/ st.status = "CHUNK_PREFIX" /\ st.min = 0 /\ r = h + 1 /\ file = {}
  \/ /\ st.status = "CHUNK_PAYLOAD"
     /\ st.rem > 0 /\ r + st.rem = BodyEnd(s, b, h, e)
     /\ r >= BodyStart(s, b, h) /\ file = BodyStart(s, b, h) + 1..r
     /\ IsChunked(s, b, h) => st.min = BodySize(s, b, h, e)
  \/ /\ st.status = "CRLF" /\ IsChunked(s, b, h)
     /\ BodySize(s, b, h, e) > 0 /\ r = BodyEnd(s, b, h, e)
     /\ file = Body(s, b, h, e)
  \/ /\ st.status = "TRAILER" /\ IsChunked(s, b, h)
     /\ r \in TrailerStart(s, b, h, e)..e-1
     /\ r = TrailerStart(s, b, h, e) \/ IsNL(s[r])
     /\ file = Body(s, b, h, e)

(* A server with this limit takes the body. *)
FitsLimit(s, b, h, e, max) ==
  "disk" \notin Faults /\ (max > 0 => BodySize(s, b, h, e) <= max)

(* A call of the streamer on that request goes right. *)
GoesRight(s, b, h, e, file, max, c) ==
  /\ c.res \in {"run", "MORE"} => InBody(s, b, h, e, c.st, c.rd, file \cup c.got)
  /\ c.res = "DONE" => c.rd = e /\ file \cup c.got = Body(s, b, h, e)
  /\ c.res \notin {"run", "MORE", "DONE"}
       => c.st.status # "DONE" /\ ~FitsLimit(s, b, h, e, max)

(* The offsets in such a request are numbers, in this order. *)
LEMMA HeaderEndType ==
  ASSUME NEW s, NEW b \in Nat, NEW e \in Nat, NEW h \in HeaderEnds(s, b, e)
  PROVE  h \in Nat /\ b + 2 <= h /\ h + 1 <= e
  BY DEF HeaderEnds

(* A chunked body *)
LEMMA ChunkedOffsets ==
  ASSUME NEW s, NEW b, NEW h, NEW e, BodyRequest(s, b, h, e), IsChunked(s, b, h)
  PROVE  LET n == s[h+2].n
             t == TrailerStart(s, b, h, e)
         IN  /\ n \in Nat /\ s[h+2].k = "size" /\ IsNL(s[h+3])
             /\ BodyStart(s, b, h) = h + 3 /\ BodySize(s, b, h, e) = n
             /\ BodyEnd(s, b, h, e) = h + 3 + n
             /\ Body(s, b, h, e) = h + 3 + 1..h + 3 + n
             /\ t = IF n = 0 THEN h + 3 ELSE h + 3 + n + 1
             /\ t \in Nat /\ t < e /\ (n > 0 => IsNL(s[t]))
             /\ EmptyLines(s, t, e) = {e}
<1>1. h \in Nat /\ e \in Nat /\ s \in Seq(Symbol) /\ e <= Len(s) /\ Len(s) \in Nat
  BY HeaderEndType DEF BodyRequest
<1>2. ChunkedBody(s, b, h, e)
  BY DEF BodyRequest, EndIsTold
<1> DEFINE n == s[h+2].n
           t == TrailerStart(s, b, h, e)
<1>3. /\ s[h+2].k = "size" /\ n >= 0 /\ IsNL(s[h+3])
      /\ t \in h+3..e-1 /\ (n > 0 => IsNL(s[t])) /\ EmptyLines(s, t, e) = {e}
  BY <1>2 DEF ChunkedBody
<1>4. h + 2 \in 1..Len(s) /\ t \in Nat /\ t < e
  BY <1>1, <1>3
<1>5. n \in Nat
  BY <1>1, <1>3, <1>4, SymbolSize
<1>6. BodyStart(s, b, h) = h + 3 /\ BodySize(s, b, h, e) = n
  BY DEF BodyStart, BodySize
<1>7. BodyEnd(s, b, h, e) = h + 3 + n /\ Body(s, b, h, e) = h + 3 + 1..h + 3 + n
  BY <1>6 DEF BodyEnd, Body
<1>8. t = IF n = 0 THEN h + 3 ELSE h + 3 + n + 1
  BY <1>6, <1>7 DEF TrailerStart
<1> QED
  BY <1>3, <1>4, <1>5, <1>6, <1>7, <1>8

(* A body without chunks *)
LEMMA PlainOffsets ==
  ASSUME NEW s, NEW b, NEW h, NEW e, BodyRequest(s, b, h, e), ~IsChunked(s, b, h)
  PROVE  /\ BodyStart(s, b, h) = h + 1 /\ BodySize(s, b, h, e) = e - (h + 1)
         /\ BodyEnd(s, b, h, e) = e /\ Body(s, b, h, e) = h + 1 + 1..e
<1>1. h \in Nat /\ e \in Nat
  BY HeaderEndType DEF BodyRequest
<1> QED
  BY <1>1 DEF BodyStart, BodySize, BodyEnd, Body

(* One call of _stream_chunk_payload *)
PayloadMoved(c, d) ==
  \/ d.res = "500" /\ "disk" \in Faults /\ d.st = c.st
  \/ /\ d.res = "run" /\ d.st.rem >= 0 /\ d.st.rem \in Int
     /\ d.rd \in Int /\ d.rd >= c.rd /\ d.rd + d.st.rem = c.rd + c.st.rem
     /\ d.got = c.rd+1..d.rd
     /\ d.st.status = c.st.status /\ d.st.min = c.st.min

(* _stream_chunk_payload stores what it takes from the input, all of it. *)
LEMMA PayloadMoves ==
  ASSUME NEW lo \in Nat, NEW hi \in Nat, NEW c \in CallRecord(lo, hi),
         c.res = "run", NEW d \in StreamChunkPayload(c, hi)
  PROVE  PayloadMoved(c, d)
<1>1. c.st \in Streamer /\ c.rd \in Int /\ c.st.rem \in Int
  BY CallFields DEF Streamer
<1>2. CASE d = Raise(c, "500") /\ "disk" \in Faults
  BY <1>2, CallFields DEF Raise, PayloadMoved
<1>3. CASE \E w \in PayloadSizes(c, hi) : d = Stored(c, w)
  <2>1. PICK w \in PayloadSizes(c, hi) : d = Stored(c, w)
    BY <1>3
  <2>2. w \in Int /\ w >= 0 /\ w <= c.st.rem
    BY <1>1, CallFields DEF PayloadSizes
  <2>3. /\ d.rd = c.rd + w /\ d.got = c.rd+1..c.rd+w /\ d.res = "run"
        /\ d.st.rem = c.st.rem - w /\ d.st.status = c.st.status /\ d.st.min = c.st.min
    BY <1>1, <2>1 DEF Stored, Streamer
  <2> QED
    BY <1>1, <2>2, <2>3 DEF PayloadMoved
<1> QED
  BY <1>2, <1>3 DEF StreamChunkPayload

(* What _read_body has stored of a body is in one piece. *)
LEMMA PieceGrows ==
  ASSUME NEW x \in Int, NEW y \in Int, NEW z \in Int, x <= y, y <= z
  PROVE  (x+1..y) \cup (y+1..z) = x+1..z
  OBVIOUS

(* The size of a body, or of its first chunk, is known. *)
InPayload(s, b, h, e, c, file) ==
  /\ c.res = "run" /\ c.got = {} /\ c.st.status # "DONE"
  /\ c.st.rem >= 0 /\ c.rd + c.st.rem = BodyEnd(s, b, h, e)
  /\ BodyStart(s, b, h) \in Int /\ c.rd >= BodyStart(s, b, h)
  /\ file = BodyStart(s, b, h) + 1..c.rd
  /\ IsChunked(s, b, h) => c.st.min = BodySize(s, b, h, e)

(* Some of it, or all of it, has been written to the file. *)
PayloadRead(s, b, h, e, file, max, d) ==
  \/ d.res = "500" /\ d.st.status # "DONE" /\ "disk" \in Faults
  \/ /\ d.res = "run" /\ d.st.rem > 0
     /\ GoesRight(s, b, h, e, file, max, Return(d, "CHUNK_PAYLOAD", "MORE"))
  \/ /\ d.res = "run" /\ ~(d.st.rem > 0) /\ d.rd = BodyEnd(s, b, h, e)
     /\ file \cup d.got = Body(s, b, h, e)

(* _stream_chunk_payload *)
LEMMA PayloadGoesRight ==
  ASSUME NEW s, NEW b, NEW h, NEW e, NEW lo \in Nat, NEW hi \in Nat,
         NEW c \in CallRecord(lo, hi), NEW file, NEW max,
         InPayload(s, b, h, e, c, file), NEW d \in StreamChunkPayload(c, hi)
  PROVE  PayloadRead(s, b, h, e, file, max, d)
<1> USE DEF InPayload
<1>1. PayloadMoved(c, d) /\ d \in CallRecord(lo, hi)
  BY PayloadMoves, PayloadType
<1>2. CASE d.res = "500"
  BY <1>1, <1>2 DEF PayloadMoved, PayloadRead
<1>3. CASE d.res = "run"
  <2>1. /\ d.st.rem >= 0 /\ d.st.rem \in Int
        /\ d.rd \in Int /\ d.rd >= c.rd /\ d.rd + d.st.rem = c.rd + c.st.rem
        /\ d.got = c.rd+1..d.rd /\ d.st.min = c.st.min
    BY <1>1, <1>3 DEF PayloadMoved
  <2>2. c.rd \in Int
    BY CallFields
  <2>3. file \cup d.got = BodyStart(s, b, h) + 1..d.rd
    <3>1. (BodyStart(s, b, h) + 1..c.rd) \cup (c.rd+1..d.rd) = BodyStart(s, b, h) + 1..d.rd
      BY <2>1, <2>2, PieceGrows, Zenon
    <3> QED
      BY <2>1, <3>1
  <2>4. CASE d.st.rem > 0
    <3> DEFINE f == Return(d, "CHUNK_PAYLOAD", "MORE")
    <3>1. /\ f.res = "MORE" /\ f.rd = d.rd /\ f.got = d.got
          /\ f.st.status = "CHUNK_PAYLOAD" /\ f.st.rem = d.st.rem /\ f.st.min = d.st.min
      <4>1. d.st \in Streamer
        BY <1>1, CallFields
      <4> QED
        BY <1>1, <4>1, CallFields DEF Return, Goto, Streamer
    <3> HIDE DEF f
    <3>2. d.rd + d.st.rem = BodyEnd(s, b, h, e) /\ d.rd >= BodyStart(s, b, h)
      BY <2>1, <2>2
    <3>3. InBody(s, b, h, e, f.st, f.rd, file \cup f.got)
      BY <2>1, <2>3, <2>4, <3>1, <3>2 DEF InBody
    <3>4. GoesRight(s, b, h, e, file, max, f)
      BY <3>1, <3>3 DEF GoesRight
    <3> QED
      BY <1>3, <2>4, <3>4 DEF f, PayloadRead
  <2>5. CASE ~(d.st.rem > 0)
    <3>1. d.st.rem = 0 /\ d.rd = BodyEnd(s, b, h, e)
      BY <2>1, <2>2, <2>5
    <3> QED
      BY <1>3, <2>3, <2>5, <3>1 DEF Body, PayloadRead
  <2> QED
    BY <2>4, <2>5
<1> QED
  BY <1>1, <1>2, <1>3 DEF PayloadMoved

(* A call that starts between two calls, and its offsets *)
Started(s, b, h, e, c, file) ==
  c.res = "run" /\ c.got = {} /\ InBody(s, b, h, e, c.st, c.rd, file)

(* A call that ends with an error *)
LEMMA ErrorGoesRight ==
  ASSUME NEW s, NEW b, NEW h, NEW e, NEW file, NEW max, NEW c, NEW code \in Codes,
         c.res = code, c.st.status # "DONE", ~FitsLimit(s, b, h, e, max)
  PROVE  GoesRight(s, b, h, e, file, max, c)
  BY DEF GoesRight, Codes

(* read_some_single, once the size of the body is known *)
LEMMA SingleGoesRight ==
  ASSUME NEW s, NEW b, NEW h, NEW e, BodyRequest(s, b, h, e), ~IsChunked(s, b, h),
         NEW lo \in Nat, NEW hi \in Nat, NEW c \in CallRecord(lo, hi),
         c.res = "run", c.got = {}, NEW file, NEW max,
         c.st.rem >= 0, c.rd + c.st.rem = e, c.rd >= h + 1, file = h + 1 + 1..c.rd,
         c.st.status # "DONE", NEW d \in ReadSomeSingle(c, hi)
  PROVE  GoesRight(s, b, h, e, file, max, d)
<1>1. PICK g \in StreamChunkPayload(c, hi) : d = AfterPayload(g, Return(g, "DONE", "DONE"))
  BY DEF ReadSomeSingle
<1>2. /\ BodyStart(s, b, h) = h + 1 /\ BodyStart(s, b, h) \in Int
      /\ BodyEnd(s, b, h, e) = e
  <2>1. h \in Nat
    BY HeaderEndType DEF BodyRequest
  <2> QED
    BY <2>1, PlainOffsets
<1>3. PayloadRead(s, b, h, e, file, max, g)
  <2>1. InPayload(s, b, h, e, c, file)
    BY <1>2 DEF InPayload
  <2> QED
    BY <1>1, <2>1, PayloadGoesRight
<1>4. CASE g.res = "500" /\ g.st.status # "DONE" /\ "disk" \in Faults
  <2>1. d = g
    BY <1>1, <1>4 DEF AfterPayload
  <2> QED
    BY <1>4, <2>1, ErrorGoesRight DEF FitsLimit, Codes
<1>5. CASE /\ g.res = "run" /\ g.st.rem > 0
           /\ GoesRight(s, b, h, e, file, max, Return(g, "CHUNK_PAYLOAD", "MORE"))
  BY <1>1, <1>5 DEF AfterPayload
<1>6. CASE /\ g.res = "run" /\ ~(g.st.rem > 0) /\ g.rd = e
           /\ file \cup g.got = Body(s, b, h, e)
  <2>1. d = Return(g, "DONE", "DONE")
    BY <1>1, <1>6 DEF AfterPayload
  <2>2. g \in CallRecord(lo, hi)
    BY PayloadType
  <2>3. d.res = "DONE" /\ d.rd = g.rd /\ d.got = g.got
    BY <2>1, <2>2, CallFields DEF Return, Goto
  <2> QED
    BY <1>6, <2>3 DEF GoesRight
<1> QED
  BY <1>2, <1>3, <1>4, <1>5, <1>6 DEF PayloadRead

(* read_some_single, when the header gives the length *)
LEMMA LengthGoesRight ==
  ASSUME NEW s, NEW b, NEW h, NEW e, BodyRequest(s, b, h, e), ~IsChunked(s, b, h),
         NEW st \in Streamer, NEW r \in Nat, NEW file, NEW max \in Nat,
         InBody(s, b, h, e, st, r, file), rcvd' \in Nat, r <= rcvd',
         NEW x \in HeaderFields(s, b, h, "length"),
         NEW d \in ReadLength(Call(st, r), x, max)
  PROVE  GoesRight(s, b, h, e, file, max, d)
<1> DEFINE c == Call(st, r)
<1>1. /\ c.st = st /\ c.rd = r /\ c.got = {} /\ c.res = "run"
      /\ c \in CallRecord(r, rcvd')
  BY NewCallIsRecord DEF Call
<1>2. h \in Nat /\ e \in Nat /\ h + 1 <= e
  BY HeaderEndType DEF BodyRequest
<1>3. x.n = e - (h + 1)
  BY DEF BodyRequest, EndIsTold
<1>4. CASE st.status # "CHUNK_PREFIX"
  <2>1. /\ st.status = "CHUNK_PAYLOAD" /\ st.rem >= 0 /\ r + st.rem = e
        /\ r >= h + 1 /\ file = h + 1 + 1..r
    <3>1. st.rem \in Int
      BY DEF Streamer
    <3>2. /\ st.status = "CHUNK_PAYLOAD" /\ st.rem > 0 /\ r + st.rem = BodyEnd(s, b, h, e)
          /\ r >= BodyStart(s, b, h) /\ file = BodyStart(s, b, h) + 1..r
      BY <1>4 DEF InBody
    <3> QED
      BY <3>1, <3>2, PlainOffsets
  <2>2. d \in ReadSomeSingle(c, rcvd')
    BY <1>1, <1>4 DEF ReadLength
  <2> HIDE DEF c
  <2> QED
    BY <1>1, <2>1, <2>2, SingleGoesRight
<1>5. CASE st.status = "CHUNK_PREFIX"
  <2>1. r = h + 1 /\ file = {}
    BY <1>5 DEF InBody
  <2>2. CASE max > 0 /\ x.n > max
    <3>1. d = Raise(c, "413")
      BY <1>1, <1>2, <1>3, <1>5, <2>2 DEF ReadLength
    <3>2. d.res = "413" /\ d.st = st
      BY <1>1, <3>1, CallFields DEF Raise
    <3>3. ~(x.n <= max)
      BY <1>2, <1>3, <2>2
    <3> QED
      BY <1>3, <1>5, <2>2, <3>2, <3>3, PlainOffsets, ErrorGoesRight DEF FitsLimit, Codes
  <2>3. CASE ~(max > 0 /\ x.n > max)
    <3> DEFINE f == [c EXCEPT !.st.rem = x.n]
    <3>1. d \in ReadSomeSingle(f, rcvd')
      BY <1>1, <1>2, <1>3, <1>5, <2>3 DEF ReadLength
    <3>2. x.n \in Int /\ x.n >= 0 /\ r + x.n = e
      BY <1>2, <1>3, <2>1
    <3>3. f \in CallRecord(r, rcvd')
      BY <3>2, CallIsRecord
    <3>4. f.res = "run" /\ f.got = {} /\ f.rd = r /\ f.st.rem = x.n
          /\ f.st.status = "CHUNK_PREFIX"
      BY <1>1, <1>5, CallFields DEF Streamer
    <3>5. file = h + 1 + 1..r /\ r >= h + 1
      BY <1>2, <2>1
    <3> HIDE DEF f
    <3> QED
      BY <3>1, <3>2, <3>3, <3>4, <3>5, SingleGoesRight
  <2> QED
    BY <2>2, <2>3
<1> QED
  BY <1>4, <1>5

(* read_some_chunked, one function after the other *)

(* A call that its function leaves as it is *)
LEMMA StartedGoesRight ==
  ASSUME NEW s, NEW b, NEW h, NEW e, NEW c, NEW file, Started(s, b, h, e, c, file), NEW max
  PROVE  GoesRight(s, b, h, e, file, max, c)
<1>1. file \cup c.got = file
  BY DEF Started
<1> QED
  BY <1>1 DEF Started, GoesRight

(* _get_chunk_size reads the size of the first chunk. *)
LEMMA GetChunkSizeGoesRight ==
  ASSUME NEW s, NEW b, NEW h, NEW e, BodyRequest(s, b, h, e), IsChunked(s, b, h),
         BufCap > 1, NEW lo \in Nat, NEW hi \in Nat, NEW c \in CallRecord(lo, hi),
         NEW file, NEW max, Started(s, b, h, e, c, file), NEW d \in GetChunkSize(s, c, hi)
  PROVE  GoesRight(s, b, h, e, file, max, d) /\ d.got = {}
<1> DEFINE n == s[h+2].n
<1>1. CASE ~At(c, "CHUNK_PREFIX")
  BY <1>1, StartedGoesRight DEF GetChunkSize, Started
<1>2. CASE At(c, "CHUNK_PREFIX")
  <2>1. /\ h \in Nat /\ e \in Nat /\ n \in Nat /\ BufCap \in Nat
        /\ c.rd = h + 1 /\ file = {} /\ c.got = {} /\ c.res = "run" /\ c.st.min = 0
        /\ c.st \in Streamer /\ c.st.status = "CHUNK_PREFIX"
    BY <1>2, HeaderEndType, ChunkedOffsets, BufAssumption, CallFields
       DEF BodyRequest, Started, InBody, At
  <2>2. ~IsNL(s[h+2]) /\ IsNL(s[h+3]) /\ s[h+2].k = "size"
    BY ChunkedOffsets DEF IsNL
  <2>3. CASE Crlf(s, h + 1, hi) = {}
    <3>1. hi < h + 3
      <4>1. ASSUME h + 3 <= hi PROVE h + 3 \in Crlf(s, h + 1, hi)
        <5>1. h + 3 \in (h+1)+1..hi
          BY <2>1, <4>1
        <5>2. \A i \in (h+1)+1..(h+3)-1 : i = h + 2
          BY <2>1
        <5> QED
          BY <2>2, <5>1, <5>2 DEF Crlf
      <4> QED
        BY <2>1, <2>3, <4>1
    <3>2. ~Full(c.rd, hi)
      BY <2>1, <3>1 DEF Full
    <3>3. d = Return(c, "CHUNK_PREFIX", "MORE")
      BY <1>2, <2>1, <2>3, <3>2 DEF GetChunkSize
    <3>4. /\ d.res = "MORE" /\ d.rd = h + 1 /\ d.got = {}
          /\ d.st.status = "CHUNK_PREFIX" /\ d.st.min = 0
      BY <2>1, <3>3, CallFields DEF Return, Goto, Streamer
    <3>5. InBody(s, b, h, e, d.st, d.rd, file \cup d.got)
      BY <2>1, <3>4 DEF InBody
    <3> QED
      BY <3>4, <3>5 DEF GoesRight
  <2>4. CASE Crlf(s, h + 1, hi) # {}
    <3>1. PICK x \in Crlf(s, h + 1, hi) : d = ChunkSize(s, c, x)
      BY <1>2, <2>1, <2>4 DEF GetChunkSize
    <3>2. x = h + 3
      <4>1. x \in (h+1)+1..hi /\ IsNL(s[x]) /\ \A i \in (h+1)+1..x-1 : ~IsNL(s[i])
        BY DEF Crlf
      <4>2. x # h + 2
        BY <2>2, <4>1
      <4>3. ~(x > h + 3)
        <5>1. ASSUME x > h + 3 PROVE h + 3 \in (h+1)+1..x-1
          BY <2>1, <4>1, <5>1
        <5> QED
          BY <2>2, <4>1, <5>1
      <4> QED
        BY <2>1, <4>1, <4>2, <4>3
    <3>3. d = SizeRead(c, n, h + 3)
      <4>1. (h + 1) + 2 = h + 3 /\ (h + 1) + 1 = h + 2
        BY <2>1
      <4> QED
        BY <2>1, <2>2, <3>1, <3>2, <4>1 DEF ChunkSize
    <3>4. /\ d.res = "run" /\ d.rd = h + 3 /\ d.got = {}
          /\ d.st.status = IF n = 0 THEN "TRAILER" ELSE "CHUNK_PAYLOAD"
          /\ d.st.rem = n /\ d.st.min = n
      BY <2>1, <3>3 DEF SizeRead
    <3> HIDE DEF n
    <3>5. /\ BodyStart(s, b, h) = h + 3 /\ BodyEnd(s, b, h, e) = h + 3 + n
          /\ BodySize(s, b, h, e) = n /\ Body(s, b, h, e) = h + 3 + 1..h + 3 + n
          /\ TrailerStart(s, b, h, e) = IF n = 0 THEN h + 3 ELSE h + 3 + n + 1
          /\ TrailerStart(s, b, h, e) < e
      BY ChunkedOffsets DEF n
    <3>6. file \cup d.got = h + 3 + 1..h + 3
      BY <2>1, <3>4
    <3>7. CASE n = 0
      <4>1. /\ d.st.status = "TRAILER" /\ d.rd = TrailerStart(s, b, h, e)
            /\ d.rd \in TrailerStart(s, b, h, e)..e-1
            /\ file \cup d.got = Body(s, b, h, e)
        BY <2>1, <3>4, <3>5, <3>6, <3>7
      <4>2. InBody(s, b, h, e, d.st, d.rd, file \cup d.got)
        BY <4>1 DEF InBody
      <4> QED
        BY <3>4, <4>2 DEF GoesRight
    <3>8. CASE n # 0
      <4>1. /\ d.st.status = "CHUNK_PAYLOAD" /\ d.st.rem > 0
            /\ d.rd + d.st.rem = BodyEnd(s, b, h, e) /\ d.rd >= BodyStart(s, b, h)
            /\ file \cup d.got = BodyStart(s, b, h) + 1..d.rd
            /\ d.st.min = BodySize(s, b, h, e)
        BY <2>1, <3>4, <3>5, <3>6, <3>8
      <4>2. InBody(s, b, h, e, d.st, d.rd, file \cup d.got)
        BY <4>1 DEF InBody
      <4> QED
        BY <3>4, <4>2 DEF GoesRight
    <3> QED
      BY <3>7, <3>8
  <2> QED
    BY <2>3, <2>4
<1> QED
  BY <1>1, <1>2

(* The size check refuses only a body that is too large. *)
LEMMA CheckMaxSizeGoesRight ==
  ASSUME NEW s, NEW b, NEW h, NEW e, BodyRequest(s, b, h, e), IsChunked(s, b, h),
         NEW lo \in Nat, NEW hi \in Nat, NEW c \in CallRecord(lo, hi),
         NEW file, NEW max \in Nat, GoesRight(s, b, h, e, file, max, c), c.got = {}
  PROVE  GoesRight(s, b, h, e, file, max, CheckMaxSize(c, max)) /\ CheckMaxSize(c, max).got = {}
<1>1. CASE ~(At(c, "CHUNK_PAYLOAD") /\ max > 0 /\ c.st.min > max)
  BY <1>1 DEF CheckMaxSize
<1>2. CASE At(c, "CHUNK_PAYLOAD") /\ max > 0 /\ c.st.min > max
  <2> DEFINE d == CheckMaxSize(c, max)
  <2>1. d.res = "413" /\ d.st = c.st /\ d.got = {}
    BY <1>2, CallFields DEF CheckMaxSize, Raise
  <2>2. c.st.status = "CHUNK_PAYLOAD" /\ c.st.min = BodySize(s, b, h, e)
    BY <1>2 DEF At, GoesRight, InBody
  <2>3. BodySize(s, b, h, e) \in Nat
    BY ChunkedOffsets
  <2>4. ~FitsLimit(s, b, h, e, max)
    BY <1>2, <2>2, <2>3 DEF FitsLimit
  <2> HIDE DEF d
  <2>5. GoesRight(s, b, h, e, file, max, d)
    BY <2>1, <2>2, <2>4, ErrorGoesRight DEF Codes
  <2> QED
    BY <2>1, <2>5 DEF d
<1> QED
  BY <1>1, <1>2

(* The payload of the chunk *)
LEMMA ReadChunkPayloadGoesRight ==
  ASSUME NEW s, NEW b, NEW h, NEW e, BodyRequest(s, b, h, e), IsChunked(s, b, h),
         NEW lo \in Nat, NEW hi \in Nat, NEW c \in CallRecord(lo, hi),
         NEW file, NEW max, GoesRight(s, b, h, e, file, max, c), c.got = {},
         NEW d \in ReadChunkPayload(c, hi)
  PROVE  GoesRight(s, b, h, e, file, max, d)
<1>1. CASE ~At(c, "CHUNK_PAYLOAD")
  BY <1>1 DEF ReadChunkPayload
<1>2. CASE At(c, "CHUNK_PAYLOAD")
  <2>1. PICK g \in StreamChunkPayload(c, hi) : d = AfterPayload(g, Goto(g, "CRLF"))
    BY <1>2 DEF ReadChunkPayload
  <2>2. /\ c.res = "run" /\ c.st.status = "CHUNK_PAYLOAD" /\ c.st.rem \in Int /\ c.rd \in Nat
        /\ BodyStart(s, b, h) \in Int /\ BodySize(s, b, h, e) \in Nat
        /\ BodyEnd(s, b, h, e) = BodyStart(s, b, h) + BodySize(s, b, h, e)
    <3>1. h \in Nat
      BY HeaderEndType DEF BodyRequest
    <3> QED
      BY <1>2, <3>1, ChunkedOffsets, CallFields DEF At, Streamer
  <2>3. InBody(s, b, h, e, c.st, c.rd, file)
    <3>1. file \cup c.got = file
      OBVIOUS
    <3> QED
      BY <2>2, <3>1 DEF GoesRight
  <2>4. /\ c.st.rem > 0 /\ c.rd + c.st.rem = BodyEnd(s, b, h, e)
        /\ c.rd >= BodyStart(s, b, h) /\ file = BodyStart(s, b, h) + 1..c.rd
        /\ c.st.min = BodySize(s, b, h, e)
    BY <2>2, <2>3 DEF InBody
  <2>5. InPayload(s, b, h, e, c, file)
    BY <2>2, <2>4 DEF InPayload
  <2>6. PayloadRead(s, b, h, e, file, max, g) /\ g \in CallRecord(lo, hi)
    BY <2>5, PayloadGoesRight, PayloadType
  <2>7. CASE g.res = "500" /\ g.st.status # "DONE" /\ "disk" \in Faults
    BY <2>1, <2>7, ErrorGoesRight DEF AfterPayload, FitsLimit, Codes
  <2>8. CASE /\ g.res = "run" /\ g.st.rem > 0
             /\ GoesRight(s, b, h, e, file, max, Return(g, "CHUNK_PAYLOAD", "MORE"))
    BY <2>1, <2>8 DEF AfterPayload
  <2>9. CASE /\ g.res = "run" /\ ~(g.st.rem > 0) /\ g.rd = BodyEnd(s, b, h, e)
             /\ file \cup g.got = Body(s, b, h, e)
    <3>1. d = Goto(g, "CRLF")
      BY <2>1, <2>9 DEF AfterPayload
    <3>2. d.res = "run" /\ d.rd = g.rd /\ d.got = g.got /\ d.st.status = "CRLF"
      BY <2>6, <2>9, <3>1, CallFields DEF Goto, Streamer
    <3>3. BodySize(s, b, h, e) > 0
      BY <2>2, <2>4
    <3>4. InBody(s, b, h, e, d.st, d.rd, file \cup d.got)
      BY <2>9, <3>2, <3>3 DEF InBody
    <3> QED
      BY <3>2, <3>4 DEF GoesRight
  <2> QED
    BY <2>6, <2>7, <2>8, <2>9 DEF PayloadRead
<1> QED
  BY <1>1, <1>2

(* _expect_crlf finds the CRLF of the chunk. *)
LEMMA ExpectCrlfGoesRight ==
  ASSUME NEW s, NEW b, NEW h, NEW e, BodyRequest(s, b, h, e), IsChunked(s, b, h),
         NEW lo \in Nat, NEW hi \in Nat, NEW c \in CallRecord(lo, hi),
         NEW file, NEW max, GoesRight(s, b, h, e, file, max, c)
  PROVE  GoesRight(s, b, h, e, file, max, ExpectCrlf(s, c, hi))
<1> DEFINE d == ExpectCrlf(s, c, hi)
           t == TrailerStart(s, b, h, e)
<1>1. CASE ~At(c, "CRLF")
  BY <1>1 DEF ExpectCrlf
<1>2. CASE At(c, "CRLF")
  <2>1. /\ c.res = "run" /\ c.st.status = "CRLF" /\ c.st \in Streamer
        /\ InBody(s, b, h, e, c.st, c.rd, file \cup c.got)
    BY <1>2, CallFields DEF At, GoesRight
  <2>2. /\ BodySize(s, b, h, e) > 0 /\ c.rd = BodyEnd(s, b, h, e)
        /\ file \cup c.got = Body(s, b, h, e)
    BY <2>1 DEF InBody
  <2>3. CASE hi = c.rd
    <3>1. d = Return(c, "CRLF", "MORE")
      BY <1>2, <2>3 DEF ExpectCrlf
    <3>2. d.res = "MORE" /\ d.rd = c.rd /\ d.got = c.got /\ d.st.status = "CRLF"
      BY <2>1, <3>1, CallFields DEF Return, Goto, Streamer
    <3> HIDE DEF d
    <3>3. InBody(s, b, h, e, d.st, d.rd, file \cup d.got)
      BY <2>2, <3>2 DEF InBody
    <3>4. GoesRight(s, b, h, e, file, max, d)
      BY <3>2, <3>3 DEF GoesRight
    <3> QED
      BY <3>4 DEF d
  <2>4. CASE hi # c.rd
    <3>1. /\ t = c.rd + 1 /\ t \in t..e-1 /\ IsNL(s[t])
      <4>1. /\ BodySize(s, b, h, e) = s[h+2].n /\ s[h+2].n \in Nat
            /\ BodyEnd(s, b, h, e) = h + 3 + s[h+2].n /\ h \in Nat /\ e \in Nat
            /\ t = IF s[h+2].n = 0 THEN h + 3 ELSE h + 3 + s[h+2].n + 1
            /\ t \in Nat /\ t < e /\ (s[h+2].n > 0 => IsNL(s[t]))
        BY ChunkedOffsets, HeaderEndType DEF BodyRequest
      <4> HIDE DEF t
      <4> QED
        BY <2>2, <4>1
    <3>2. d = [Goto(c, "TRAILER") EXCEPT !.rd = @ + 1]
      BY <1>2, <2>4, <3>1 DEF ExpectCrlf
    <3>3. d.res = "run" /\ d.rd = t /\ d.got = c.got /\ d.st.status = "TRAILER"
      BY <2>1, <3>1, <3>2, CallFields DEF Goto, Streamer
    <3> HIDE DEF d
    <3>4. InBody(s, b, h, e, d.st, d.rd, file \cup d.got)
      BY <2>2, <3>1, <3>3 DEF InBody
    <3>5. GoesRight(s, b, h, e, file, max, d)
      BY <3>3, <3>4 DEF GoesRight
    <3> QED
      BY <3>5 DEF d
  <2> QED
    BY <2>3, <2>4
<1> QED
  BY <1>1, <1>2

(* The empty lines that _discard_trailer can see are those of the request: *)
(* its last one.                                                           *)
LEMMA TrailerEnd ==
  ASSUME NEW s, NEW t \in Nat, NEW e \in Nat, EmptyLines(s, t, e) = {e},
         NEW r \in t..e-1, r = t \/ IsNL(s[r]), NEW hi \in Nat
  PROVE  /\ hi >= e => e \in EmptyLines(s, r, hi)
         /\ \A x \in EmptyLines(s, r, hi) : x >= e
<1>1. e \in t+1..e /\ IsNL(s[e]) /\ (e = t + 1 \/ IsNL(s[e-1]))
  BY DEF EmptyLines
<1>2. hi >= e => e \in EmptyLines(s, r, hi)
  <2>1. hi >= e => e \in r+1..hi
    OBVIOUS
  <2>2. e = r + 1 \/ IsNL(s[e-1])
    BY <1>1
  <2> QED
    BY <1>1, <2>1, <2>2 DEF EmptyLines
<1>3. ASSUME NEW x \in EmptyLines(s, r, hi), ~(x >= e)
      PROVE  FALSE
  <2>1. x \in r+1..hi /\ IsNL(s[x]) /\ (x = r + 1 \/ IsNL(s[x-1]))
    BY <1>3 DEF EmptyLines
  <2>2. x \in t+1..e
    BY <1>3, <2>1
  <2>3. x = t + 1 \/ IsNL(s[x-1])
    <3>1. x = r + 1 => x - 1 = r
      BY <2>1
    <3> QED
      BY <2>1, <3>1
  <2>4. x \in EmptyLines(s, t, e)
    BY <2>1, <2>2, <2>3 DEF EmptyLines
  <2> QED
    BY <1>1, <1>3, <2>2, <2>4
<1> QED
  BY <1>2, <1>3

(* _discard_trailer ends where the request ends. *)
LEMMA DiscardTrailerGoesRight ==
  ASSUME NEW s, NEW b, NEW h, NEW e, BodyRequest(s, b, h, e), IsChunked(s, b, h),
         NEW lo \in Nat, NEW hi \in Nat, NEW c \in CallRecord(lo, hi),
         NEW file, NEW max, GoesRight(s, b, h, e, file, max, c),
         NEW d \in DiscardTrailer(s, c, hi)
  PROVE  GoesRight(s, b, h, e, file, max, d)
<1> DEFINE t == TrailerStart(s, b, h, e)
           empty == EmptyLines(s, c.rd, hi)
<1>1. CASE ~At(c, "TRAILER")
  BY <1>1 DEF DiscardTrailer
<1>2. CASE At(c, "TRAILER")
  <2>1. /\ c.res = "run" /\ c.st.status = "TRAILER" /\ c.st \in Streamer
        /\ InBody(s, b, h, e, c.st, c.rd, file \cup c.got)
    BY <1>2, CallFields DEF At, GoesRight
  <2>2. /\ c.rd \in t..e-1 /\ (c.rd = t \/ IsNL(s[c.rd]))
        /\ file \cup c.got = Body(s, b, h, e)
    BY <2>1 DEF InBody
  <2>3. t \in Nat /\ e \in Nat /\ EmptyLines(s, t, e) = {e}
    BY ChunkedOffsets DEF BodyRequest
  <2> HIDE DEF t
  <2>4. /\ hi >= e => e \in empty
        /\ \A x \in empty : x >= e
    BY <2>2, <2>3, TrailerEnd
  <2>5. CASE empty = {}
    <3>1. PICK p \in LineStarts(s, c.rd, hi) : d = [Return(c, "TRAILER", "MORE") EXCEPT !.rd = p]
      BY <1>2, <2>5 DEF DiscardTrailer
    <3>2. p \in c.rd..hi /\ (p = c.rd \/ IsNL(s[p])) /\ hi < e
      BY <2>3, <2>4, <2>5 DEF LineStarts
    <3>3. d.res = "MORE" /\ d.rd = p /\ d.got = c.got /\ d.st.status = "TRAILER"
      BY <2>1, <3>1, CallFields DEF Return, Goto, Streamer
    <3>4. p \in t..e-1 /\ (p = t \/ IsNL(s[p]))
      BY <2>2, <2>3, <3>2
    <3>5. InBody(s, b, h, e, d.st, d.rd, file \cup d.got)
      BY <2>2, <3>3, <3>4 DEF InBody, t
    <3> QED
      BY <3>3, <3>5 DEF GoesRight
  <2>6. CASE empty # {}
    <3>1. PICK x \in empty : /\ \A f \in empty : x <= f
                             /\ d = [Return(c, "TRAILER", "DONE") EXCEPT !.rd = x]
      BY <1>2, <2>6 DEF DiscardTrailer
    <3>2. x = e
      <4>1. x \in c.rd+1..hi
        BY DEF EmptyLines
      <4>2. e \in empty
        BY <2>2, <2>3, <2>4, <4>1
      <4> QED
        BY <2>2, <2>3, <2>4, <3>1, <4>1, <4>2
    <3>3. d.res = "DONE" /\ d.rd = e /\ d.got = c.got
      BY <3>1, <3>2, CallFields DEF Return, Goto
    <3> QED
      BY <2>2, <3>3 DEF GoesRight
  <2> QED
    BY <2>5, <2>6
<1> QED
  BY <1>1, <1>2

(* read_some_chunked *)
LEMMA ChunkedGoesRight ==
  ASSUME NEW s, NEW b, NEW h, NEW e, BodyRequest(s, b, h, e), IsChunked(s, b, h),
         BufCap > 1, NEW lo \in Nat, NEW hi \in Nat, hi <= Len(s),
         NEW c \in CallRecord(lo, hi), NEW file, NEW max \in Nat,
         Started(s, b, h, e, c, file), NEW d \in ReadSomeChunked(s, c, hi, max)
  PROVE  GoesRight(s, b, h, e, file, max, d)
<1>0. s \in Seq(Symbol)
  BY DEF BodyRequest
<1>1. PICK f \in GetChunkSize(s, c, hi) :
        \E g \in ReadChunkPayload(CheckMaxSize(f, max), hi) :
          d \in DiscardTrailer(s, ExpectCrlf(s, g, hi), hi)
  BY DEF ReadSomeChunked
<1>2. PICK g \in ReadChunkPayload(CheckMaxSize(f, max), hi) :
        d \in DiscardTrailer(s, ExpectCrlf(s, g, hi), hi)
  BY <1>1
<1>3. f \in CallRecord(lo, hi) /\ GoesRight(s, b, h, e, file, max, f) /\ f.got = {}
  BY <1>0, GetChunkSizeType, GetChunkSizeGoesRight
<1>4. /\ CheckMaxSize(f, max) \in CallRecord(lo, hi) /\ CheckMaxSize(f, max).got = {}
      /\ GoesRight(s, b, h, e, file, max, CheckMaxSize(f, max))
  BY <1>3, CheckMaxSizeType, CheckMaxSizeGoesRight
<1>5. g \in CallRecord(lo, hi) /\ GoesRight(s, b, h, e, file, max, g)
  BY <1>4, ReadChunkPayloadType, ReadChunkPayloadGoesRight
<1>6. /\ ExpectCrlf(s, g, hi) \in CallRecord(lo, hi)
      /\ GoesRight(s, b, h, e, file, max, ExpectCrlf(s, g, hi))
  BY <1>5, ExpectCrlfType, ExpectCrlfGoesRight
<1> QED
  BY <1>2, <1>6, DiscardTrailerGoesRight

(* The header that _read_body looks at is the one that was parsed. *)
LEMMA FieldsOfHeader ==
  ASSUME NEW s, NEW parser, NEW b, NEW h, parser.first = b, parser.last = h, NEW kind
  PROVE  Fields(s, parser, kind) = HeaderFields(s, b, h, kind)
  BY DEF Fields, Lines, HeaderFields

(* It announces chunks where that one does. *)
LEMMA ChunkedOfHeader ==
  ASSUME NEW s, NEW parser, NEW b, NEW h, parser.first = b, parser.last = h
  PROVE  InChunks(s, parser) <=> IsChunked(s, b, h)
  BY DEF Fields, Lines, Joined, InChunks, IsChunked

(* One call of _read_body, whatever announces the body *)
LEMMA OutcomesGoRight ==
  ASSUME NEW b, NEW h, NEW e, BodyRequest(stream, b, h, e), BufCap > 1,
         pa'.first = b, pa'.last = h, rcvd' \in Nat, rcvd' <= Len(stream),
         NEW st \in Streamer, NEW r \in Nat, r <= rcvd', NEW file,
         InBody(stream, b, h, e, st, r, file), MaxBody[pconf'] \in Nat,
         NEW d \in ReadBodyOutcomes(Call(st, r))
  PROVE  GoesRight(stream, b, h, e, file, MaxBody[pconf'], d)
<1> DEFINE max == MaxBody[pconf']
           c == Call(st, r)
<1>1. /\ c.st = st /\ c.rd = r /\ c.got = {} /\ c.res = "run"
      /\ c \in CallRecord(r, rcvd')
  BY NewCallIsRecord DEF Call
<1>2. /\ InChunks(stream, pa') <=> IsChunked(stream, b, h)
      /\ \A kind : Fields(stream, pa', kind) = HeaderFields(stream, b, h, kind)
  BY FieldsOfHeader, ChunkedOfHeader
<1>3. CASE IsChunked(stream, b, h)
  <2>1. d \in ReadSomeChunked(stream, c, rcvd', max)
    BY <1>2, <1>3 DEF ReadBodyOutcomes
  <2>2. Started(stream, b, h, e, c, file)
    BY <1>1 DEF Started
  <2> HIDE DEF c, max
  <2> QED
    BY <1>1, <1>3, <2>1, <2>2, ChunkedGoesRight DEF max
<1>4. CASE ~IsChunked(stream, b, h) /\ HeaderFields(stream, b, h, "length") # {}
  <2>1. PICK x \in HeaderFields(stream, b, h, "length") : d \in ReadLength(c, x, max)
    BY <1>2, <1>4 DEF ReadBodyOutcomes
  <2> QED
    BY <1>4, <2>1, LengthGoesRight
<1>5. CASE ~IsChunked(stream, b, h) /\ HeaderFields(stream, b, h, "length") = {}
  <2>1. d = [c EXCEPT !.res = "DONE"]
    BY <1>2, <1>5 DEF ReadBodyOutcomes
  <2>2. d.res = "DONE" /\ d.rd = r /\ d.got = {}
    BY <1>1, <2>1, CallFields
  <2>3. h \in Nat /\ e = h + 1 /\ Body(stream, b, h, e) = h + 1 + 1..e
    BY <1>5, PlainOffsets, HeaderEndType DEF BodyRequest, EndIsTold
  <2>4. r = h + 1 /\ file = {}
    <3>1. /\ BodyStart(stream, b, h) = h + 1 /\ BodyEnd(stream, b, h, e) = e
          /\ st.rem \in Int
      BY <1>5, PlainOffsets DEF Streamer
    <3>2. CASE st.status = "CHUNK_PAYLOAD"
      <4>1. st.rem > 0 /\ r + st.rem = h + 1 /\ r >= h + 1
        BY <1>5, <2>3, <3>1, <3>2 DEF InBody
      <4> QED
        BY <2>3, <3>1, <4>1
    <3>3. CASE st.status # "CHUNK_PAYLOAD"
      BY <1>5, <3>3 DEF InBody
    <3> QED
      BY <3>2, <3>3
  <2>5. file \cup d.got = Body(stream, b, h, e)
    BY <2>2, <2>3, <2>4
  <2> QED
    BY <2>2, <2>3, <2>4, <2>5 DEF GoesRight
<1> QED
  BY <1>3, <1>4, <1>5
=============================================================================
