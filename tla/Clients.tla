------------------------------ MODULE Clients ------------------------------
(***************************************************************************)
(* What a client sends when it keeps to the protocol as this server reads  *)
(* it.  The properties that a connection has only with such clients are    *)
(* proved from these conditions on Requests; the requests that the runs of *)
(* MCConState call well-formed satisfy them.                               *)
(*                                                                         *)
(* A request is the part s[b+1..e] of an input s.                          *)
(***************************************************************************)
EXTENDS ConState

(* The offset of its empty line: a set of at most one h, such that         *)
(* s[b+1..h] are the lines of its header.                                  *)
HeaderEnds(s, b, e) ==
  {h \in b+2..e-1 :
     /\ (h - b) % 2 = 0
     /\ GoodLine(s, "START", b)
     /\ \A q \in b+2..h-1 : (q - b) % 2 = 0 => GoodLine(s, "HEADER", q)
     /\ IsNL(s[h+1])}

HeaderFields(s, b, h, kind) == Fields(s, [first |-> b, last |-> h], kind)

IsChunked(s, b, h) == InChunks(s, [first |-> b, last |-> h])

(* _dispatch has the body of a request with this start line read.          *)
ReadsBody(line) ==
  line.m = "POST" /\ "POST" \in Accepts[line.t] /\ line.t \notin Redirected

(* The body of a request: what follows the header, or its first chunk      *)
BodyStart(s, b, h)   == IF IsChunked(s, b, h) THEN h + 3 ELSE h + 1
BodySize(s, b, h, e) == IF IsChunked(s, b, h) THEN s[h+2].n ELSE e - (h + 1)
BodyEnd(s, b, h, e)  == BodyStart(s, b, h) + BodySize(s, b, h, e)
Body(s, b, h, e)     == BodyStart(s, b, h) + 1..BodyEnd(s, b, h, e)

(* What _discard_trailer drops starts here, after the CRLF of the first    *)
(* chunk if there is one.                                                  *)
TrailerStart(s, b, h, e) ==
  IF BodySize(s, b, h, e) = 0 THEN h + 3 ELSE BodyEnd(s, b, h, e) + 1

(* A chunk-size line, that chunk, and lines up to the first empty one:     *)
(* what read_some_chunked takes for a body (more chunks are such lines).   *)
ChunkedBody(s, b, h, e) ==
  LET t == TrailerStart(s, b, h, e)
  IN  /\ s[h+2].k = "size" /\ s[h+2].n >= 0 /\ IsNL(s[h+3])
      /\ t \in h+3..e-1
      /\ s[h+2].n > 0 => IsNL(s[t])
      /\ EmptyLines(s, t, e) = {e}

(* The header tells where the request ends, and a body is only sent where  *)
(* one is read.                                                            *)
EndIsTold(s, b, h, e) ==
  IF ~ReadsBody(s[b+1]) THEN e = h + 1
  ELSE IF IsChunked(s, b, h) THEN ChunkedBody(s, b, h, e)
  ELSE IF HeaderFields(s, b, h, "length") # {}
  THEN \A x \in HeaderFields(s, b, h, "length") : x.n = e - (h + 1)
  ELSE e = h + 1

(* It names a server, and its body is small enough for all of them.        *)
FitsServers(s, b, h, e) ==
  /\ HeaderFields(s, b, h, "host") # {}
  /\ ReadsBody(s[b+1]) =>
       \A v \in Servers : MaxBody[v] > 0 => BodySize(s, b, h, e) <= MaxBody[v]

-----------------------------------------------------------------------------
(* The requests a client chooses from                                      *)

Ends(r) == HeaderEnds(r.syms, 0, Len(r.syms))

Conforming(r) ==
  Ends(r) # {} /\ \A h \in Ends(r) : EndIsTold(r.syms, 0, h, Len(r.syms))

(* Its body is all in the first chunk.                                     *)
OneChunk(r) ==
  \A h \in Ends(r) :
    ReadsBody(r.syms[1]) => r.payload = Body(r.syms, 0, h, Len(r.syms))

(* Nothing in it makes the server give up before it has all of it.         *)
Fitting(r) == \A h \in Ends(r) : FitsServers(r.syms, 0, h, Len(r.syms))

(* Bound: the buffer holds a line of a header.                             *)
ConformingClient == BufCap > 1 /\ \A r \in Requests : Conforming(r)

OneChunkClient == \A r \in Requests : OneChunk(r)

(* Nor does the operating system make it give up.                          *)
ServedClient ==
  /\ ConformingClient
  /\ \A r \in Requests : Fitting(r)
  /\ Faults \cap {"slots", "open", "disk"} = {}
=============================================================================
