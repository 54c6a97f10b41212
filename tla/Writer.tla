-------------------------------- MODULE Writer --------------------------------
(***************************************************************************)
(* The Writer of a connection, byte by byte: the setters in the order      *)
(* ConState calls them, and write_some, one call of send at a time.  It    *)
(* implements Response.                                                    *)
(*                                                                         *)
(* A definition whose comment starts with "Bug:" is the faulty variant of  *)
(* the one below it; no action uses it.                                    *)
(***************************************************************************)
EXTENDS Integers, FiniteSets, SequencesExt

CONSTANTS
  NoFile,        \* _body_file == NULL
  MaxFields,     \* bound on the header fields of a response
  BodySizes,     \* sizes of bodies in memory
  FileSizes,     \* sizes of what is left of the file to stream
  MaxWrite,      \* MAX_WRITE_SIZE
  BufSize,       \* BUFSIZE - 1
  Faults         \* what may fail: "send", "read"

ASSUME WriterAssumption ==
  /\ BodySizes \subseteq Nat /\ FileSizes \subseteq Nat \ {0}
  /\ MaxWrite \in Nat \ {0} /\ BufSize \in Nat \ {0} /\ MaxFields \in Nat
  /\ NoFile \notin [size : Nat, left : Nat, eof : BOOLEAN]

(* A byte is known by what it is part of: "own" is a content-length field  *)
(* of the user (a CGI script), "length" the one write_some adds, "end" the *)
(* empty line that ends the header.                                        *)
Byte == [of : {"status", "field", "own", "length", "end", "body"}, n : Nat]
B(part, n) == [of |-> part, n |-> n]
Content(size) == [i \in 1..size |-> B("body", i)]

VARIABLES
  (* the Writer, and the ifstream it streams *)
  pos,         \* _pos
  header,      \* _header
  body,        \* _body
  streaming,   \* _streaming
  rdbuf,       \* the bytes of _rdbuf between pos and end
  file,        \* *_body_file: its size, what is left to read and eof()
  (* its user, and the socket *)
  phase,       \* "reset", "fields", "ready", "sending", "finished" or "failed"
  sent         \* the bytes of the response send has accepted

vars == <<pos, header, body, streaming, rdbuf, file, phase, sent>>

-----------------------------------------------------------------------------
(* The setters, as a response is prepared                                  *)

Init ==
  /\ pos = 0 /\ header = <<>> /\ body = <<>>
  /\ streaming = FALSE /\ rdbuf = <<>> /\ file = NoFile
  /\ phase = "reset" /\ sent = <<>>

(* The connection prepares its next response.                              *)
Reset ==
  /\ phase = "finished"
  /\ pos' = 0 /\ header' = <<>> /\ body' = <<>>
  /\ streaming' = FALSE /\ rdbuf' = <<>> /\ file' = NoFile
  /\ phase' = "reset" /\ sent' = <<>>

SetStatus ==
  /\ phase = "reset" /\ phase' = "fields"
  /\ header' = Append(header, B("status", 0))
  /\ UNCHANGED <<pos, body, streaming, rdbuf, file, sent>>

AddHeaderField ==
  /\ phase = "fields" /\ Len(header) <= MaxFields
  /\ \E part \in {"field", "own"} : header' = Append(header, B(part, 0))
  /\ UNCHANGED <<pos, body, streaming, rdbuf, file, phase, sent>>

(* use_as_body, body_append, read_body_from_stream                         *)
SetBody ==
  /\ phase = "fields" /\ phase' = "ready"
  /\ \E size \in BodySizes : body' = Content(size)
  /\ UNCHANGED <<pos, header, streaming, rdbuf, file, sent>>

stream_file_to_body ==
  /\ phase = "fields" /\ phase' = "ready"
  /\ \E size \in FileSizes :
       file' = [size |-> size, left |-> size, eof |-> FALSE]
  /\ UNCHANGED <<pos, header, body, streaming, rdbuf, sent>>

-----------------------------------------------------------------------------
(* write_some: the header, with a body in memory                           *)

Parts(bytes) == {bytes[i].of : i \in DOMAIN bytes}

(* Bug: the body in memory is measured, whatever is sent. *)
MeasureMemory == Len(body)

ContentLength == IF file # NoFile THEN file.left ELSE Len(body)

(* what the first call makes of _header                                    *)
Ended ==
  header \o (IF "own" \in Parts(header) THEN <<>>
             ELSE <<B("length", ContentLength)>>)
         \o <<B("end", 0)>>
         \o (IF file = NoFile THEN body ELSE <<>>)

(* Bug: the first send is taken for the whole header. *)
FirstSendEnds(p, h) == p > 0

HeaderSent(p, h) == p = Len(h)

SmallerOf(a, b) == IF a <= b THEN a ELSE b

WriteHeader ==
  /\ ~streaming
  /\ header' = IF pos = 0 THEN Ended ELSE header
  /\ \E k \in 1..SmallerOf(MaxWrite, Len(header') - pos) :  \* what send accepts
       /\ pos' = pos + k
       /\ sent' = sent \o SubSeq(header', pos + 1, pos + k)
  /\ streaming' = (HeaderSent(pos', header') /\ file # NoFile)
  /\ phase' = IF HeaderSent(pos', header') /\ file = NoFile THEN "finished"
              ELSE "sending"
  /\ UNCHANGED <<body, rdbuf, file>>

-----------------------------------------------------------------------------
(* write_some: a block of a streamed file                                  *)

(* Bug: the end is only noticed by a read that gets some bytes.            *)
AfterFullRead(f, n) ==
  [f EXCEPT !.left = @ - SmallerOf(n, @), !.eof = f.left > 0 /\ n > f.left]

(* read(n) of an ifstream: eof is set when fewer than n bytes are left     *)
AfterRead(f, n) == [f EXCEPT !.left = @ - SmallerOf(n, @), !.eof = n > f.left]

(* Buf::read_more(istream): what it appends to the bytes pending           *)
BytesRead(n) ==
  SubSeq(Content(file.size), file.size - file.left + 1,
         file.size - file.left + SmallerOf(n, file.left))

(* A blocking socket accepts the block whole.                              *)
WriteBlock ==
  /\ streaming
  /\ LET n == BufSize - Len(rdbuf)
         block == rdbuf \o BytesRead(n)
     IN  /\ file' = AfterRead(file, n)
         /\ sent' = sent \o block
  /\ rdbuf' = <<>>
  /\ phase' = IF file'.eof THEN "finished" ELSE "sending"
  /\ UNCHANGED <<pos, header, body, streaming>>

(* write_some, when neither the file nor the socket fails                  *)
SendSome == phase \in {"ready", "sending"} /\ (WriteHeader \/ WriteBlock)

(* READ_ERROR or WRITE_ERROR: the response is abandoned                    *)
WriteFails ==
  /\ phase \in {"ready", "sending"}
  /\ "send" \in Faults \/ (streaming /\ "read" \in Faults)
  /\ header' = IF pos = 0 THEN Ended ELSE header
  /\ phase' = "failed"
  /\ UNCHANGED <<pos, body, streaming, rdbuf, file, sent>>

write_some == SendSome \/ WriteFails

Next == Reset \/ SetStatus \/ AddHeaderField \/ SetBody \/ stream_file_to_body
        \/ write_some

Spec == Init /\ [][Next]_vars

(* The poll loop calls write_some whenever the socket accepts output, and  *)
(* a client that reads makes it accept output again.  Nothing is asked of  *)
(* the failures: they must not be what ends a response.                    *)
FairSpec == Spec /\ WF_vars(SendSome)

-----------------------------------------------------------------------------
(* Properties                                                              *)

(* The response being prepared or sent, whole: the abstract state's        *)
Whole ==
  (IF "end" \in Parts(header) THEN header ELSE Ended)
    \o (IF file = NoFile THEN <<>> ELSE Content(file.size))

Abstract == INSTANCE Response WITH
  whole <- Whole, out <- sent,
  state <- IF phase = "finished" THEN "ended"
           ELSE IF phase = "failed" THEN "failed" ELSE "busy"

(* Whatever send accepts at a time, and wherever the header, the body in   *)
(* memory and the blocks of a file begin and end, what goes out is the     *)
(* response in order, nothing twice and nothing left out, and OK_FINISHED  *)
(* is returned when all of it is out and not before (Writer.cpp:51).       *)
ImplementsResponse == Abstract!Spec

(* A finished response tells the client how long its body is exactly once, *)
(* and unless a script told it itself, what it tells is the number of      *)
(* bytes that followed: the client would otherwise wait for more or take   *)
(* the rest for its next response (Writer.cpp:53).                         *)
DeclaredLength ==
  phase = "finished" =>
    LET added == {i \in DOMAIN sent : sent[i].of = "length"}
        bytes == {i \in DOMAIN sent : sent[i].of = "body"}
    IN  /\ Cardinality(added) = IF "own" \in Parts(sent) THEN 0 ELSE 1
        /\ \A i \in added : sent[i].n = Cardinality(bytes)

(* Sending comes to an end: no call of write_some leaves the next one      *)
(* with the same work to do, at the end of a file that fills its last      *)
(* block exactly too (Writer.cpp:93).                                      *)
SendingEnds == phase = "sending" ~> phase \in {"finished", "failed"}
=============================================================================
