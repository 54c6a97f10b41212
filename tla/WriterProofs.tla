---------------------------- MODULE WriterProofs ----------------------------
(***************************************************************************)
(* The Writer implements Response, whatever the sizes of headers, bodies,  *)
(* files, blocks and sends.                                                *)
(*                                                                         *)
(* The response as a whole is fixed when its first byte goes out, although *)
(* the Writer never holds it: it is _header, in which the body in memory   *)
(* may already be, and then the file.  The invariant says which prefix of  *)
(* it has gone out in each phase: _pos bytes of _header, or all of _header *)
(* and what has been read of the file.                                     *)
(***************************************************************************)
EXTENDS Writer, TLAPS, SequenceTheorems, FiniteSetTheorems

FileState == [size : Nat, left : Nat, eof : BOOLEAN]

TypeOK ==
  /\ pos \in Nat /\ header \in Seq(Byte) /\ body \in Seq(Byte)
  /\ streaming \in BOOLEAN /\ rdbuf = <<>>
  /\ file \in FileState \cup {NoFile}
  /\ phase \in {"reset", "fields", "ready", "sending", "finished", "failed"}
  /\ sent \in Seq(Byte)

(* The part of a response that is not in _header *)
Rest == IF file = NoFile THEN <<>> ELSE Content(file.size)

(* Nothing has gone out of a response that is being prepared. *)
Preparing ==
  phase \in {"reset", "fields", "ready"} =>
    /\ pos = 0 /\ sent = <<>> /\ ~streaming /\ "end" \notin Parts(header)
    /\ file # NoFile => file.left = file.size
    /\ phase # "ready" => file = NoFile /\ body = <<>>

(* Then the header goes out, *)
SendingHeader ==
  phase = "sending" /\ ~streaming =>
    /\ "end" \in Parts(header) /\ pos # 0 /\ pos < Len(header)
    /\ sent = SubSeq(header, 1, pos)
    /\ file # NoFile => file.left = file.size

(* and after it the file, as far as it has been read. *)
SendingFile ==
  phase = "sending" /\ streaming =>
    /\ "end" \in Parts(header) /\ pos # 0
    /\ file # NoFile /\ file.left <= file.size
    /\ sent = header \o SubSeq(Content(file.size), 1, file.size - file.left)

Sent == phase = "finished" => "end" \in Parts(header) /\ sent = header \o Rest

IInv == TypeOK /\ Preparing /\ SendingHeader /\ SendingFile /\ Sent

-----------------------------------------------------------------------------
(* Sequences                                                               *)

LEMMA TwoPrefixes ==
  ASSUME NEW S, NEW s \in Seq(S), NEW a \in 0..Len(s), NEW b \in a..Len(s)
  PROVE  /\ IsPrefix(SubSeq(s, 1, a), SubSeq(s, 1, b))
         /\ IsPrefix(SubSeq(s, 1, a), s)
<1>1. /\ SubSeq(s, 1, a) \in Seq(S) /\ Len(SubSeq(s, 1, a)) = a
      /\ \A i \in 1..a : SubSeq(s, 1, a)[i] = s[i]
  BY SubSeqProperties
<1>2. /\ SubSeq(s, 1, b) \in Seq(S) /\ Len(SubSeq(s, 1, b)) = b
      /\ \A i \in 1..b : SubSeq(s, 1, b)[i] = s[i]
  BY SubSeqProperties
<1>3. SubSeq(SubSeq(s, 1, a), 1, a) = SubSeq(s, 1, a)
  BY <1>1, SubSeqFull
<1>4. SubSeq(SubSeq(s, 1, b), 1, a) = SubSeq(s, 1, a)
  <2> DEFINE t == SubSeq(SubSeq(s, 1, b), 1, a)
  <2>1. /\ t \in Seq(S) /\ Len(t) = a
        /\ \A i \in 1..a : t[i] = SubSeq(s, 1, b)[i]
    BY <1>2, SubSeqProperties
  <2> HIDE DEF t
  <2> QED
    BY <1>1, <1>2, <2>1, SeqEqual DEF t
<1> QED
  BY <1>1, <1>2, <1>3, <1>4 DEF IsPrefix

LEMMA PrefixOfConcat ==
  ASSUME NEW S, NEW s \in Seq(S), NEW t \in Seq(S), NEW a \in 0..Len(s)
  PROVE  SubSeq(s \o t, 1, a) = SubSeq(s, 1, a)
<1>1. CASE a = 0
  BY <1>1, SubSeqEmpty
<1>2. CASE a # 0
  BY <1>2, SubSeqOfConcat1
<1> QED
  BY <1>1, <1>2

LEMMA ConcatOfPrefix ==
  ASSUME NEW S, NEW s \in Seq(S), NEW t \in Seq(S), NEW a \in 0..Len(t)
  PROVE  SubSeq(s \o t, 1, Len(s) + a) = s \o SubSeq(t, 1, a)
<1>1. /\ SubSeq(t, 1, a) \in Seq(S) /\ Len(SubSeq(t, 1, a)) = a
      /\ \A i \in 1..a : SubSeq(t, 1, a)[i] = t[i]
  BY SubSeqProperties
<1>2. /\ s \o t \in Seq(S) /\ Len(s \o t) = Len(s) + Len(t)
      /\ \A i \in 1..Len(s) + Len(t) : (s \o t)[i] = IF i <= Len(s) THEN s[i] ELSE t[i - Len(s)]
  BY ConcatProperties
<1>3. /\ SubSeq(s \o t, 1, Len(s) + a) \in Seq(S)
      /\ Len(SubSeq(s \o t, 1, Len(s) + a)) = Len(s) + a
      /\ \A i \in 1..Len(s) + a : SubSeq(s \o t, 1, Len(s) + a)[i] = (s \o t)[i]
  BY <1>2, SubSeqProperties
<1>4. /\ s \o SubSeq(t, 1, a) \in Seq(S) /\ Len(s \o SubSeq(t, 1, a)) = Len(s) + a
      /\ \A i \in 1..Len(s) + a :
           (s \o SubSeq(t, 1, a))[i] = IF i <= Len(s) THEN s[i] ELSE SubSeq(t, 1, a)[i - Len(s)]
  BY <1>1, ConcatProperties
<1>5. ASSUME NEW i \in 1..Len(s) + a
      PROVE  SubSeq(s \o t, 1, Len(s) + a)[i] = (s \o SubSeq(t, 1, a))[i]
  <2>1. CASE i <= Len(s)
    BY <1>2, <1>3, <1>4, <2>1
  <2>2. CASE ~(i <= Len(s))
    <3>1. i - Len(s) \in 1..a
      BY <2>2
    <3> QED
      BY <1>1, <1>2, <1>3, <1>4, <2>2, <3>1
  <2> QED
    BY <2>1, <2>2
<1> QED
  BY <1>3, <1>4, <1>5, SeqEqual

LEMMA PartsOfConcat ==
  ASSUME NEW s \in Seq(Byte), NEW t \in Seq(Byte)
  PROVE  Parts(s \o t) = Parts(s) \cup Parts(t)
<1>1. /\ Len(s \o t) = Len(s) + Len(t) /\ s \o t \in Seq(Byte)
      /\ \A i \in 1..Len(s) + Len(t) : (s \o t)[i] = IF i <= Len(s) THEN s[i] ELSE t[i - Len(s)]
  BY ConcatProperties
<1>2. /\ DOMAIN s = 1..Len(s) /\ DOMAIN t = 1..Len(t)
      /\ DOMAIN (s \o t) = 1..Len(s) + Len(t) /\ Len(s) \in Nat /\ Len(t) \in Nat
  BY <1>1, LenProperties
<1>3. ASSUME NEW i \in 1..Len(s) + Len(t)
      PROVE  (s \o t)[i].of \in Parts(s) \cup Parts(t)
  <2>1. CASE i <= Len(s)
    BY <1>1, <1>2, <2>1 DEF Parts
  <2>2. CASE ~(i <= Len(s))
    <3>1. i - Len(s) \in 1..Len(t)
      BY <1>2, <2>2
    <3> QED
      BY <1>1, <1>2, <2>2, <3>1 DEF Parts
  <2> QED
    BY <2>1, <2>2
<1>4. ASSUME NEW i \in 1..Len(s)
      PROVE  s[i].of \in Parts(s \o t)
  <2>1. i \in 1..Len(s) + Len(t) /\ (s \o t)[i] = s[i]
    BY <1>1, <1>2
  <2> QED
    BY <1>2, <2>1 DEF Parts
<1>5. ASSUME NEW i \in 1..Len(t)
      PROVE  t[i].of \in Parts(s \o t)
  <2>1. i + Len(s) \in 1..Len(s) + Len(t) /\ (s \o t)[i + Len(s)] = t[i]
    BY <1>1, <1>2
  <2> QED
    BY <1>2, <2>1 DEF Parts
<1> QED
  BY <1>2, <1>3, <1>4, <1>5 DEF Parts

LEMMA OneByte ==
  ASSUME NEW b \in Byte
  PROVE  <<b>> \in Seq(Byte) /\ Parts(<<b>>) = {b.of}
  BY DEF Parts

LEMMA ContentType ==
  ASSUME NEW size \in Nat
  PROVE  Content(size) \in Seq(Byte) /\ Len(Content(size)) = size /\ "end" \notin Parts(Content(size))
<1>1. \A i \in 1..size : B("body", i) \in Byte
  BY DEF B, Byte
<1>2. Content(size) \in Seq(Byte) /\ Len(Content(size)) = size
  BY <1>1 DEF Content
<1>3. \A i \in DOMAIN Content(size) : Content(size)[i].of = "body"
  BY DEF Content, B
<1> QED
  BY <1>2, <1>3 DEF Parts

-----------------------------------------------------------------------------
(* The header, once it has been ended                                      *)

LEMMA Constants ==
  /\ BodySizes \subseteq Nat /\ FileSizes \subseteq Nat \ {0} /\ NoFile \notin FileState
  /\ MaxWrite \in Nat \ {0} /\ BufSize \in Nat \ {0} /\ MaxFields \in Nat
  BY WriterAssumption DEF FileState

LEMMA EndedType ==
  ASSUME TypeOK
  PROVE  Ended \in Seq(Byte) /\ "end" \in Parts(Ended)
<1> USE Constants
<1>1. ContentLength \in Nat
  <2>1. Len(body) \in Nat
    BY LenProperties DEF TypeOK
  <2>2. file # NoFile => file.left \in Nat
    BY DEF TypeOK, FileState
  <2> QED
    BY <2>1, <2>2 DEF ContentLength
<1> DEFINE announced == IF "own" \in Parts(header) THEN <<>> ELSE <<B("length", ContentLength)>>
           inMemory  == IF file = NoFile THEN body ELSE <<>>
           last      == <<B("end", 0)>>
<1>2. announced \in Seq(Byte) /\ inMemory \in Seq(Byte) /\ header \in Seq(Byte)
  <2>1. B("length", ContentLength) \in Byte
    BY <1>1 DEF B, Byte
  <2> QED
    BY <2>1, OneByte, EmptySeq DEF TypeOK
<1>3. last \in Seq(Byte) /\ "end" \in Parts(last)
  <2>1. B("end", 0) \in Byte /\ B("end", 0).of = "end"
    BY DEF B, Byte
  <2> QED
    BY <2>1, OneByte
<1>4. Ended = ((header \o announced) \o last) \o inMemory
  BY DEF Ended
<1> HIDE DEF announced, inMemory, last
<1>5. header \o announced \in Seq(Byte)
  BY <1>2, ConcatProperties
<1>6. (header \o announced) \o last \in Seq(Byte) /\ "end" \in Parts((header \o announced) \o last)
  BY <1>3, <1>5, ConcatProperties, PartsOfConcat
<1> QED
  BY <1>2, <1>4, <1>6, ConcatProperties, PartsOfConcat

WholeTyped ==
  /\ Rest \in Seq(Byte) /\ Whole \in Seq(Byte)
  /\ Whole = (IF "end" \in Parts(header) THEN header ELSE Ended) \o Rest

LEMMA WholeType == TypeOK => WholeTyped
<1> SUFFICES ASSUME TypeOK PROVE WholeTyped
  OBVIOUS
<1>1. Rest \in Seq(Byte)
  BY Constants, ContentType, EmptySeq DEF TypeOK, FileState, Rest
<1>2. Whole = (IF "end" \in Parts(header) THEN header ELSE Ended) \o Rest
  BY DEF Whole, Rest
<1> QED
  BY <1>1, <1>2, EndedType, ConcatProperties DEF TypeOK, WholeTyped

LEMMA WholeTypeNext == TypeOK' => WholeTyped'
  BY WholeType, PTL

(* A header with its end is not empty. *)
LEMMA NotEmpty ==
  ASSUME NEW s \in Seq(Byte), "end" \in Parts(s)
  PROVE  Len(s) \in Nat \ {0}
  BY EmptySeq DEF Parts

-----------------------------------------------------------------------------
(* The steps                                                               *)

State == IF phase = "finished" THEN "ended" ELSE IF phase = "failed" THEN "failed" ELSE "busy"

LEMMA InitInv == Init => IInv /\ Abstract!Init
<1> SUFFICES ASSUME Init PROVE IInv /\ Abstract!Init
  OBVIOUS
<1>1. TypeOK
  BY EmptySeq DEF Init, TypeOK
<1>2. "end" \notin Parts(header)
  BY DEF Init, Parts
<1>3. IInv
  BY <1>1, <1>2 DEF Init, IInv, Preparing, SendingHeader, SendingFile, Sent
<1>4. Whole \in Seq(Byte)
  BY <1>1, WholeType DEF WholeTyped
<1> QED
  BY <1>3, <1>4 DEF Init, Abstract!Init

LEMMA PrepareStep ==
  ASSUME IInv, SetStatus \/ AddHeaderField \/ SetBody \/ stream_file_to_body
  PROVE  IInv' /\ Abstract!Compose
<1> USE Constants DEF IInv
<1>1. phase \in {"reset", "fields"} /\ phase' \in {"fields", "ready"}
  BY DEF SetStatus, AddHeaderField, SetBody, stream_file_to_body
<1>2. UNCHANGED <<pos, streaming, rdbuf, sent>>
  BY DEF SetStatus, AddHeaderField, SetBody, stream_file_to_body
<1>3. /\ pos = 0 /\ sent = <<>> /\ ~streaming /\ "end" \notin Parts(header)
      /\ file = NoFile /\ body = <<>>
  BY <1>1 DEF Preparing
<1>4. header' \in Seq(Byte) /\ "end" \notin Parts(header')
  <2>1. ASSUME NEW part \in {"status", "field", "own"}, header' = Append(header, B(part, 0))
        PROVE  header' \in Seq(Byte) /\ "end" \notin Parts(header')
    <3>1. B(part, 0) \in Byte /\ B(part, 0).of = part /\ header \in Seq(Byte)
      BY DEF B, Byte, TypeOK
    <3>2. header' = header \o <<B(part, 0)>>
      BY <2>1, <3>1, AppendIsConcat
    <3>3. <<B(part, 0)>> \in Seq(Byte) /\ Parts(<<B(part, 0)>>) = {part}
      BY <3>1, OneByte
    <3>4. header' \in Seq(Byte) /\ Parts(header') = Parts(header) \cup {part}
      BY <3>1, <3>2, <3>3, PartsOfConcat, ConcatProperties
    <3> QED
      BY <1>3, <3>4
  <2>2. CASE UNCHANGED header
    BY <1>3, <2>2 DEF TypeOK
  <2> QED
    BY <2>1, <2>2 DEF SetStatus, AddHeaderField, SetBody, stream_file_to_body
<1>5. body' \in Seq(Byte) /\ (phase' # "ready" => body' = <<>>)
  <2>1. CASE SetBody
    BY <2>1, ContentType DEF SetBody
  <2>2. CASE UNCHANGED body /\ body' = <<>>
    BY <2>2, EmptySeq
  <2> QED
    BY <1>3, <2>1, <2>2 DEF SetStatus, AddHeaderField, stream_file_to_body
<1>6. /\ file' \in FileState \cup {NoFile} /\ (file' # NoFile => file'.left = file'.size)
      /\ phase' # "ready" => file' = NoFile
  <2>1. CASE stream_file_to_body
    BY <2>1 DEF stream_file_to_body, FileState
  <2>2. CASE file' = NoFile
    BY <2>2
  <2> QED
    BY <1>3, <2>1, <2>2 DEF SetStatus, AddHeaderField, SetBody
<1>7. TypeOK'
  BY <1>1, <1>2, <1>4, <1>5, <1>6 DEF TypeOK
<1>8. IInv'
  BY <1>1, <1>2, <1>3, <1>4, <1>5, <1>6, <1>7
     DEF Preparing, SendingHeader, SendingFile, Sent
<1>9. Whole' \in Seq(Byte)
  BY <1>7, WholeTypeNext DEF WholeTyped
<1>10. sent' = sent /\ State = "busy" /\ State' = "busy"
  BY <1>1, <1>2 DEF State
<1> QED
  BY <1>3, <1>8, <1>9, <1>10 DEF Abstract!Compose, State

LEMMA ResetStep ==
  ASSUME IInv, Reset
  PROVE  IInv' /\ Abstract!Again
<1>1. TypeOK'
  BY EmptySeq DEF Reset, TypeOK
<1>2. "end" \notin Parts(header')
  BY DEF Reset, Parts
<1>3. IInv'
  BY <1>1, <1>2 DEF Reset, IInv, Preparing, SendingHeader, SendingFile, Sent
<1>4. Whole' \in Seq(Byte)
  BY <1>1, WholeTypeNext DEF WholeTyped
<1> QED
  BY <1>3, <1>4 DEF Reset, Abstract!Again

(* What has gone out is a prefix of a response that stays the same. *)
LEMMA SendIs ==
  ASSUME Whole \in Seq(Byte), Whole' = Whole,
         NEW a \in 0..Len(Whole), NEW b \in a..Len(Whole),
         sent = SubSeq(Whole, 1, a), sent' = SubSeq(Whole, 1, b),
         State = "busy", State' = "busy" \/ (State' = "ended" /\ b = Len(Whole))
  PROVE  Abstract!Send
<1>1. IsPrefix(sent, sent') /\ IsPrefix(sent', Whole')
  <2>1. b \in 0..Len(Whole) /\ b \in b..Len(Whole)
    BY LenProperties
  <2> QED
    BY <2>1, TwoPrefixes
<1>2. State' = "ended" => sent' = Whole'
  BY SubSeqFull
<1> QED
  BY <1>1, <1>2 DEF Abstract!Send, Abstract!IsPrefix, IsPrefix, State

LEMMA WriteHeaderStep ==
  ASSUME IInv, phase \in {"ready", "sending"}, WriteHeader
  PROVE  IInv' /\ Abstract!Send
<1> USE Constants DEF IInv
<1>1. ~streaming /\ UNCHANGED <<body, rdbuf, file>> /\ header' = IF pos = 0 THEN Ended ELSE header
  BY DEF WriteHeader
<1>2. PICK k \in 1..SmallerOf(MaxWrite, Len(header') - pos) :
        pos' = pos + k /\ sent' = sent \o SubSeq(header', pos + 1, pos + k)
  BY DEF WriteHeader
<1>3. /\ header' \in Seq(Byte) /\ "end" \in Parts(header') /\ sent = SubSeq(header', 1, pos)
      /\ file # NoFile => file.left = file.size
      /\ Whole = header' \o Rest /\ pos \in Nat
  <2>1. CASE pos = 0
    <3>1. phase = "ready"
      BY <1>1, <2>1 DEF SendingHeader
    <3>2. sent = <<>> /\ "end" \notin Parts(header) /\ (file # NoFile => file.left = file.size)
      BY <3>1 DEF Preparing
    <3>3. SubSeq(header', 1, 0) = <<>>
      BY SubSeqEmpty
    <3> QED
      BY <1>1, <2>1, <3>2, <3>3, EndedType, WholeType DEF WholeTyped
  <2>2. CASE pos # 0
    <3>1. phase = "sending"
      BY <2>2 DEF Preparing
    <3> QED
      BY <1>1, <2>2, <3>1, WholeType DEF SendingHeader, TypeOK, WholeTyped
  <2> QED
    BY <2>1, <2>2
<1>4. pos' \in Nat /\ pos' # 0 /\ pos < pos' /\ pos' <= Len(header')
  BY <1>2, <1>3, LenProperties DEF SmallerOf
<1>5. sent' = SubSeq(header', 1, pos')
  <2>1. 1 \in 1..Len(header') + 1 /\ pos \in 0..Len(header') /\ pos' \in pos..Len(header')
    BY <1>3, <1>4, LenProperties
  <2>2. SubSeq(header', 1, pos) \o SubSeq(header', pos + 1, pos') = SubSeq(header', 1, pos')
    <3>1. PICK h \in Seq(Byte) : h = header'
      BY <1>3
    <3>2. /\ 1 \in 1..Len(h) + 1 /\ pos \in 1 - 1..Len(h) /\ pos' \in pos..Len(h)
      BY <2>1, <3>1
    <3>3. \A n \in pos..Len(h) : SubSeq(h, 1, pos) \o SubSeq(h, pos + 1, n) = SubSeq(h, 1, n)
      BY <3>2, ConcatAdjacentSubSeq
    <3> QED
      BY <3>1, <3>2, <3>3
  <2> QED
    BY <1>2, <1>3, <2>2
<1>6. sent' \in Seq(Byte)
  <2>1. \A i \in 1..pos' : header'[i] \in Byte
    BY <1>3, <1>4, ElementOfSeq, LenProperties
  <2> QED
    BY <1>4, <1>5, <2>1, SubSeqProperties
<1>7. /\ streaming' = (pos' = Len(header') /\ file # NoFile)
      /\ phase' = IF pos' = Len(header') /\ file = NoFile THEN "finished" ELSE "sending"
  BY DEF WriteHeader, HeaderSent
<1>8. TypeOK'
  BY <1>1, <1>3, <1>4, <1>6, <1>7 DEF TypeOK
<1>9. SendingHeader'
  <2> SUFFICES ASSUME phase' = "sending", ~streaming'
               PROVE  /\ "end" \in Parts(header') /\ pos' # 0 /\ pos' < Len(header')
                      /\ sent' = SubSeq(header', 1, pos')
                      /\ file' # NoFile => file'.left = file'.size
    BY DEF SendingHeader
  <2>1. pos' # Len(header') /\ Len(header') \in Nat
    BY <1>3, <1>7, LenProperties
  <2> QED
    BY <1>1, <1>3, <1>4, <1>5, <2>1
<1>10. pos' = Len(header') => sent' = header'
  BY <1>3, <1>5, SubSeqFull
<1>11. SendingFile'
  <2> SUFFICES ASSUME phase' = "sending", streaming'
               PROVE  /\ "end" \in Parts(header') /\ pos' # 0
                      /\ file' # NoFile /\ file'.left <= file'.size
                      /\ sent' = header' \o SubSeq(Content(file'.size), 1, file'.size - file'.left)
    BY DEF SendingFile
  <2>1. pos' = Len(header') /\ file' = file /\ file # NoFile
    BY <1>1, <1>7
  <2>2. file.left = file.size /\ file.size \in Nat
    BY <1>3, <2>1 DEF TypeOK, FileState
  <2>3. SubSeq(Content(file.size), 1, 0) = <<>>
    BY SubSeqEmpty
  <2>4. header' \o <<>> = header'
    BY <1>3, ConcatEmptySeq
  <2> QED
    BY <1>3, <1>4, <1>10, <2>1, <2>2, <2>3, <2>4
<1>12. Sent'
  <2> SUFFICES ASSUME phase' = "finished"
               PROVE  "end" \in Parts(header') /\ sent' = header' \o Rest'
    BY DEF Sent
  <2>1. pos' = Len(header') /\ Rest' = <<>>
    BY <1>1, <1>7 DEF Rest
  <2> QED
    BY <1>3, <1>10, <2>1, ConcatEmptySeq
<1>13. IInv'
  BY <1>7, <1>8, <1>9, <1>11, <1>12 DEF Preparing
<1>14. Whole' = Whole
  <2>1. Whole' = (IF "end" \in Parts(header') THEN header' ELSE Ended') \o Rest'
    BY <1>8, WholeTypeNext DEF WholeTyped
  <2> QED
    BY <1>1, <1>3, <2>1 DEF Rest
<1>15. Abstract!Send
  <2>1. /\ Rest \in Seq(Byte) /\ Whole \in Seq(Byte)
        /\ Len(Whole) = Len(header') + Len(Rest) /\ Len(Rest) \in Nat /\ Len(header') \in Nat
    BY <1>3, WholeType, ConcatProperties, LenProperties DEF WholeTyped
  <2>2. /\ pos \in 0..Len(header') /\ pos' \in 0..Len(header')
        /\ pos \in 0..Len(Whole) /\ pos' \in pos..Len(Whole)
    BY <1>3, <1>4, <2>1
  <2>3. sent = SubSeq(Whole, 1, pos) /\ sent' = SubSeq(Whole, 1, pos')
    BY <1>3, <1>5, <2>1, <2>2, PrefixOfConcat
  <2>4. phase' = "finished" => pos' = Len(Whole)
    <3>1. ASSUME phase' = "finished" PROVE Len(Rest) = 0 /\ pos' = Len(header')
      BY <1>7, <3>1, EmptySeq DEF Rest
    <3> QED
      BY <2>1, <3>1
  <2>5. State = "busy" /\ (State' = "busy" \/ (State' = "ended" /\ pos' = Len(Whole)))
    BY <1>7, <2>4 DEF State
  <2> QED
    BY <1>14, <2>1, <2>2, <2>3, <2>5, SendIs
<1> QED
  BY <1>13, <1>15

LEMMA WriteBlockStep ==
  ASSUME IInv, phase \in {"ready", "sending"}, WriteBlock
  PROVE  IInv' /\ Abstract!Send
<1> USE Constants DEF IInv
<1>1. streaming /\ phase = "sending"
  BY DEF WriteBlock, Preparing
<1>2. /\ "end" \in Parts(header) /\ pos # 0 /\ header \in Seq(Byte)
      /\ file \in FileState /\ file.left <= file.size /\ rdbuf = <<>>
      /\ sent = header \o SubSeq(Content(file.size), 1, file.size - file.left)
  BY <1>1 DEF SendingFile, TypeOK
<1> DEFINE size == file.size
           read == SmallerOf(BufSize, file.left)
           before == size - file.left
           after == before + read
<1>3. /\ size \in Nat /\ file.left \in Nat /\ read \in 0..file.left
      /\ before \in 0..size /\ after \in before..size
  BY <1>2 DEF FileState, SmallerOf
<1>4. /\ file' \in FileState /\ file'.size = size /\ file'.left = file.left - read
      /\ file'.eof => after = size
  <2>1. BufSize - Len(rdbuf) = BufSize
    BY <1>2
  <2>2. file' = AfterRead(file, BufSize)
    BY <2>1 DEF WriteBlock
  <2>3. file' = [file EXCEPT !.left = file.left - read, !.eof = BufSize > file.left]
    BY <2>2 DEF AfterRead
  <2>4. file' = [size |-> size, left |-> file.left - read, eof |-> BufSize > file.left]
    BY <1>2, <2>3 DEF FileState
  <2>5. file.left - read \in Nat
    BY <1>3
  <2> HIDE DEF size, read
  <2>6. file' \in FileState /\ file'.size = size /\ file'.left = file.left - read
    BY <1>3, <2>4, <2>5 DEF FileState
  <2>7. file'.eof => BufSize > file.left
    BY <2>4
  <2> QED
    BY <1>3, <2>6, <2>7 DEF read, SmallerOf, size
<1>5. sent' = header \o SubSeq(Content(size), 1, after)
  <2> DEFINE read1 == SubSeq(Content(size), 1, before)
             read2 == SubSeq(Content(size), before + 1, after)
  <2>1. /\ Content(size) \in Seq(Byte) /\ Len(Content(size)) = size
    BY <1>3, ContentType
  <2>2. read2 \in Seq(Byte) /\ read1 \in Seq(Byte)
    <3>1. \A i \in 1..size : Content(size)[i] \in Byte
      BY <2>1, ElementOfSeq
    <3> HIDE DEF size, before, after
    <3>2. /\ \A i \in 1..before : Content(size)[i] \in Byte
          /\ \A i \in before + 1..after : Content(size)[i] \in Byte
      BY <1>3, <3>1
    <3> QED
      BY <1>3, <3>2, SubSeqProperties
  <2>3. sent' = sent \o (rdbuf \o BytesRead(BufSize))
    <3>1. BufSize - Len(rdbuf) = BufSize
      BY <1>2
    <3>2. sent' = sent \o (rdbuf \o BytesRead(BufSize - Len(rdbuf)))
      BY DEF WriteBlock
    <3> QED
      BY <3>1, <3>2
  <2>4. BytesRead(BufSize) = read2
    BY DEF BytesRead
  <2>5. rdbuf \o BytesRead(BufSize) = read2
    BY <1>2, <2>2, <2>4, ConcatEmptySeq
  <2>6. sent' = (header \o read1) \o read2
    BY <1>2, <2>3, <2>5
  <2>7. read1 \o read2 = SubSeq(Content(size), 1, after)
    <3>1. PICK c \in Seq(Byte) : c = Content(size)
      BY <2>1
    <3> HIDE DEF size, before, after
    <3>2. Len(c) = size /\ 1 \in 1..Len(c) + 1 /\ before \in 1 - 1..Len(c) /\ after \in before..Len(c)
      BY <1>3, <2>1, <3>1
    <3>3. \A n \in before..Len(c) : SubSeq(c, 1, before) \o SubSeq(c, before + 1, n) = SubSeq(c, 1, n)
      BY <3>2, ConcatAdjacentSubSeq
    <3> QED
      BY <3>1, <3>2, <3>3
  <2> HIDE DEF read1, read2
  <2>8. (header \o read1) \o read2 = header \o (read1 \o read2)
    BY <1>2, <2>2, ConcatAssociative
  <2> QED
    BY <2>6, <2>7, <2>8
<1>6. /\ Content(size) \in Seq(Byte) /\ Len(Content(size)) = size
      /\ SubSeq(Content(size), 1, size) = Content(size)
  BY <1>3, ContentType, SubSeqFull
<1>7. UNCHANGED <<pos, header, body, streaming>> /\ rdbuf' = <<>>
  BY DEF WriteBlock
<1>8. phase' = IF file'.eof THEN "finished" ELSE "sending"
  BY DEF WriteBlock
<1>9. Rest = Content(size) /\ Rest' = Content(size)
  BY <1>2, <1>4 DEF Rest
<1>10. /\ Len(header) \in Nat
       /\ SubSeq(header \o Content(size), 1, Len(header) + before) = sent
       /\ SubSeq(header \o Content(size), 1, Len(header) + after) = sent'
  <2>1. before \in 0..Len(Content(size)) /\ after \in 0..Len(Content(size))
    BY <1>3, <1>6
  <2>2. sent = header \o SubSeq(Content(size), 1, before)
    BY <1>2
  <2> HIDE DEF size, before, after
  <2>3. PICK c \in Seq(Byte) : c = Content(size)
    BY <1>6
  <2>4. \A n \in 0..Len(c) : SubSeq(header \o c, 1, Len(header) + n) = header \o SubSeq(c, 1, n)
    BY <1>2, ConcatOfPrefix
  <2>5. Len(header) \in Nat
    BY <1>2, LenProperties
  <2> QED
    BY <1>5, <2>1, <2>2, <2>3, <2>4, <2>5
<1> HIDE DEF size, before, after, read
<1>11. sent' \in Seq(Byte)
  <2>1. \A i \in 1..size : Content(size)[i] \in Byte
    BY <1>3, <1>6, ElementOfSeq
  <2>2. after \in Nat /\ (\A i \in 1..after : Content(size)[i] \in Byte)
    BY <1>3, <2>1
  <2>3. SubSeq(Content(size), 1, after) \in Seq(Byte)
    BY <2>2, SubSeqProperties
  <2> QED
    BY <1>2, <1>5, <2>3, ConcatProperties
<1>12. TypeOK'
  BY <1>4, <1>7, <1>8, <1>11 DEF TypeOK
<1>13. SendingFile'
  <2>1. file'.left <= file'.size /\ file'.size - file'.left = after
    BY <1>3, <1>4 DEF size, before, after
  <2>2. file' # NoFile
    BY <1>4
  <2> QED
    BY <1>2, <1>4, <1>5, <1>7, <2>1, <2>2 DEF SendingFile
<1>14. Sent'
  <2> SUFFICES ASSUME phase' = "finished"
               PROVE  "end" \in Parts(header') /\ sent' = header' \o Rest'
    BY DEF Sent
  <2>1. after = size
    BY <1>4, <1>8
  <2> QED
    BY <1>2, <1>5, <1>6, <1>7, <1>9, <2>1
<1>15. IInv'
  BY <1>1, <1>7, <1>8, <1>12, <1>13, <1>14 DEF Preparing, SendingHeader
<1>16. Whole = header \o Content(size) /\ Whole' = header \o Content(size) /\ Whole \in Seq(Byte)
  <2>1. Whole = (IF "end" \in Parts(header) THEN header ELSE Ended) \o Rest /\ Whole \in Seq(Byte)
    BY WholeType DEF WholeTyped
  <2>2. Whole' = (IF "end" \in Parts(header') THEN header' ELSE Ended') \o Rest'
    BY <1>12, WholeTypeNext DEF WholeTyped
  <2> QED
    BY <1>2, <1>7, <1>9, <2>1, <2>2
<1>17. Abstract!Send
  <2>1. Len(Whole) = Len(header) + size
    BY <1>2, <1>6, <1>16, ConcatProperties
  <2>2. PICK a, b : a = Len(header) + before /\ b = Len(header) + after
    OBVIOUS
  <2>3. a \in 0..Len(Whole) /\ b \in a..Len(Whole)
    BY <1>3, <1>10, <2>1, <2>2
  <2>4. sent = SubSeq(Whole, 1, a) /\ sent' = SubSeq(Whole, 1, b)
    BY <1>10, <1>16, <2>2
  <2>5. phase' = "finished" => b = Len(Whole)
    BY <1>4, <1>8, <2>1, <2>2
  <2>6. State = "busy" /\ (State' = "busy" \/ (State' = "ended" /\ b = Len(Whole)))
    BY <1>1, <1>8, <2>5 DEF State
  <2> QED
    BY <1>16, <2>3, <2>4, <2>6, SendIs
<1> QED
  BY <1>15, <1>17

LEMMA WriteFailsStep ==
  ASSUME IInv, WriteFails
  PROVE  IInv' /\ Abstract!Fail
<1> USE Constants DEF IInv
<1>1. /\ phase \in {"ready", "sending"} /\ phase' = "failed"
      /\ header' = IF pos = 0 THEN Ended ELSE header
      /\ UNCHANGED <<pos, body, streaming, rdbuf, file, sent>>
  BY DEF WriteFails
<1>2. header' \in Seq(Byte) /\ "end" \in Parts(header')
  <2>1. CASE pos = 0
    BY <1>1, <2>1, EndedType
  <2>2. CASE pos # 0
    BY <1>1, <2>2 DEF Preparing, SendingHeader, SendingFile, TypeOK
  <2> QED
    BY <2>1, <2>2
<1>3. TypeOK'
  BY <1>1, <1>2 DEF TypeOK
<1>4. IInv'
  BY <1>1, <1>3 DEF Preparing, SendingHeader, SendingFile, Sent
<1>5. Whole' = Whole
  <2>1. Whole = (IF "end" \in Parts(header) THEN header ELSE Ended) \o Rest
    BY WholeType DEF WholeTyped
  <2>2. Whole' = header' \o Rest'
    BY <1>2, <1>3, WholeTypeNext DEF WholeTyped
  <2>3. header' = IF "end" \in Parts(header) THEN header ELSE Ended
    BY <1>1 DEF Preparing, SendingHeader, SendingFile
  <2> QED
    BY <1>1, <2>1, <2>2, <2>3 DEF Rest
<1>6. State = "busy" /\ State' = "failed"
  BY <1>1 DEF State
<1> QED
  BY <1>1, <1>4, <1>5, <1>6 DEF Abstract!Fail, State

LEMMA StutterStep ==
  ASSUME IInv, UNCHANGED vars
  PROVE  IInv' /\ UNCHANGED <<Whole, sent, State>>
<1>1. IInv'
  BY DEF vars, IInv, TypeOK, Preparing, SendingHeader, SendingFile, Sent, Rest
<1>2. Whole' = Whole
  BY DEF vars, Whole, Ended, ContentLength
<1> QED
  BY <1>1, <1>2 DEF vars, State

LEMMA StepImplements ==
  IInv /\ [Next]_vars => IInv' /\ [Abstract!Next]_<<Whole, sent, State>>
<1> SUFFICES ASSUME IInv, [Next]_vars
             PROVE  IInv' /\ [Abstract!Next]_<<Whole, sent, State>>
  OBVIOUS
<1>1. CASE SetStatus \/ AddHeaderField \/ SetBody \/ stream_file_to_body
  BY <1>1, PrepareStep DEF Abstract!Next, State
<1>2. CASE Reset
  BY <1>2, ResetStep DEF Abstract!Next, State
<1>3. CASE SendSome
  BY <1>3, WriteHeaderStep, WriteBlockStep DEF SendSome, Abstract!Next, State
<1>4. CASE WriteFails
  BY <1>4, WriteFailsStep DEF Abstract!Next, State
<1>5. CASE UNCHANGED vars
  BY <1>5, StutterStep
<1> QED
  BY <1>1, <1>2, <1>3, <1>4, <1>5 DEF Next, write_some

(* The Writer sends what Response promises, for headers, bodies and files  *)
(* of any size, whatever the size of its blocks and however many bytes     *)
(* send accepts each time: the bytes of a response go out in order, none   *)
(* twice and none left out, and its end is reported when all of it is out  *)
(* and not before (Writer.cpp:51, Writer.cpp:93).                          *)
THEOREM Implements == Spec => ImplementsResponse
<1>1. Init => IInv /\ Abstract!Init
  BY InitInv
<1>2. IInv /\ [Next]_vars => IInv' /\ [Abstract!Next]_<<Whole, sent, State>>
  BY StepImplements
<1> QED
  BY <1>1, <1>2, PTL DEF Spec, ImplementsResponse, Abstract!Spec, State

-----------------------------------------------------------------------------
(* The length a response declares                                          *)

(* A response has its body at its end, and if no script told the length,   *)
(* one field that tells it.                                                *)
ShapedAs(w, place, size) ==
  /\ size <= Len(w)
  /\ \A i \in 1..Len(w) : w[i].of = "body" <=> i > Len(w) - size
  /\ \A i \in 1..Len(w) : w[i].of = "length" =>
       i = place /\ w[i].n = size /\ "own" \notin Parts(w)
  /\ "own" \notin Parts(w) => place \in 1..Len(w) /\ w[place].of = "length"

Shaped(w) == \E place, size \in Nat : ShapedAs(w, place, size)

(* Before the header is ended, it tells no length but a script's. *)
Prepared ==
  /\ Parts(header) \subseteq {"status", "field", "own"}
  /\ \A i \in 1..Len(body) : body[i].of = "body"

LengthInv ==
  /\ IInv
  /\ phase \in {"reset", "fields", "ready"} => Prepared
  /\ phase \in {"sending", "finished"} => Shaped(Whole)

LEMMA BytesOfConcat ==
  ASSUME NEW s \in Seq(Byte), NEW t \in Seq(Byte)
  PROVE  /\ s \o t \in Seq(Byte) /\ Len(s \o t) = Len(s) + Len(t)
         /\ \A i \in 1..Len(s) + Len(t) :
              (s \o t)[i] = IF i <= Len(s) THEN s[i] ELSE t[i - Len(s)]
BY ConcatProperties

LEMMA BytesAssociative ==
  ASSUME NEW s \in Seq(Byte), NEW t \in Seq(Byte), NEW u \in Seq(Byte)
  PROVE  (s \o t) \o u = s \o (t \o u)
BY ConcatAssociative

LEMMA PreparedIsShaped ==
  ASSUME IInv, phase = "ready", Prepared
  PROVE  Shaped(Whole)
<1>1. /\ TypeOK /\ header \in Seq(Byte) /\ body \in Seq(Byte) /\ Len(header) \in Nat /\ Len(body) \in Nat
      /\ "end" \notin Parts(header) /\ "length" \notin Parts(header) /\ "body" \notin Parts(header)
      /\ file \in FileState \cup {NoFile} /\ (file # NoFile => file.left = file.size)
  BY LenProperties DEF IInv, TypeOK, Preparing, Prepared
<1> DEFINE announced == IF "own" \in Parts(header) THEN <<>> ELSE <<B("length", ContentLength)>>
           inMemory  == IF file = NoFile THEN body ELSE <<>>
           last      == <<B("end", 0)>>
           bytes     == inMemory \o Rest
           start     == header \o announced
<1>2. ContentLength \in Nat
  BY <1>1 DEF ContentLength, FileState
<1>3. /\ bytes \in Seq(Byte) /\ Len(bytes) = ContentLength
      /\ \A i \in 1..Len(bytes) : bytes[i].of = "body"
  <2>1. CASE file = NoFile
    <3>1. bytes = body
      BY <1>1, <2>1, ConcatEmptySeq DEF Rest
    <3> QED
      BY <1>1, <2>1, <3>1 DEF ContentLength, Prepared
  <2>2. CASE file # NoFile
    <3>1. file.size \in Nat
      BY <1>1, <2>2 DEF FileState
    <3>2. bytes = Content(file.size)
      BY <2>2, <3>1, ContentType, ConcatEmptySeq DEF Rest
    <3>3. \A i \in 1..file.size : Content(file.size)[i].of = "body"
      BY DEF Content, B
    <3> QED
      BY <1>1, <2>2, <3>1, <3>2, <3>3, ContentType DEF ContentLength
  <2> QED
    BY <2>1, <2>2
<1>4. /\ last \in Seq(Byte) /\ Len(last) = 1 /\ last[1].of = "end" /\ Parts(last) = {"end"}
  <2>1. B("end", 0) \in Byte /\ B("end", 0).of = "end"
    BY DEF B, Byte
  <2> QED
    BY <2>1, OneByte
<1>5. /\ "own" \in Parts(header) => announced = <<>>
      /\ "own" \notin Parts(header) =>
           /\ announced \in Seq(Byte) /\ Len(announced) = 1 /\ Parts(announced) = {"length"}
           /\ announced[1].of = "length" /\ announced[1].n = ContentLength
  <2>1. B("length", ContentLength) \in Byte /\ B("length", ContentLength).of = "length"
        /\ B("length", ContentLength).n = ContentLength
    BY <1>2 DEF B, Byte
  <2>2. /\ <<B("length", ContentLength)>> \in Seq(Byte)
        /\ Len(<<B("length", ContentLength)>>) = 1
        /\ <<B("length", ContentLength)>>[1] = B("length", ContentLength)
        /\ Parts(<<B("length", ContentLength)>>) = {"length"}
    <3> DEFINE byte == B("length", ContentLength)
    <3>1. byte \in Byte /\ byte.of = "length"
      BY <2>1
    <3> HIDE DEF byte
    <3>2. <<byte>> \in Seq(Byte) /\ Len(<<byte>>) = 1 /\ <<byte>>[1] = byte /\ Parts(<<byte>>) = {"length"}
      BY <3>1, OneByte
    <3> QED
      BY <3>2 DEF byte
  <2> QED
    BY <2>1, <2>2
<1>6. inMemory \in Seq(Byte) /\ Rest \in Seq(Byte) /\ announced \in Seq(Byte)
  <2>1. Rest \in Seq(Byte)
    BY <1>1, WholeType DEF WholeTyped
  <2>2. inMemory \in Seq(Byte)
    BY <1>1, EmptySeq
  <2>3. announced \in Seq(Byte)
    <3> HIDE DEF announced
    <3> QED
      BY <1>5, EmptySeq
  <2> QED
    BY <2>1, <2>2, <2>3
<1>7. Whole = (start \o last) \o bytes
  <2>1. Whole = (((header \o announced) \o last) \o inMemory) \o Rest
    BY <1>1, WholeType DEF WholeTyped, Ended
  <2>2. header \o announced \in Seq(Byte) /\ (header \o announced) \o last \in Seq(Byte)
    BY <1>1, <1>4, <1>6, ConcatProperties
  <2>3. (((header \o announced) \o last) \o inMemory) \o Rest
          = ((header \o announced) \o last) \o (inMemory \o Rest)
    <3> DEFINE top == (header \o announced) \o last
    <3>1. top \in Seq(Byte) /\ inMemory \in Seq(Byte) /\ Rest \in Seq(Byte)
      BY <1>6, <2>2
    <3> HIDE DEF top, inMemory
    <3>2. (top \o inMemory) \o Rest = top \o (inMemory \o Rest)
      BY <3>1, BytesAssociative
    <3> QED
      BY <3>2 DEF top
  <2> QED
    BY <2>1, <2>3, Zenon
<1> HIDE DEF announced, last, inMemory, bytes
<1>8. /\ start \in Seq(Byte) /\ Len(start) = Len(header) + Len(announced)
      /\ Parts(start) = Parts(header) \cup Parts(announced)
      /\ \A i \in 1..Len(start) :
           start[i] = IF i <= Len(header) THEN header[i] ELSE announced[i - Len(header)]
  BY <1>1, <1>6, ConcatProperties, PartsOfConcat
<1>9. /\ start \o last \in Seq(Byte) /\ Len(start \o last) = Len(start) + 1 /\ Len(start) \in Nat
      /\ Parts(start \o last) = Parts(start) \cup {"end"}
      /\ \A i \in 1..Len(start) : (start \o last)[i] = start[i]
      /\ (start \o last)[Len(start) + 1] = last[1]
  <2> HIDE DEF start
  <2>1. Len(start) \in Nat
    BY <1>8, LenProperties
  <2>2. /\ start \o last \in Seq(Byte) /\ Len(start \o last) = Len(start) + Len(last)
        /\ \A i \in 1..Len(start) + Len(last) :
             (start \o last)[i] = IF i <= Len(start) THEN start[i] ELSE last[i - Len(start)]
    <3>1. start \in Seq(Byte) /\ last \in Seq(Byte)
      BY <1>4, <1>8
    <3> HIDE DEF last
    <3> QED
      BY <3>1, BytesOfConcat, Zenon
  <2>3. Parts(start \o last) = Parts(start) \cup {"end"}
    BY <1>4, <1>8, PartsOfConcat
  <2> QED
    BY <1>4, <2>1, <2>2, <2>3
<1> HIDE DEF start
<1>10. /\ Whole \in Seq(Byte) /\ Len(Whole) = Len(start) + 1 + ContentLength
       /\ Parts(Whole) = Parts(start) \cup {"end"} \cup Parts(bytes)
       /\ \A i \in 1..Len(start) : Whole[i] = start[i]
       /\ Whole[Len(start) + 1].of = "end"
       /\ \A i \in 1..Len(Whole) : i > Len(start) + 1 => Whole[i].of = "body"
  <2>1. /\ Whole \in Seq(Byte) /\ Len(Whole) = Len(start) + 1 + ContentLength
        /\ \A i \in 1..Len(start) + 1 + ContentLength :
             Whole[i] = IF i <= Len(start) + 1 THEN (start \o last)[i] ELSE bytes[i - (Len(start) + 1)]
    <3>1. /\ (start \o last) \o bytes \in Seq(Byte)
          /\ Len((start \o last) \o bytes) = Len(start \o last) + Len(bytes)
          /\ \A i \in 1..Len(start \o last) + Len(bytes) :
               ((start \o last) \o bytes)[i] =
                 IF i <= Len(start \o last) THEN (start \o last)[i] ELSE bytes[i - Len(start \o last)]
      <4>1. start \o last \in Seq(Byte) /\ bytes \in Seq(Byte)
        BY <1>3, <1>9
      <4> QED
        BY <4>1, BytesOfConcat, Zenon
    <3>2. Len(start \o last) = Len(start) + 1 /\ Len(bytes) = ContentLength
      BY <1>3, <1>9
    <3> QED
      BY <1>7, <3>1, <3>2
  <2>2. Whole \in Seq(Byte) /\ Len(Whole) = Len(start) + 1 + ContentLength
    BY <2>1
  <2>3. Parts(Whole) = Parts(start) \cup {"end"} \cup Parts(bytes)
    BY <1>3, <1>7, <1>9, PartsOfConcat
  <2>4. \A i \in 1..Len(start) : Whole[i] = start[i]
    BY <1>2, <1>9, <2>1
  <2>5. Whole[Len(start) + 1].of = "end"
    BY <1>2, <1>4, <1>9, <2>1
  <2>6. ASSUME NEW i \in 1..Len(Whole), i > Len(start) + 1
        PROVE  Whole[i].of = "body"
    <3>1. /\ Len(start) \in Nat /\ ContentLength \in Nat /\ Len(bytes) = ContentLength
          /\ Len(Whole) = Len(start) + 1 + ContentLength
      BY <1>2, <1>3, <1>9, <2>2
    <3>2. /\ i - (Len(start) + 1) \in 1..Len(bytes)
          /\ i \in 1..Len(start) + 1 + ContentLength /\ ~(i <= Len(start) + 1)
      BY <2>6, <3>1
    <3>3. Whole[i] = bytes[i - (Len(start) + 1)]
      BY <2>1, <3>2
    <3> QED
      BY <1>3, <3>2, <3>3
  <2> QED
    BY <2>2, <2>3, <2>4, <2>5, <2>6
<1>11. Parts(bytes) \subseteq {"body"}
  BY <1>3, LenProperties DEF Parts
(* start has no bytes of a body, and the field after header, if any *)
<1>12. \A i \in 1..Len(header) : header[i].of \notin {"length", "body", "end"}
  BY <1>1, LenProperties DEF Parts
<1>13. CASE "own" \in Parts(header)
  <2>1. /\ "own" \in Parts(Whole) /\ Len(start) = Len(header)
        /\ \A i \in 1..Len(start) : start[i] = header[i]
    <3>1. announced = <<>> /\ "own" \in Parts(Whole)
      BY <1>5, <1>8, <1>10, <1>13
    <3>2. Len(announced) = 0
      BY <3>1
    <3> QED
      BY <1>1, <1>8, <3>1, <3>2
  <2>2. \A i \in 1..Len(Whole) :
          (Whole[i].of = "body" <=> i > Len(Whole) - ContentLength) /\ Whole[i].of # "length"
    <3> SUFFICES ASSUME NEW i \in 1..Len(Whole)
                 PROVE  (Whole[i].of = "body" <=> i > Len(Whole) - ContentLength)
                        /\ Whole[i].of # "length"
      OBVIOUS
    <3>1. CASE i \in 1..Len(header)
      <4>1. i \in 1..Len(start) /\ ~(i > Len(Whole) - ContentLength)
        BY <1>1, <1>2, <1>10, <2>1, <3>1
      <4>2. Whole[i] = header[i] /\ header[i].of \notin {"length", "body"}
        BY <1>10, <1>12, <2>1, <3>1, <4>1
      <4> QED
        BY <4>1, <4>2
    <3>2. CASE i = Len(start) + 1
      BY <1>2, <1>9, <1>10, <3>2
    <3>3. CASE i > Len(start) + 1
      BY <1>2, <1>9, <1>10, <3>3
    <3> QED
      BY <1>1, <1>9, <1>10, <2>1, <3>1, <3>2, <3>3
  <2>3. ContentLength <= Len(Whole)
    BY <1>2, <1>9, <1>10
  <2> QED
    BY <1>2, <2>1, <2>2, <2>3 DEF Shaped, ShapedAs
<1>14. CASE "own" \notin Parts(header)
  <2>1. /\ Len(start) = Len(header) + 1 /\ start[Len(start)].of = "length"
        /\ start[Len(start)].n = ContentLength
        /\ \A i \in 1..Len(header) : start[i] = header[i]
    <3>1. Len(announced) = 1 /\ announced[1].of = "length" /\ announced[1].n = ContentLength
      BY <1>5, <1>14
    <3>2. Len(header) \in Nat /\ Len(start) = Len(header) + 1
      BY <1>1, <1>8, <3>1
    <3>3. \A i \in 1..Len(start) :
            start[i] = IF i <= Len(header) THEN header[i] ELSE announced[i - Len(header)]
      BY <1>8
    <3>4. start[Len(header) + 1] = announced[1]
      BY <3>2, <3>3
    <3>5. \A i \in 1..Len(header) : start[i] = header[i]
      BY <3>2, <3>3
    <3> QED
      BY <3>1, <3>2, <3>4, <3>5
  <2>2. "own" \notin Parts(Whole)
    BY <1>5, <1>8, <1>10, <1>11, <1>14
  <2>3. Len(start) \in 1..Len(Whole) /\ Len(start) \in 1..Len(start) /\ ContentLength <= Len(Whole)
    BY <1>1, <1>2, <1>9, <1>10, <2>1
  <2>4. Whole[Len(start)].of = "length" /\ Whole[Len(start)].n = ContentLength
    BY <1>10, <2>1, <2>3
  <2>5. ASSUME NEW i \in 1..Len(Whole)
        PROVE  /\ Whole[i].of = "body" <=> i > Len(Whole) - ContentLength
               /\ Whole[i].of = "length" => i = Len(start) /\ Whole[i].n = ContentLength
    <3>1. CASE i \in 1..Len(header)
      <4>1. i \in 1..Len(start) /\ ~(i > Len(Whole) - ContentLength)
        BY <1>1, <1>2, <1>10, <2>1, <3>1
      <4>2. Whole[i] = header[i] /\ header[i].of \notin {"length", "body"}
        BY <1>10, <1>12, <2>1, <3>1, <4>1
      <4> QED
        BY <4>1, <4>2
    <3>2. CASE i = Len(start)
      BY <1>2, <1>9, <1>10, <2>4, <3>2
    <3>3. CASE i = Len(start) + 1
      BY <1>2, <1>9, <1>10, <3>3
    <3>4. CASE i > Len(start) + 1
      BY <1>2, <1>9, <1>10, <3>4
    <3> QED
      BY <1>1, <1>9, <1>10, <2>1, <3>1, <3>2, <3>3, <3>4
  <2> QED
    BY <1>2, <1>9, <2>2, <2>3, <2>4, <2>5 DEF Shaped, ShapedAs
<1> QED
  BY <1>13, <1>14

LEMMA ShapedDeclares ==
  ASSUME NEW w \in Seq(Byte), Shaped(w),
         NEW added, added = {i \in DOMAIN w : w[i].of = "length"},
         NEW bytes, bytes = {i \in DOMAIN w : w[i].of = "body"}
  PROVE  /\ Cardinality(added) = IF "own" \in Parts(w) THEN 0 ELSE 1
         /\ \A i \in added : w[i].n = Cardinality(bytes)
<1>1. DOMAIN w = 1..Len(w) /\ Len(w) \in Nat
  BY LenProperties
<1>2. PICK place, size \in Nat : ShapedAs(w, place, size)
  BY DEF Shaped
<1> USE DEF ShapedAs
<1>3. Cardinality(bytes) = size
  <2> DEFINE first == Len(w) - size + 1
             end   == Len(w)
  <2>1. size \in Nat /\ size <= Len(w) /\ first \in Int /\ end \in Int
    BY <1>1, <1>2
  <2>2. bytes = first..end
    BY <1>1, <1>2, <2>1
  <2>3. (IF first > end THEN 0 ELSE end - first + 1) = size
    BY <1>1, <2>1
  <2> HIDE DEF first, end
  <2>4. Cardinality(first..end) = IF first > end THEN 0 ELSE end - first + 1
    BY <2>1, FS_Interval
  <2> QED
    BY <2>2, <2>3, <2>4
<1>4. CASE "own" \in Parts(w)
  <2>1. added = {}
    BY <1>1, <1>2, <1>4
  <2> QED
    BY <1>4, <2>1, FS_EmptySet
<1>5. CASE "own" \notin Parts(w)
  <2>1. added = {place}
    BY <1>1, <1>2, <1>5
  <2>2. Cardinality({place}) = 1
    BY FS_Singleton
  <2> QED
    BY <1>1, <1>2, <1>3, <1>5, <2>1, <2>2
<1> QED
  BY <1>4, <1>5

LEMMA LengthStep == LengthInv /\ [Next]_vars => LengthInv'
<1> SUFFICES ASSUME LengthInv, [Next]_vars
             PROVE  LengthInv'
  OBVIOUS
<1>1. IInv /\ IInv'
  BY StepImplements DEF LengthInv
<1>2. CASE SetStatus \/ AddHeaderField \/ SetBody \/ stream_file_to_body
  <2>1. phase \in {"reset", "fields"} /\ phase' \in {"fields", "ready"}
    BY <1>2 DEF SetStatus, AddHeaderField, SetBody, stream_file_to_body
  <2>2. Prepared
    BY <2>1 DEF LengthInv
  <2>3. Parts(header') \subseteq {"status", "field", "own"}
    <3>1. ASSUME NEW part \in {"status", "field", "own"}, header' = Append(header, B(part, 0))
          PROVE  Parts(header') \subseteq {"status", "field", "own"}
      <4>1. B(part, 0) \in Byte /\ B(part, 0).of = part /\ header \in Seq(Byte)
        BY <1>1 DEF B, Byte, IInv, TypeOK
      <4>2. header' = header \o <<B(part, 0)>>
        BY <3>1, <4>1, AppendIsConcat
      <4>3. <<B(part, 0)>> \in Seq(Byte) /\ Parts(<<B(part, 0)>>) = {part}
        BY <4>1, OneByte
      <4> QED
        BY <2>2, <4>1, <4>2, <4>3, PartsOfConcat DEF Prepared
    <3>2. CASE UNCHANGED header
      BY <2>2, <3>2 DEF Prepared
    <3> QED
      BY <1>2, <3>1, <3>2 DEF SetStatus, AddHeaderField, SetBody, stream_file_to_body
  <2>4. \A i \in 1..Len(body') : body'[i].of = "body"
    <3>1. CASE SetBody
      <4>1. PICK size \in BodySizes : body' = Content(size)
        BY <3>1 DEF SetBody
      <4>2. size \in Nat /\ Len(body') = size
        BY <4>1, Constants, ContentType
      <4> QED
        BY <4>1, <4>2 DEF Content, B
    <3>2. CASE UNCHANGED body
      BY <2>2, <3>2 DEF Prepared
    <3> QED
      BY <1>2, <3>1, <3>2 DEF SetStatus, AddHeaderField, stream_file_to_body
  <2> QED
    BY <1>1, <2>1, <2>3, <2>4 DEF LengthInv, Prepared
<1>3. CASE Reset
  <2>1. phase' = "reset" /\ header' = <<>> /\ body' = <<>>
    BY <1>3 DEF Reset
  <2>2. Prepared'
    BY <2>1, EmptySeq DEF Prepared, Parts
  <2> QED
    BY <1>1, <2>1, <2>2 DEF LengthInv
<1>4. CASE SendSome
  <2>1. phase \in {"ready", "sending"} /\ phase' \in {"sending", "finished"}
    BY <1>4 DEF SendSome, WriteHeader, WriteBlock
  <2>2. Whole' = Whole
    BY <1>1, <1>4, WriteHeaderStep, WriteBlockStep DEF SendSome, Abstract!Send
  <2>3. Shaped(Whole)
    BY <1>1, <2>1, PreparedIsShaped DEF LengthInv
  <2>4. Shaped(Whole)'
    BY <2>2, <2>3 DEF Shaped, ShapedAs, Parts
  <2> QED
    BY <1>1, <2>1, <2>4 DEF LengthInv
<1>5. CASE WriteFails
  BY <1>1, <1>5 DEF WriteFails, LengthInv
<1>6. CASE UNCHANGED vars
  <2>1. Whole' = Whole
    BY <1>1, <1>6, StutterStep
  <2>2. Shaped(Whole) => Shaped(Whole)'
    BY <2>1 DEF Shaped, ShapedAs, Parts
  <2> QED
    BY <1>1, <1>6, <2>2 DEF vars, LengthInv, Prepared, Parts
<1> QED
  BY <1>2, <1>3, <1>4, <1>5, <1>6 DEF Next, write_some

(* A finished response declares its length once, and what write_some       *)
(* declares is the number of bytes of the body that followed, for headers, *)
(* bodies and files of any size (Writer.cpp:53).                           *)
THEOREM LengthDeclared == Spec => []DeclaredLength
<1>1. Init => LengthInv
  <2> SUFFICES ASSUME Init PROVE LengthInv
    OBVIOUS
  <2>1. IInv
    BY InitInv
  <2>2. phase = "reset" /\ Prepared
    BY EmptySeq DEF Init, Prepared, Parts
  <2> QED
    BY <2>1, <2>2 DEF LengthInv
<1>2. LengthInv /\ [Next]_vars => LengthInv'
  BY LengthStep
<1>3. LengthInv => DeclaredLength
  <2> SUFFICES ASSUME LengthInv, phase = "finished" PROVE DeclaredLength
    BY DEF DeclaredLength
  <2>1. sent = Whole /\ sent \in Seq(Byte)
    <3>1. "end" \in Parts(header) /\ sent = header \o Rest /\ TypeOK
      BY DEF LengthInv, IInv, Sent
    <3> QED
      BY <3>1, WholeType DEF WholeTyped, TypeOK
  <2>2. Shaped(sent)
    BY <2>1 DEF LengthInv
  <2>3. ASSUME NEW added, added = {i \in DOMAIN sent : sent[i].of = "length"},
               NEW bytes, bytes = {i \in DOMAIN sent : sent[i].of = "body"}
        PROVE  /\ Cardinality(added) = IF "own" \in Parts(sent) THEN 0 ELSE 1
               /\ \A i \in added : sent[i].n = Cardinality(bytes)
    BY <2>1, <2>2, <2>3, ShapedDeclares
  <2> QED
    BY <2>3 DEF DeclaredLength
<1> QED
  BY <1>1, <1>2, <1>3, PTL DEF Spec
=============================================================================
