----------------------------- MODULE MCConState -----------------------------
(* Values of the constants of ConState for TLC, and the requests its       *)
(* clients send.                                                           *)
EXTENDS Clients

MCMethods == {"GET", "POST", "DELETE"}
MCTargets == {"page", "cgi", "form", "old"}
MCAccepts == [t \in MCTargets |->
               CASE t = "page" -> {"GET", "DELETE"}
                 [] t = "cgi"  -> {"GET", "POST"}
                 [] t = "form" -> {"POST"}
                 [] t = "old"  -> MCMethods]
MCMaxBody == [v \in {"srv"} |-> 2]

HeaderOf(m, t, fields) ==
  <<Start(m, t), NL>> \o fields \o <<NL>>
Plain(m, t) ==
  [syms |-> HeaderOf(m, t, <<Host("srv"), NL>>), payload |-> {}]
WithLength(m, t, n) ==
  [syms |-> HeaderOf(m, t, <<Host("srv"), NL, Length(n), NL>>)
              \o [i \in 1..n |-> Text],
   payload |-> 8..7+n]
WithChunk(m, t, n) ==
  [syms |-> HeaderOf(m, t, <<Host("srv"), NL, Chunked, NL>>)
              \o <<Size(n), NL>> \o [i \in 1..n |-> Text]
              \o <<NL, Size(0), NL, NL>>,
   payload |-> 10..9+n]
(* Every field twice: the first length counts, the body is not in chunks.  *)
Repeated(m, t, n) ==
  [syms |-> HeaderOf(m, t, <<Host("srv"), NL, Chunked, NL, Length(n), NL,
                             Length(n + 1), NL, Chunked, NL, Host("srv"), NL>>)
              \o [i \in 1..n |-> Text],
   payload |-> 16..15+n]
TwoChunks(m, t) ==
  [syms |-> HeaderOf(m, t, <<Host("srv"), NL, Chunked, NL>>)
              \o <<Size(1), NL, Text, NL, Size(1), NL, Text, NL, Size(0), NL, NL>>,
   payload |-> {10, 14}]
BigSecondChunk(m, t) ==
  [syms |-> HeaderOf(m, t, <<Host("srv"), NL, Chunked, NL>>)
              \o <<Size(1), NL, Text, NL>> \o [i \in 1..13 |-> Text],
   payload |-> {}]
NoHost == [syms |-> HeaderOf("GET", "page", <<>>), payload |-> {}]
Malformed == [syms |-> <<Text, NL, Text, NL, NL>>, payload |-> {}]
BadField ==
  [syms |-> HeaderOf("GET", "page", <<Host("srv"), NL, Text, NL>>), payload |-> {}]
LongLine == [syms |-> [i \in 1..12 |-> Text] \o <<NL, NL>>, payload |-> {}]
Negative ==
  [syms |-> HeaderOf("POST", "cgi", <<Host("srv"), NL, Length(-1), NL>>), payload |-> {}]

(* Requests the server accepts, each with the body it announces            *)
WellFormed ==
  {Plain("GET", "page"), Plain("DELETE", "page"), Plain("GET", "cgi"),
   Plain("POST", "form"), Plain("GET", "old"),
   WithLength("POST", "cgi", 0), WithLength("POST", "cgi", 2),
   WithChunk("POST", "cgi", 1), Repeated("POST", "cgi", 1)}

(* Fewer of them, for a client that does not wait for its answers          *)
Pipelined ==
  {Plain("GET", "page"), Plain("GET", "cgi"), Plain("POST", "form"),
   WithLength("POST", "cgi", 2), WithChunk("POST", "cgi", 1)}

(* Requests it refuses, before any request of theirs has had a body read   *)
Refused ==
  {Plain("GET", "page"), Plain("GET", "cgi"), Plain("POST", "page"),
   WithLength("POST", "page", 2), WithLength("POST", "cgi", 3),
   WithChunk("POST", "cgi", 3), BigSecondChunk("POST", "cgi"),
   NoHost, Malformed, BadField, LongLine, Negative}

(* A POST that is served, and one that _dispatch refuses                   *)
RefusedAfterPost == {WithLength("POST", "form", 1), WithLength("POST", "page", 1)}

SeveralChunks == {TwoChunks("POST", "cgi")}

(* The clients the theorems about a connection speak of: the requests the  *)
(* runs call well-formed satisfy their conditions, and each condition      *)
(* leaves some other request out.                                          *)
ASSUME ClientsKeepToProtocol ==
  /\ \A r \in WellFormed \cup Pipelined \cup SeveralChunks : Conforming(r)
  /\ \A r \in WellFormed \cup Pipelined : OneChunk(r) /\ Fitting(r)
  /\ \E r \in SeveralChunks : ~OneChunk(r)
  /\ \E r \in Refused : Conforming(r) /\ ~Fitting(r)
  /\ \E r \in RefusedAfterPost : ~Conforming(r)
=============================================================================
