----------------------------- MODULE HttpParser -----------------------------
(***************************************************************************)
(* HttpParser::parse_some over the window (lo, hi] of the input s.         *)
(*                                                                         *)
(* A parser is [status, first, last]: its header block starts after offset *)
(* first, and s[first+1..last] are the lines parsed so far, so the method, *)
(* the uri and the header map are read back from s.  PREHEADER and HEADER  *)
(* are one status here: they differ only on a line that starts with a      *)
(* blank.  The result of parse_some is a set of outcomes [pa, rd, err].    *)
(***************************************************************************)
EXTENDS Buf

NewParser(p) == [status |-> "START", first |-> p, last |-> p]

ParserStatus == {"START", "HEADER", "PREBODY"}

Parser == [status : ParserStatus, first : Nat, last : Nat]

(* The lines of _pa.header() that give a field.  The value of one that is  *)
(* given again is joined to what it has, after ", ": it starts with what   *)
(* its first line says.                                                    *)
Lines(s, pa, kind) == {i \in pa.first+1..pa.last : s[i].k = kind}

Fields(s, pa, kind) ==
  {s[i] : i \in {j \in Lines(s, pa, kind) : \A l \in Lines(s, pa, kind) : j <= l}}

Joined(s, pa, kind) == \E i, j \in Lines(s, pa, kind) : i # j

(* transfer-encoding is "chunked", neither "chunked, chunked" nor absent.  *)
InChunks(s, pa) == Fields(s, pa, "chunked") # {} /\ ~Joined(s, pa, "chunked")

(* The servers get_server_conf may select: no server has the name "a, b".  *)
HostServers(s, pa) ==
  IF Joined(s, pa, "host") THEN Servers ELSE {x.t : x \in Fields(s, pa, "host")}

RequestLine(s, pa) == s[pa.first + 1]

StatusAt(pa, lo, p) == IF p = lo THEN pa.status ELSE "HEADER"

(* The line that starts after p is complete and _parse_start_line or       *)
(* _parse_header_line accepts it.                                          *)
GoodLine(s, status, p) ==
  /\ s[p+1].k \in IF status = "START" THEN {"start"}
                  ELSE {"host", "length", "chunked"}
  /\ IsNL(s[p+2])

(* The empty line that ends the header block starts after p.               *)
EndLine(s, status, p) == status # "START" /\ IsNL(s[p+1])

(* parse_line was called on every line from lo up to offset p and accepted *)
(* it; each accepted line is two symbols long.                             *)
ParsedTo(s, pa, lo, hi, p) ==
  /\ p <= hi
  /\ (p - lo) % 2 = 0
  /\ \A q \in lo..p-1 : (q - lo) % 2 = 0 => GoodLine(s, StatusAt(pa, lo, q), q)

Outcome(pa, status, p, rd, err) ==
  [pa |-> [pa EXCEPT !.status = status, !.last = p], rd |-> rd, err |-> err]

(* Where a rejected line leaves Buf::pos: a bad header field has been read *)
(* up to its CRLF, a bad start line up to any of its parts.                *)
ErrorPos(s, status, p, e) ==
  IF status = "START" THEN IF s[p+1].k = "start" THEN {p+1} ELSE p..e-1
  ELSE {e-1}

ParseSome(s, pa, lo, hi) ==
  IF pa.status = "PREBODY" THEN {Outcome(pa, pa.status, pa.last, lo, None)}
  ELSE UNION {
    LET status == StatusAt(pa, lo, p)
        complete == Crlf(s, p, hi)
    IN  IF complete = {}
        THEN {Outcome(pa, status, p, p, IF Full(p, hi) THEN "431" ELSE None)}
        ELSE IF EndLine(s, status, p)
        THEN {Outcome(pa, "PREBODY", p, p + 1, None)}
        ELSE IF GoodLine(s, status, p) THEN {}     \* parse_some goes on
        ELSE {Outcome(pa, status, p, r, "400") :
                r \in UNION {ErrorPos(s, status, p, e) : e \in complete}}
    : p \in {q \in lo..hi : ParsedTo(s, pa, lo, hi, q)}}
=============================================================================
