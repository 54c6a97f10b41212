-------------------------------- MODULE Buf --------------------------------
(***************************************************************************)
(* The bytes of one connection, and the window a Buf object keeps of them. *)
(*                                                                         *)
(* A connection's input is a sequence of symbols: a start line, a header   *)
(* field, a chunk-size line (each without its CRLF), an opaque piece of    *)
(* text or payload, or the two bytes CRLF.  A Buf is the pair of offsets   *)
(* (rd, rcvd) into that sequence: s[1..rd] has been consumed, s[rd+1..rcvd]*)
(* lies between Buf::pos and Buf::end.  `memmove' to the front of the      *)
(* buffer, the first thing Buf::read_more does, leaves both unchanged.     *)
(***************************************************************************)
EXTENDS Integers, Sequences

CONSTANTS
  Methods,      \* the methods SUPPORTED_METHODS lists
  Targets,      \* request targets the client uses
  Servers,      \* the ServerConf objects a Host header can select
  BufCap        \* BUFSIZE - 1, counted in symbols

None == "none"

Kinds == {"start", "host", "length", "chunked", "size", "text", "nl"}

Symbol == [k : Kinds,
           m : Methods \cup {None},             \* method of a start line
           t : Targets \cup Servers \cup {None},\* its target; a host's server
           n : Int]                             \* a length or a chunk size

Start(m, t) == [k |-> "start",   m |-> m,    t |-> t,    n |-> 0]
Host(v)     == [k |-> "host",    m |-> None, t |-> v,    n |-> 0]
Length(n)   == [k |-> "length",  m |-> None, t |-> None, n |-> n]
Chunked     == [k |-> "chunked", m |-> None, t |-> None, n |-> 0]
Size(n)     == [k |-> "size",    m |-> None, t |-> None, n |-> n]
Text        == [k |-> "text",    m |-> None, t |-> None, n |-> 0]
NL          == [k |-> "nl",      m |-> None, t |-> None, n |-> 0]

IsNL(x) == x.k = "nl"

(* The offsets just after the first CRLF of the window (lo, hi]: a set of  *)
(* at most one offset, what strstr(pos, "\r\n") finds.                     *)
Crlf(s, lo, hi) ==
  {e \in lo+1..hi : IsNL(s[e]) /\ \A i \in lo+1..e-1 : ~IsNL(s[i])}

(* pos == start and end == start + BUFSIZE - 1: the window holds BufCap.   *)
Full(lo, hi) == hi - lo = BufCap

Space(lo, hi) == BufCap - (hi - lo)

ASSUME BufAssumption ==
  /\ BufCap \in Nat \ {0}
  /\ {"GET", "POST", "DELETE"} = Methods
=============================================================================
