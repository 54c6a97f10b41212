-------------------------------- MODULE Conf --------------------------------
(***************************************************************************)
(* The configuration: VirtualServers::parse_conf reading a file directive  *)
(* by directive, the copies the containers and Server make of what it      *)
(* built, and the lookups the connections use it for.                      *)
(*                                                                         *)
(* A definition whose comment starts with "Bug:" is the faulty variant of  *)
(* the one below it; no action uses it.                                    *)
(***************************************************************************)
EXTENDS PathUtils, Integers, FiniteSets

CONSTANTS
  Names,          \* the paths a path directive of a server may give
  SubNames,       \* and those one inside a path block may
  Options,        \* options of a path block; "root" and "redirect" are two
  PortNumbers,    \* numbers a ports directive may give
  PortValues,     \* a port is a number modulo this: 0xffff + 1
  Hosts,          \* names of servers
  Pages,          \* error pages
  ErrCodes,       \* and the codes they are for
  Uris,           \* paths of requests
  Rank,           \* Rank[<<s, more>>]: the place of segment s, with a "/" after
                  \* it if more, in the order of strings
  NULL, Default,  \* no block; no value but the one of _dfl_conf
  Endless,        \* a lookup that does not return
  MaxServers, MaxDirectives   \* bounds on a configuration

ASSUME ConfAssumption ==
  /\ Names \cup SubNames \subseteq Seq(Segment) /\ Uris \subseteq Seq(Segment)
  /\ Rank \in [Plain \X BOOLEAN -> Nat]
  /\ \A s, t \in Plain, m, n \in BOOLEAN : Rank[<<s, m>>] = Rank[<<t, n>>] => s = t
  /\ {"root", "redirect"} \subseteq Options
  /\ PortNumbers \subseteq Int /\ PortValues \in Nat \ {0}
  /\ NULL \notin Seq(Segment)
  /\ MaxServers \in Nat /\ MaxDirectives \in Nat

VARIABLES
  phase,     \* where parse_conf is: "top", "server", "failed", "crashed", or
             \* "running" once a Server has been made
  servers,   \* _servers of the object parse_conf fills
  port_set,  \* _port_set
  blocks,    \* the path blocks _parse_one is in, outermost first
  conf,      \* Server::_m_conf._servers
  (* what a reader of the file would note down *)
  noted,     \* the error_page directives of the server being read
  told,      \* told[i]: the blocks of server i and these directives, as read
  read       \* directives read so far

vars == <<phase, servers, port_set, blocks, conf, noted, told, read>>

(* PathConf: _setmask as the options set, and _super                       *)
NewPath   == [set |-> {}, super |-> NULL]

NewServer == [ports |-> {}, names |-> {}, pages |-> <<>>, index |-> <<>>, paths |-> <<>>]

(* m[k] = v on a std::map                                                  *)
Set(m, k, v) == [x \in DOMAIN m \cup {k} |-> IF x = k THEN v ELSE m[x]]

-----------------------------------------------------------------------------
(* Copies                                                                  *)

(* The order of the keys of _path_map, which is that of the strings: a path*)
(* before those that extend it, else by the first segment that differs and *)
(* the "/" that may follow it ("/a-b" comes before "/a/b").                *)
Before(p, q) ==
  \/ IsStrictPrefix(p, q)
  \/ \E i \in DOMAIN p \cap DOMAIN q :
       /\ Rank[<<p[i], i < Len(p)>>] < Rank[<<q[i], i < Len(q)>>]
       /\ p[i] # q[i] /\ \A j \in 1..i - 1 : p[j] = q[j]

(* Bug: the map is walked from its end. *)
CopyBackwards(paths) ==
  [p \in DOMAIN paths |->
    [paths[p] EXCEPT !.super = IF @ = NULL \/ Before(@, p) THEN NULL ELSE @]]

(* The copy constructor of Paths: _super is translated through the elements*)
(* copied so far, and NULL when it is not one of them.                     *)
CopyPaths(paths) ==
  [p \in DOMAIN paths |->
    [paths[p] EXCEPT !.super = IF @ # NULL /\ (@ = p \/ Before(@, p)) THEN @ ELSE NULL]]

Copy(all) == [i \in DOMAIN all |-> [all[i] EXCEPT !.paths = CopyPaths(@)]]

-----------------------------------------------------------------------------
(* Lookups                                                                 *)

(* The blocks a lookup at p visits: after n steps, where NULL is the end   *)
Supers(paths, p) ==
  LET at[n \in 0..Cardinality(DOMAIN paths)] ==
        IF n = 0 THEN p
        ELSE IF at[n - 1] = NULL THEN NULL ELSE paths[at[n - 1]].super
  IN  at

(* The block whose value of option o a lookup at p returns                 *)
_get(paths, p, o) ==
  LET at  == Supers(paths, p)
      set == {n \in DOMAIN at : at[n] # NULL /\ o \in paths[at[n]].set}
  IN  IF set # {} THEN at[CHOOSE n \in set : \A m \in set : n <= m]
      ELSE IF \E n \in DOMAIN at : at[n] = NULL THEN Default
      ELSE Endless

is_redirected(paths, p) == _get(paths, p, "redirect") \notin {Default, Endless}

(* Bug: prefixes are tried from the shortest. *)
GetConfShortest(paths, uri) ==
  LET prefix == simplify_path(uri)
      found  == {n \in 0..Len(prefix) : SubSeq(prefix, 1, n) \in DOMAIN paths}
  IN  IF found = {} THEN NULL
      ELSE SubSeq(prefix, 1, CHOOSE n \in found : \A m \in found : n <= m)

(* Paths::get_conf: prefixes are tried from the whole path up to "/".      *)
get_conf(paths, uri) ==
  LET prefix == simplify_path(uri)
      try[n \in 0..Len(prefix)] ==
        IF SubSeq(prefix, 1, n) \in DOMAIN paths THEN SubSeq(prefix, 1, n)
        ELSE IF n = 0 THEN NULL ELSE try[n - 1]
  IN  try[Len(prefix)]

(* Bug: the part replaced is what the block of the request covers. *)
RedirectFromMatch(paths, uri) ==
  LET p == get_conf(paths, uri)
  IN  [to |-> _get(paths, p, "redirect"), rest |-> SubSeq(uri, Len(p) + 1, Len(uri))]

(* redirect_location on the path of a request: the first _redirect.from    *)
(* segments of it are replaced.                                            *)
redirect_location(paths, uri) ==
  LET from == _get(paths, get_conf(paths, uri), "redirect")
  IN  [to |-> from, rest |-> SubSeq(uri, Len(from) + 1, Len(uri))]

(* Bug: the first server with the name is taken, whatever its ports. *)
ServerByName(port, host) ==
  LET listening == SelectInSeq(conf, LAMBDA s : port \in s.ports)
      wanted    == SelectInSeq(conf, LAMBDA s : host \in s.names)
  IN  IF wanted # 0 THEN wanted ELSE listening

(* VirtualServers::get_server_conf: an index in conf                       *)
get_server_conf(port, host) ==
  LET listening == SelectInSeq(conf, LAMBDA s : port \in s.ports)
      wanted    == SelectInSeq(conf, LAMBDA s : port \in s.ports /\ host \in s.names)
  IN  IF wanted # 0 THEN wanted ELSE listening

error_page(server, code) ==
  IF code \in DOMAIN server.index /\ server.index[code] \in DOMAIN server.pages
  THEN server.pages[server.index[code]] ELSE NULL

-----------------------------------------------------------------------------
(* parse_conf, one directive at a time                                     *)

Reading == phase \in {"top", "server"}
Current == servers[Len(servers)]
Inner   == blocks[Len(blocks)]

Directive == read < MaxDirectives /\ read' = read + 1

SetCurrent(server) == servers' = [servers EXCEPT ![Len(servers)] = server]

(* server {: push_back copies the servers already there when the vector    *)
(* grows, as often as the library likes.                                   *)
ReadServer ==
  /\ phase = "top" /\ Len(servers) < MaxServers /\ Directive
  /\ \E kept \in {servers, Copy(servers)} : servers' = Append(kept, NewServer)
  /\ noted' = <<>>
  /\ phase' = "server"
  /\ UNCHANGED <<port_set, blocks, conf, told>>

InServer == phase = "server" /\ blocks = <<>> /\ Directive

(* Bug: _port_set gets the number as it was read. *)
ReadPortsUnmasked ==
  \E n \in PortNumbers :
    /\ SetCurrent([Current EXCEPT !.ports = @ \cup {n % PortValues}])
    /\ port_set' = port_set \cup {n}

_read_ports ==
  \E n \in PortNumbers :
    /\ SetCurrent([Current EXCEPT !.ports = @ \cup {n % PortValues}])
    /\ port_set' = port_set \cup {n % PortValues}

ReadPorts == InServer /\ _read_ports /\ UNCHANGED <<phase, blocks, conf, noted, told>>

ReadNames ==
  /\ InServer
  /\ \E h \in Hosts : SetCurrent([Current EXCEPT !.names = @ \cup {h}])
  /\ UNCHANGED <<phase, port_set, blocks, conf, noted, told>>

AddPage(pages, page) == IF Contains(pages, page) THEN pages ELSE Append(pages, page)

(* Bug: the codes are mapped before the page is added. *)
IndexBefore(pages, page) == Len(pages)

(* _error_pages.size() - 1, for a vector indexed from 1                    *)
IndexOf(pages, page) == Len(AddPage(pages, page))

_read_errpage ==
  /\ InServer
  /\ \E page \in Pages, codes \in SUBSET ErrCodes :
       /\ SetCurrent([Current EXCEPT
            !.pages = AddPage(@, page),
            !.index = [c \in DOMAIN @ \cup codes |->
                        IF c \in codes THEN IndexOf(Current.pages, page) ELSE @[c]]])
       /\ noted' = Append(noted, [page |-> page, codes |-> codes])
  /\ UNCHANGED <<phase, port_set, blocks, conf, told>>

(* path "name" {: _parse_one, whose first use of a path creates its entry  *)
OpenPath ==
  /\ phase = "server" /\ Directive
  /\ \E name \in IF blocks = <<>> THEN Names ELSE SubNames :
       LET path  == simplify_path((IF blocks = <<>> THEN <<>> ELSE Inner) \o name)
           entry == IF path \in DOMAIN Current.paths THEN Current.paths[path] ELSE NewPath
       IN  /\ SetCurrent([Current EXCEPT !.paths = Set(@, path, entry)])
           /\ blocks' = Append(blocks, path)
  /\ UNCHANGED <<phase, port_set, conf, noted, told>>

ReadOption ==
  /\ phase = "server" /\ blocks # <<>> /\ Directive
  /\ \E o \in Options : SetCurrent([Current EXCEPT !.paths[Inner].set = @ \cup {o}])
  /\ UNCHANGED <<phase, port_set, blocks, conf, noted, told>>

(* } of a path block: the call that reads the block around it sets _super. *)
ClosePath ==
  /\ phase = "server" /\ blocks # <<>>
  /\ blocks' = Front(blocks)
  /\ IF Len(blocks) = 1 THEN UNCHANGED servers
     ELSE SetCurrent([Current EXCEPT !.paths[Inner].super = Last(Front(blocks))])
  /\ UNCHANGED <<phase, port_set, conf, noted, told, read>>

(* path_conf("/") evaluates root() of the block it finds.                  *)
AfterServer(paths) ==
  IF <<>> \notin DOMAIN paths THEN "failed"
  ELSE IF _get(paths, <<>>, "root") = Endless THEN "crashed" ELSE "top"

(* } of a server block                                                     *)
CloseServer ==
  /\ phase = "server" /\ blocks = <<>>
  /\ phase' = AfterServer(Current.paths)
  /\ told' = Append(told, [paths |-> Current.paths, pages |-> noted])
  /\ UNCHANGED <<port_set, servers, blocks, conf, noted, read>>

(* A ParsingException: a word or a value that is not expected, or the end  *)
(* of the file inside a block.  main ends.                                 *)
ParseError ==
  /\ Reading /\ phase' = "failed"
  /\ UNCHANGED <<port_set, servers, blocks, conf, noted, told, read>>

(* The end of the file; Server copies the object.                          *)
Launch ==
  /\ phase = "top"
  /\ phase' = "running"
  /\ conf' = Copy(servers)
  /\ UNCHANGED <<port_set, servers, blocks, noted, told, read>>

-----------------------------------------------------------------------------
Init ==
  /\ phase = "top"
  /\ servers = <<>> /\ port_set = {} /\ blocks = <<>> /\ conf = <<>>
  /\ noted = <<>> /\ told = <<>> /\ read = 0

Next ==
  \/ ReadServer \/ ReadPorts \/ ReadNames \/ _read_errpage
  \/ OpenPath \/ ReadOption \/ ClosePath
  \/ CloseServer \/ ParseError \/ Launch

Spec == Init /\ [][Next]_vars

-----------------------------------------------------------------------------
(* Properties                                                              *)

TypeOK ==
  /\ phase \in {"top", "server", "failed", "crashed", "running"}
  /\ port_set \subseteq 0..PortValues - 1
  /\ blocks \in Seq(Seq(Plain))
  /\ \A s \in ToSet(servers) \cup ToSet(conf) :
       /\ s.ports \subseteq port_set /\ s.names \subseteq Hosts
       /\ s.pages \in Seq(Pages) /\ DOMAIN s.index \subseteq ErrCodes
       /\ \A c \in DOMAIN s.index : s.index[c] \in DOMAIN s.pages
       /\ DOMAIN s.paths \subseteq Seq(Plain)
       /\ \A p \in DOMAIN s.paths : /\ s.paths[p].set \subseteq Options
                                    /\ s.paths[p].super \in DOMAIN s.paths \cup {NULL}
  /\ ToSet(blocks) \subseteq IF servers = <<>> THEN {} ELSE DOMAIN Current.paths
  /\ read \in 0..MaxDirectives

Running == phase = "running"

(* On the way from block p outwards there is one whose path sorts after    *)
(* the one inside it, which takes a ".." in a name.                        *)
Climbs(paths, p) ==
  LET at == Supers(paths, p)
  IN  \E n \in DOMAIN at \ {0} :
        at[n - 1] # NULL /\ at[n] # NULL /\ Before(at[n - 1], at[n])

(* A block has, in the copy the server runs with, the options it had when  *)
(* it was read: its own, then those of the blocks around it, although each *)
(* copy of the map has to find the blocks again, and as long as none of    *)
(* them climbs.  (Paths::Paths.)                                           *)
OptionsKept ==
  Running => \A i \in DOMAIN conf :
    /\ DOMAIN conf[i].paths = DOMAIN told[i].paths
    /\ \A p \in DOMAIN conf[i].paths, o \in Options :
         \/ _get(conf[i].paths, p, o) = _get(told[i].paths, p, o)
         \/ Climbs(told[i].paths, p)

(* What a path means: the names in it that no ".." after them cancels.     *)
Plains(path, i, j) == Cardinality({k \in i..j : path[k] \in Plain})
Ups(path, i, j)    == Cardinality({k \in i..j : path[k] = ".."})

Kept(path) ==
  {i \in 1..Len(path) :
     /\ path[i] \in Plain
     /\ \A j \in i..Len(path) : Ups(path, i + 1, j) <= Plains(path, i + 1, j)}

Meaning(path) ==
  LET Place(i) == Cardinality({j \in Kept(path) : j <= i})
  IN  [n \in 1..Cardinality(Kept(path)) |->
        path[CHOOSE i \in Kept(path) : Place(i) = n]]

(* Every path of a request has a block, so the pointer path_conf returns is*)
(* never NULL, and it is the one of the longest configured prefix of what  *)
(* the path means, however it is spelt and however high its ".." reach     *)
(* (Conf.cpp:289 and path_utils.cpp:27).                                   *)
LongestPrefix ==
  Running => \A i \in DOMAIN conf, uri \in Uris :
    LET p == get_conf(conf[i].paths, uri)
    IN  /\ p # NULL /\ IsPrefix(p, Meaning(uri))
        /\ \A q \in DOMAIN conf[i].paths :
             IsPrefix(q, Meaning(uri)) => Len(q) <= Len(p)

(* Whatever host a request names, the port it came in on has a server: the *)
(* first on that port that has the name, else the first on that port.  So  *)
(* _get_first_request never finds NULL.                                    *)
PortServed ==
  Running => \A port \in port_set, host \in Hosts :
    LET n == get_server_conf(port, host)
        listening == {i \in DOMAIN conf : port \in conf[i].ports}
        named_so  == {i \in listening : host \in conf[i].names}
    IN  /\ n \in listening
        /\ n \in named_so \/ named_so = {}
        /\ \A i \in (IF named_so = {} THEN listening ELSE named_so) : n <= i

(* On the way from block p outwards there is one whose path is not a       *)
(* prefix of the one inside it, which takes a ".." too.                    *)
Strays(paths, p) ==
  LET at == Supers(paths, p)
  IN  \E n \in DOMAIN at \ {0} :
        at[n - 1] # NULL /\ at[n] # NULL /\ ~IsPrefix(at[n], at[n - 1])

(* A redirection replaces what the redirected block covers of the path, and*)
(* keeps the rest, also where the option is inherited, as long as it is    *)
(* from a block around the path: to stands for the block whose redirection *)
(* it is.  (redirect_location cuts as many characters off as the path of   *)
(* that block has, whatever they are.)                                     *)
RedirectKeepsRest ==
  Running => \A i \in DOMAIN conf, uri \in Uris :
    LET paths == conf[i].paths
        p     == get_conf(paths, uri)
        l     == redirect_location(paths, uri)
    IN  simplify_path(uri) = uri /\ is_redirected(paths, p)
          => l.to \o l.rest = uri \/ Strays(paths, p)

(* The page for an error is the one the last error_page directive with that*)
(* code names.                                                             *)
PageIsNamed(i) ==
  \A n \in DOMAIN told[i].pages : \A c \in told[i].pages[n].codes :
    \/ error_page(conf[i], c) = told[i].pages[n].page
    \/ \E m \in n + 1..Len(told[i].pages) : c \in told[i].pages[m].codes

ErrorPageNamed == Running => \A i \in DOMAIN conf : PageIsNamed(i)

(* The same of a server whose directives all name different pages.         *)
ErrorPagesDistinct ==
  Running => \A i \in DOMAIN conf :
    (\A n, m \in DOMAIN told[i].pages :
       told[i].pages[n].page = told[i].pages[m].page => n = m) => PageIsNamed(i)
=============================================================================
