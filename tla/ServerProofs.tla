---------------------------- MODULE ServerProofs ----------------------------
(***************************************************************************)
(* The invariants of Server, for every number of ports, clients and        *)
(* descriptors, and whatever fails.                                        *)
(*                                                                         *)
(* They are not inductive.  That the worker of every reported connection   *)
(* is called needs to know that no two descriptors are of one client, and  *)
(* so that no client is accepted twice (Once); that accept returns a       *)
(* connection, that nobody empties the backlog of a listener between poll  *)
(* and its accept (Pending), and so that listeners differ; that the        *)
(* workers begin where the listeners end, where the loop is (Position).    *)
(***************************************************************************)
EXTENDS Server, TLAPS, SequenceTheorems, WellFoundedInduction

(* Where the loop is *)
Position ==
  /\ pc = "listen" => current \in 1..NPorts /\ Len(fds) = current - 1 /\ due = {}
  /\ pc \in {"poll", "accept", "work"} => Len(fds) >= NPorts
  /\ pc = "accept" => current \in 1..NPorts
  /\ pc = "work" => current \in NPorts + 1..Len(fds) + 1

(* The first entries of the table are the listeners, in the order of ports *)
Listening ==
  \A i \in 1..Len(fds) :
    i <= NPorts => sock[fds[i].fd] = Ports[i] /\ fds[i].events = {"POLLIN"}

(* A client has one descriptor, or one place in one backlog, or none. *)
OneDescriptor ==
  \A fd \in Fd : sock[fd] \in Clients =>
    /\ client[sock[fd]] # "idle"
    /\ \A other \in Fd : sock[other] = sock[fd] => other = fd

OnePlace ==
  \A p \in Fd : \A i \in 1..Len(backlog[p]) :
    /\ client[backlog[p][i]] # "idle"
    /\ \A fd \in Fd : sock[fd] # backlog[p][i]
    /\ \A q \in Fd : \A j \in 1..Len(backlog[q]) :
         backlog[q][j] = backlog[p][i] => q = p /\ j = i

(* A listener that poll reported has something to accept. *)
Pending ==
  pc = "accept" => \A i \in current..NPorts :
    "POLLIN" \in fds[i].revents => backlog[fds[i].fd] # <<>>

(* The clients poll reported, from an index of the table on *)
DueFrom(first) ==
  {sock[fds[i].fd] : i \in {j \in first..Len(fds) : fds[j].revents # {}}}

AcceptDue == pc = "accept" => due = DueFrom(NPorts + 1)

IInv ==
  /\ TypeOK /\ ConnectionsMatch /\ ReadyServed /\ FilesHaveConnection
  /\ Position /\ Listening /\ OneDescriptor /\ OnePlace /\ Pending /\ AcceptDue

-----------------------------------------------------------------------------
(* Constants and tables                                                    *)

LEMMA Constants ==
  /\ NPorts \in Nat \ {0} /\ MaxFd \in Nat
  /\ \A i \in 1..NPorts : Ports[i] \in Port
  /\ \A i, j \in 1..NPorts : Ports[i] = Ports[j] => i = j
  /\ NoSock \notin Clients /\ NoSock \notin Port /\ Clients \cap Port = {}
<1>1. DOMAIN Ports = 1..NPorts
  BY ServerAssumption, LenProperties DEF NPorts
<1> QED
  BY <1>1, ServerAssumption, ElementOfSeq DEF NPorts

Less == {pair \in Nat \X Nat : pair[1] < pair[2]}

(* There is a lowest descriptor among those that are free. *)
LEMMA Lowest ==
  ASSUME Free # {}
  PROVE  LowestFree \in Free
<1>1. Free \subseteq Nat
  BY ServerAssumption DEF Free, Fd
<1>2. IsWellFoundedOn(Less, Nat)
  BY NatLessThanWellFounded DEF OpToRel, Less
<1>3. PICK fd \in Free : \A other \in Free : <<other, fd>> \notin Less
  BY <1>1, <1>2, WFMin
<1>4. ASSUME NEW other \in Free PROVE fd <= other
  <2>1. other \in Nat /\ fd \in Nat /\ <<other, fd>> \notin Less
    BY <1>1, <1>3
  <2>2. <<other, fd>> \in Nat \X Nat /\ <<other, fd>>[1] = other /\ <<other, fd>>[2] = fd
    BY <2>1
  <2>3. ~(other < fd)
    BY <2>1, <2>2 DEF Less
  <2> QED
    BY <2>1, <2>3
<1> QED
  BY <1>4 DEF LowestFree

(* What an entry of the table refers to *)
LEMMA Entries ==
  ASSUME TypeOK, ConnectionsMatch
  PROVE  /\ Len(fds) \in Nat
         /\ \A i \in 1..Len(fds) : fds[i] \in PollFd /\ fds[i].fd \in Fd
                                   /\ sock[fds[i].fd] # NoSock /\ fds[i].fd \notin lost
         /\ \A i \in NPorts + 1..Len(fds) :
              /\ fds[i].fd \in DOMAIN con_map /\ con_map[fds[i].fd] \in Worker
              /\ con_map[fds[i].fd].client = sock[fds[i].fd] /\ sock[fds[i].fd] \in Clients
<1> USE Constants
<1>1. fds \in Seq(PollFd) /\ Len(fds) \in Nat /\ \A i \in 1..Len(fds) : fds[i] \in PollFd
  BY LenProperties, ElementOfSeq DEF TypeOK
<1>2. \A i \in 1..Len(fds) : fds[i].fd \in Listeners \cup Connections
  BY <1>1 DEF Listeners, Connections
<1>3. \A i \in 1..Len(fds) : fds[i].fd \in Fd /\ sock[fds[i].fd] # NoSock /\ fds[i].fd \notin lost
  BY <1>2 DEF ConnectionsMatch
<1>4. ASSUME NEW i \in NPorts + 1..Len(fds)
      PROVE  /\ fds[i].fd \in DOMAIN con_map /\ con_map[fds[i].fd] \in Worker
             /\ con_map[fds[i].fd].client = sock[fds[i].fd] /\ sock[fds[i].fd] \in Clients
  <2>1. fds[i].fd \in DOMAIN con_map
    BY DEF Connections, ConnectionsMatch
  <2>2. con_map[fds[i].fd] \in Worker /\ con_map[fds[i].fd].client = sock[fds[i].fd]
    BY <2>1 DEF ConnectionsMatch, TypeOK
  <2>3. i \in 1..Len(fds)
    BY <1>1
  <2> QED
    BY <1>3, <2>1, <2>2, <2>3 DEF Worker
<1> QED
  BY <1>1, <1>3, <1>4

-----------------------------------------------------------------------------
(* The environment                                                         *)

LEMMA ClientStep ==
  ASSUME IInv, NEW c \in Clients, Send(c) \/ Leave(c)
  PROVE  IInv'
<1>1. /\ UNCHANGED <<loopVars, quit, exited, lost, sock, backlog, files>>
      /\ data' \in [Clients -> BOOLEAN] /\ client' \in [Clients -> {"idle", "open", "gone"}]
      /\ \A d \in Clients : client[d] # "idle" => client'[d] # "idle"
  BY DEF Send, Leave, IInv, TypeOK
<1>2. TypeOK'
  BY <1>1 DEF IInv, TypeOK, loopVars
<1>3. (ConnectionsMatch /\ ReadyServed /\ FilesHaveConnection)'
  BY <1>1 DEF IInv, ConnectionsMatch, Listeners, Connections, ReadyServed,
              FilesHaveConnection, Served, loopVars
<1>4. (Position /\ Listening /\ Pending /\ AcceptDue)'
  BY <1>1 DEF IInv, Position, Listening, Pending, AcceptDue, DueFrom, loopVars
<1>5. OneDescriptor'
  BY <1>1 DEF IInv, OneDescriptor
<1>6. OnePlace'
  <2>1. \A p \in Fd : \A i \in 1..Len(backlog[p]) : backlog[p][i] \in Clients
    BY ElementOfSeq DEF IInv, TypeOK
  <2> QED
    BY <1>1, <2>1 DEF IInv, OnePlace
<1> QED
  BY <1>2, <1>3, <1>4, <1>5, <1>6 DEF IInv

LEMMA ConnectStep ==
  ASSUME IInv, NEW c \in Clients, Connect(c)
  PROVE  IInv'
<1>1. /\ UNCHANGED <<loopVars, quit, exited, lost, sock, data, files>>
      /\ client[c] = "idle" /\ client' = [client EXCEPT ![c] = "open"]
  BY DEF Connect
<1>2. PICK p \in Fd : backlog' = [backlog EXCEPT ![p] = Append(backlog[p], c)]
  BY DEF Connect
<1>3. /\ backlog \in [Fd -> Seq(Clients)] /\ backlog[p] \in Seq(Clients)
      /\ \A q \in Fd : \A i \in 1..Len(backlog[q]) : backlog[q][i] \in Clients
      /\ \A q \in Fd : Len(backlog[q]) \in Nat
  BY ElementOfSeq, LenProperties DEF IInv, TypeOK
<1>4. /\ Append(backlog[p], c) \in Seq(Clients)
      /\ Len(Append(backlog[p], c)) = Len(backlog[p]) + 1
      /\ \A i \in 1..Len(backlog[p]) : Append(backlog[p], c)[i] = backlog[p][i]
      /\ Append(backlog[p], c)[Len(backlog[p]) + 1] = c
  BY <1>3, AppendProperties
<1>5. /\ backlog' \in [Fd -> Seq(Clients)] /\ backlog'[p] = Append(backlog[p], c)
      /\ \A q \in Fd : q # p => backlog'[q] = backlog[q]
  BY <1>2, <1>3, <1>4
<1>6. client' \in [Clients -> {"idle", "open", "gone"}] /\ client'[c] # "idle"
      /\ \A d \in Clients : client[d] # "idle" => client'[d] # "idle" /\ d # c
  BY <1>1 DEF IInv, TypeOK
<1>7. TypeOK'
  BY <1>1, <1>5, <1>6 DEF IInv, TypeOK, loopVars
<1>8. (ConnectionsMatch /\ ReadyServed /\ FilesHaveConnection)'
  BY <1>1 DEF IInv, ConnectionsMatch, Listeners, Connections, ReadyServed,
              FilesHaveConnection, Served, loopVars
<1>9. (Position /\ Listening /\ AcceptDue)'
  BY <1>1 DEF IInv, Position, Listening, AcceptDue, DueFrom, loopVars
<1>10. Pending'
  <2>1. \A q \in Fd : backlog[q] # <<>> => backlog'[q] # <<>>
    BY <1>3, <1>4, <1>5, EmptySeq
  <2>2. pc = "accept" => \A i \in current..NPorts : fds[i].fd \in Fd
    BY Constants, Entries DEF IInv, Position
  <2> QED
    BY <1>1, <2>1, <2>2 DEF IInv, Pending, loopVars
<1>11. OneDescriptor'
  BY <1>1, <1>6 DEF IInv, OneDescriptor
<1>12. OnePlace'
  <2>1. \A fd \in Fd : sock'[fd] # c
    BY <1>1 DEF IInv, OneDescriptor
  <2>2. \A q \in Fd : \A i \in 1..Len(backlog'[q]) :
          \/ q = p /\ i = Len(backlog[p]) + 1 /\ backlog'[q][i] = c
          \/ i \in 1..Len(backlog[q]) /\ backlog'[q][i] = backlog[q][i] /\ backlog[q][i] # c
    <3>1. \A q \in Fd : \A i \in 1..Len(backlog[q]) : backlog[q][i] # c
      BY <1>1, <1>3 DEF IInv, OnePlace
    <3>2. \A i \in 1..Len(backlog[p]) + 1 : i \in 1..Len(backlog[p]) \/ i = Len(backlog[p]) + 1
      BY <1>3
    <3> QED
      BY <1>3, <1>4, <1>5, <3>1, <3>2
  <2>3. ASSUME NEW q \in Fd, NEW i \in 1..Len(backlog'[q])
        PROVE  /\ client'[backlog'[q][i]] # "idle"
               /\ \A fd \in Fd : sock'[fd] # backlog'[q][i]
               /\ \A r \in Fd : \A j \in 1..Len(backlog'[r]) :
                    backlog'[r][j] = backlog'[q][i] => r = q /\ j = i
    <3>1. CASE q = p /\ i = Len(backlog[p]) + 1 /\ backlog'[q][i] = c
      BY <1>6, <2>1, <2>2, <3>1
    <3>2. CASE i \in 1..Len(backlog[q]) /\ backlog'[q][i] = backlog[q][i] /\ backlog[q][i] # c
      <4>1. client'[backlog'[q][i]] # "idle" /\ \A fd \in Fd : sock'[fd] # backlog'[q][i]
        BY <1>1, <1>3, <1>6, <3>2 DEF IInv, OnePlace
      <4>2. ASSUME NEW r \in Fd, NEW j \in 1..Len(backlog'[r]), backlog'[r][j] = backlog'[q][i]
            PROVE  r = q /\ j = i
        <5>1. j \in 1..Len(backlog[r]) /\ backlog[r][j] = backlog[q][i]
          BY <2>2, <3>2, <4>2
        <5> QED
          BY <3>2, <5>1 DEF IInv, OnePlace
      <4> QED
        BY <4>1, <4>2
    <3> QED
      BY <2>2, <3>1, <3>2
  <2> QED
    BY <2>3 DEF OnePlace
<1> QED
  BY <1>7, <1>8, <1>9, <1>10, <1>11, <1>12 DEF IInv

-----------------------------------------------------------------------------
(* The end of a Server object, and of the process                          *)

(* The backlogs that remain are those of the listeners that stay open.     *)
LEMMA Reset ==
  ASSUME IInv, NEW closed \in SUBSET Fd, ResetBacklog(closed)
  PROVE  /\ client' \in [Clients -> {"idle", "open", "gone"}]
         /\ \A c \in Clients : client[c] # "idle" => client'[c] # "idle"
         /\ backlog' \in [Fd -> Seq(Clients)]
         /\ \A fd \in closed : Len(backlog'[fd]) = 0
         /\ \A fd \in Fd \ closed : backlog'[fd] = backlog[fd]
<1>1. /\ client' \in [Clients -> {"idle", "open", "gone"}]
      /\ \A c \in Clients : client[c] # "idle" => client'[c] # "idle"
  BY DEF ResetBacklog, IInv, TypeOK
<1>2. <<>> \in Seq(Clients) /\ Len(<<>>) = 0
  BY EmptySeq
<1>3. backlog' = [fd \in Fd |-> IF fd \in closed THEN <<>> ELSE backlog[fd]]
  BY DEF ResetBacklog
<1>4. backlog \in [Fd -> Seq(Clients)]
  BY DEF IInv, TypeOK
<1> QED
  BY <1>1, <1>2, <1>3, <1>4

LEMMA EmptyTables ==
  ASSUME IInv, NEW closed \in SUBSET Fd, ResetBacklog(closed), UNCHANGED data,
         fds' = <<>>, con_map' = <<>>, due' = {}, current' = 1, pc' \in {"listen", "ended"},
         files' \subseteq Clients, exited' \/ files' = {},
         quit' \in BOOLEAN, exited' \in BOOLEAN,
         sock' \in [Fd -> Clients \cup Port \cup {NoSock}],
         lost' = {fd \in Fd : sock'[fd] # NoSock},
         \A fd \in Fd : sock'[fd] \in Clients =>
           /\ client[sock'[fd]] # "idle"
           /\ \A other \in Fd : sock'[other] = sock'[fd] => other = fd,
         \A p \in Fd \ closed : \A i \in 1..Len(backlog[p]) :
           \A fd \in Fd : sock'[fd] # backlog[p][i]
  PROVE  IInv'
<1> USE Constants
<1>1. /\ client' \in [Clients -> {"idle", "open", "gone"}]
      /\ \A c \in Clients : client[c] # "idle" => client'[c] # "idle"
  BY Reset
<1>2. /\ backlog' \in [Fd -> Seq(Clients)] /\ \A p \in closed : Len(backlog'[p]) = 0
      /\ \A p \in Fd \ closed : backlog'[p] = backlog[p]
  BY Reset
<1>3. fds' \in Seq(PollFd) /\ Len(fds') = 0 /\ DOMAIN con_map' = {}
  BY EmptySeq
<1>4. TypeOK'
  BY <1>1, <1>2, <1>3 DEF IInv, TypeOK
<1>5. Listeners' = {} /\ Connections' = {}
  BY <1>3 DEF Listeners, Connections
<1>6. ConnectionsMatch'
  BY <1>3, <1>5 DEF ConnectionsMatch
<1>7. (ReadyServed /\ FilesHaveConnection)'
  BY DEF ReadyServed, FilesHaveConnection
<1>8. (Position /\ Listening /\ Pending /\ AcceptDue)'
  BY <1>3 DEF Position, Listening, Pending, AcceptDue
<1>9. OneDescriptor'
  BY <1>1 DEF OneDescriptor
<1>10. OnePlace'
  <2>1. \A p \in Fd : \A i \in 1..Len(backlog'[p]) :
          p \notin closed /\ backlog'[p] = backlog[p] /\ i \in 1..Len(backlog[p])
    BY <1>2
  <2>2. \A p \in Fd : \A i \in 1..Len(backlog[p]) : backlog[p][i] \in Clients
    BY ElementOfSeq DEF IInv, TypeOK
  <2> QED
    BY <1>1, <2>1, <2>2 DEF IInv, OnePlace
<1> QED
  BY <1>4, <1>6, <1>7, <1>8, <1>9, <1>10 DEF IInv

LEMMA NoFilesLeft ==
  ASSUME IInv, Destroyed, UNCHANGED exited
  PROVE  files' \subseteq Clients /\ (exited' \/ files' = {})
  BY DEF Destroyed, IInv, FilesHaveConnection, TypeOK

LEMMA StopStep ==
  ASSUME IInv, Stop
  PROVE  IInv'
<1>1. /\ sock' \in [Fd -> Clients \cup Port \cup {NoSock}]
      /\ \A fd \in Fd : sock'[fd] = NoSock
  BY DEF Stop
<1>2. lost' = {fd \in Fd : sock'[fd] # NoSock}
  BY <1>1 DEF Stop
<1>3. quit' \in BOOLEAN /\ exited' \in BOOLEAN
  BY DEF Stop, IInv, TypeOK
<1> QED
  <2>1. \A p \in Fd \ Fd : \A i \in 1..Len(backlog[p]) :
          \A fd \in Fd : sock'[fd] # backlog[p][i]
    OBVIOUS
  <2>2. Fd \in SUBSET Fd /\ ResetBacklog(Fd)
    BY DEF Stop
  <2> QED
    BY <1>1, <1>2, <1>3, <2>1, <2>2, Constants, NoFilesLeft, EmptyTables DEF Stop, Destroyed

LEMMA InterruptStep ==
  ASSUME IInv, Interrupt
  PROVE  IInv'
<1>1. CASE ~quit
  <2>1. quit' \in BOOLEAN /\ UNCHANGED <<loopVars, exited, lost, kernelVars>>
    BY <1>1 DEF Interrupt
  <2>2. TypeOK'
    BY <2>1 DEF loopVars, kernelVars, IInv, TypeOK
  <2>3. (ConnectionsMatch /\ ReadyServed /\ FilesHaveConnection)'
    BY <2>1 DEF loopVars, kernelVars, IInv, ConnectionsMatch, Listeners, Connections,
                ReadyServed, FilesHaveConnection, Served
  <2>4. (Position /\ Listening /\ OneDescriptor /\ OnePlace /\ Pending /\ AcceptDue)'
    BY <2>1 DEF loopVars, kernelVars, IInv, Position, Listening, OneDescriptor, OnePlace,
                Pending, AcceptDue, DueFrom
  <2> QED
    BY <2>2, <2>3, <2>4 DEF IInv
<1>2. CASE quit
  <2>1. /\ exited' = TRUE /\ pc' = "ended" /\ current' = 1
        /\ fds' = <<>> /\ con_map' = <<>> /\ due' = {}
        /\ sock' = [fd \in Fd |-> NoSock] /\ lost' = {}
        /\ ResetBacklog(Fd) /\ UNCHANGED <<quit, data, files>>
    BY <1>2 DEF Interrupt
  <2>2. /\ sock' \in [Fd -> Clients \cup Port \cup {NoSock}]
        /\ \A fd \in Fd : sock'[fd] = NoSock
    BY <2>1
  <2>3. lost' = {fd \in Fd : sock'[fd] # NoSock}
    BY <2>1, <2>2
  <2>4. quit' \in BOOLEAN /\ exited' \in BOOLEAN /\ files' \subseteq Clients
    BY <2>1 DEF IInv, TypeOK
  <2>5. \A p \in Fd \ Fd : \A i \in 1..Len(backlog[p]) :
          \A fd \in Fd : sock'[fd] # backlog[p][i]
    OBVIOUS
  <2>6. Fd \in SUBSET Fd
    OBVIOUS
  <2> QED
    BY <2>1, <2>2, <2>3, <2>4, <2>5, <2>6, Constants, EmptyTables
<1> QED
  BY <1>1, <1>2

LEMMA RestartStep ==
  ASSUME IInv, NEW open \in [Fd -> Clients \cup Port \cup {NoSock}], Restart(open),
         lost' = lost \cup {fd \in Fd : open[fd] # sock[fd]},
         \A fd \in Fd : open[fd] # sock[fd] => sock[fd] = NoSock /\ open[fd] # NoSock,
         \A fd \in Fd : open[fd] \in Clients =>
           /\ client[open[fd]] # "idle"
           /\ \A other \in Fd : open[other] = open[fd] => other = fd,
         \A p \in Fd \ Tabled : \A i \in 1..Len(backlog[p]) :
           \A fd \in Fd : open[fd] # backlog[p][i]
  PROVE  IInv'
<1> USE Constants
<1>1. sock' = [fd \in Fd |-> IF fd \in Tabled THEN NoSock ELSE open[fd]]
  BY DEF Restart, CloseAll
<1>2. /\ sock' \in [Fd -> Clients \cup Port \cup {NoSock}]
      /\ \A fd \in Fd : sock'[fd] \in {NoSock, open[fd]}
  BY <1>1
<1>3. Tabled = Listeners \cup Connections /\ Tabled \in SUBSET Fd
  <2>1. Len(fds) \in Nat /\ \A i \in 1..Len(fds) : fds[i].fd \in Fd
    BY Entries DEF IInv
  <2> QED
    BY <2>1 DEF Tabled, Listeners, Connections
<1>4. lost' = {fd \in Fd : sock'[fd] # NoSock}
  <2>1. lost \subseteq Fd
    BY DEF IInv, TypeOK
  <2>2. ASSUME NEW fd \in Fd
        PROVE  fd \in lost' <=> sock'[fd] # NoSock
    <3>1. /\ fd \in lost => sock[fd] # NoSock /\ fd \notin Listeners \cup Connections
          /\ sock[fd] # NoSock => fd \in lost \/ fd \in Listeners \cup Connections
          /\ fd \in Listeners \cup Connections => sock[fd] # NoSock
      BY DEF IInv, ConnectionsMatch
    <3>2. sock'[fd] = IF fd \in Listeners \cup Connections THEN NoSock ELSE open[fd]
      BY <1>1, <1>3
    <3>3. fd \in lost' <=> fd \in lost \/ open[fd] # sock[fd]
      OBVIOUS
    <3> QED
      BY <3>1, <3>2, <3>3
  <2> QED
    BY <2>1, <2>2
<1>5. quit' \in BOOLEAN /\ exited' \in BOOLEAN
  BY DEF Restart, IInv, TypeOK
<1>6. \A fd \in Fd : sock'[fd] \in Clients =>
        /\ client[sock'[fd]] # "idle"
        /\ \A other \in Fd : sock'[other] = sock'[fd] => other = fd
  BY <1>2
<1>7. \A p \in Fd \ Tabled : \A i \in 1..Len(backlog[p]) :
        \A fd \in Fd : sock'[fd] # backlog[p][i]
  <2>1. \A p \in Fd : \A i \in 1..Len(backlog[p]) : backlog[p][i] \in Clients
    BY ElementOfSeq DEF IInv, TypeOK
  <2> QED
    BY <1>2, <2>1
<1>8. Tabled \in SUBSET Fd /\ ResetBacklog(Tabled)
  BY <1>3 DEF Restart
<1> QED
  BY <1>2, <1>4, <1>5, <1>6, <1>7, <1>8, NoFilesLeft, EmptyTables DEF Restart, Destroyed

(* A socket that nobody has got a place for is lost with the restart.      *)
LEMMA LoseStep ==
  ASSUME IInv, NEW fd \in Free, NEW socket \in Clients \cup Port, Lose(fd, socket),
         socket \in Clients =>
           /\ client[socket] # "idle"
           /\ \A other \in Fd : sock[other] # socket
           /\ \A p \in Fd \ Tabled : \A i \in 1..Len(backlog[p]) : socket # backlog[p][i]
  PROVE  IInv'
<1> USE Constants
<1> DEFINE open == [sock EXCEPT ![fd] = socket]
<1>1. /\ open \in [Fd -> Clients \cup Port \cup {NoSock}] /\ open[fd] = socket
      /\ \A other \in Fd : other # fd => open[other] = sock[other]
      /\ fd \in Fd /\ sock[fd] = NoSock /\ socket # NoSock
  BY DEF IInv, TypeOK, Free
<1>2. Restart(open) /\ lost' = lost \cup {fd}
  BY DEF Lose
<1> HIDE DEF open
<1>3. {other \in Fd : open[other] # sock[other]} = {fd}
  BY <1>1
<1>4. \A other \in Fd : open[other] # sock[other] => sock[other] = NoSock /\ open[other] # NoSock
  BY <1>1
<1>5. \A other \in Fd : open[other] \in Clients =>
        /\ client[open[other]] # "idle"
        /\ \A third \in Fd : open[third] = open[other] => third = other
  BY <1>1 DEF IInv, OneDescriptor
<1>6. \A p \in Fd \ Tabled : \A i \in 1..Len(backlog[p]) :
        \A other \in Fd : open[other] # backlog[p][i]
  <2>1. \A p \in Fd : \A i \in 1..Len(backlog[p]) : backlog[p][i] \in Clients
    BY ElementOfSeq DEF IInv, TypeOK
  <2> QED
    BY <1>1, <2>1 DEF IInv, OnePlace
<1> QED
  BY <1>1, <1>2, <1>3, <1>4, <1>5, <1>6, RestartStep

(* Memory runs out with every descriptor in the table or already lost.     *)
LEMMA RestartSameStep ==
  ASSUME IInv, Restart(sock), UNCHANGED lost
  PROVE  IInv'
<1>1. sock \in [Fd -> Clients \cup Port \cup {NoSock}]
  BY DEF IInv, TypeOK
<1>2. lost' = lost \cup {fd \in Fd : sock[fd] # sock[fd]}
  OBVIOUS
<1>3. \A fd \in Fd : sock[fd] \in Clients =>
        /\ client[sock[fd]] # "idle"
        /\ \A other \in Fd : sock[other] = sock[fd] => other = fd
  BY DEF IInv, OneDescriptor
<1>4. \A p \in Fd \ Tabled : \A i \in 1..Len(backlog[p]) :
        \A fd \in Fd : sock[fd] # backlog[p][i]
  BY DEF IInv, OnePlace
<1> QED
  BY <1>1, <1>2, <1>3, <1>4, RestartStep

-----------------------------------------------------------------------------
(* A new entry in the table                                                *)

LEMMA AddFd ==
  ASSUME IInv, NEW fd \in Free, fds' = _m_addFd(fd)
  PROVE  /\ fd \in Fd /\ sock[fd] = NoSock /\ fds' \in Seq(PollFd)
         /\ Len(fds) \in Nat /\ Len(fds') = Len(fds) + 1
         /\ \A i \in 1..Len(fds) : fds'[i] = fds[i] /\ fds[i].fd # fd
         /\ fds'[Len(fds) + 1] = [fd |-> fd, events |-> {"POLLIN"}, revents |-> {}]
         /\ \A i, j \in 1..Len(fds') : fds'[i].fd = fds'[j].fd => i = j
<1> DEFINE new == [fd |-> fd, events |-> {"POLLIN"}, revents |-> {}]
<1>1. fd \in Fd /\ sock[fd] = NoSock
  BY DEF Free
<1>2. new \in PollFd
  BY <1>1 DEF PollFd, Event
<1>3. fds \in Seq(PollFd) /\ fds' = Append(fds, new)
  BY DEF IInv, TypeOK, _m_addFd
<1>4. /\ Len(fds) \in Nat
      /\ \A i \in 1..Len(fds) : fds[i].fd # fd
  BY <1>1, Entries DEF IInv
<1>5. /\ fds' \in Seq(PollFd) /\ Len(fds') = Len(fds) + 1
      /\ \A i \in 1..Len(fds) : fds'[i] = fds[i]
      /\ fds'[Len(fds) + 1] = new
  BY <1>2, <1>3, AppendProperties
<1>6. ASSUME NEW i \in 1..Len(fds'), NEW j \in 1..Len(fds'), fds'[i].fd = fds'[j].fd
      PROVE  i = j
  <2>1. CASE i \in 1..Len(fds) /\ j \in 1..Len(fds)
    BY <1>5, <1>6, <2>1 DEF IInv, ConnectionsMatch
  <2>2. CASE i = Len(fds) + 1 /\ j \in 1..Len(fds)
    BY <1>4, <1>5, <1>6, <2>2
  <2>3. CASE j = Len(fds) + 1 /\ i \in 1..Len(fds)
    BY <1>4, <1>5, <1>6, <2>3
  <2> QED
    BY <1>4, <1>5, <2>1, <2>2, <2>3
<1> QED
  BY <1>1, <1>4, <1>5, <1>6

LEMMA ListenStep ==
  ASSUME IInv, _m_setListen
  PROVE  IInv'
<1> USE Constants
<1>1. CASE Stop
  BY <1>1, StopStep
<1>2. ASSUME Free # {}, sock' = [sock EXCEPT ![LowestFree] = Ports[current]],
             fds' = _m_addFd(LowestFree), current' = current + 1,
             pc' = IF current = NPorts THEN "poll" ELSE "listen",
             UNCHANGED <<con_map, due, quit, exited, lost, backlog, client, data, files>>
      PROVE  IInv'
  <2>1. PICK fd \in Free : fd = LowestFree
    BY <1>2, Lowest
  <2>2. /\ pc = "listen" /\ current \in 1..NPorts /\ Len(fds) = current - 1 /\ due = {}
        /\ Ports[current] \in Port
    BY DEF _m_setListen, IInv, Position
  <2>3. /\ fd \in Fd /\ sock[fd] = NoSock /\ fds' \in Seq(PollFd)
        /\ Len(fds') = current
        /\ \A i \in 1..current - 1 : fds'[i] = fds[i] /\ fds[i].fd # fd
        /\ fds'[current] = [fd |-> fd, events |-> {"POLLIN"}, revents |-> {}]
        /\ \A i, j \in 1..Len(fds') : fds'[i].fd = fds'[j].fd => i = j
    BY <1>2, <2>1, <2>2, AddFd
  <2>4. /\ sock' \in [Fd -> Clients \cup Port \cup {NoSock}]
        /\ sock'[fd] = Ports[current] /\ \A other \in Fd : other # fd => sock'[other] = sock[other]
    BY <1>2, <2>1, <2>2, <2>3 DEF IInv, TypeOK
  <2>5. TypeOK'
    BY <1>2, <2>2, <2>3, <2>4 DEF IInv, TypeOK
  <2>6. Connections = {} /\ Connections' = {}
    BY <2>2, <2>3 DEF Connections
  <2>7. Listeners' = Listeners \cup {fd}
    <3>1. Listeners = {fds[i].fd : i \in 1..current - 1}
      BY <2>2 DEF Listeners
    <3>2. Listeners' = {fds'[i].fd : i \in 1..current}
      BY <2>2, <2>3 DEF Listeners
    <3>3. \A i \in 1..current : i \in 1..current - 1 \/ i = current
      BY <2>2
    <3> QED
      BY <2>2, <2>3, <3>1, <3>2, <3>3
  <2>8. ConnectionsMatch'
    <3>1. Listeners' \cup Connections' \cup lost' = {other \in Fd : sock'[other] # NoSock}
      BY <1>2, <2>2, <2>3, <2>4, <2>6, <2>7 DEF IInv, ConnectionsMatch
    <3>2. lost' \cap (Listeners' \cup Connections') = {} /\ Connections' = DOMAIN con_map'
      BY <1>2, <2>3, <2>6, <2>7 DEF IInv, ConnectionsMatch
    <3>3. DOMAIN con_map' = {}
      BY <2>6, <3>2
    <3> QED
      BY <2>3, <3>1, <3>2, <3>3 DEF ConnectionsMatch
  <2>9. (ReadyServed /\ FilesHaveConnection)'
    BY <1>2, <2>2 DEF IInv, ReadyServed, FilesHaveConnection, Served
  <2>10. (Position /\ Pending /\ AcceptDue)'
    BY <1>2, <2>2, <2>3 DEF Position, Pending, AcceptDue
  <2>11. Listening'
    <3>1. ASSUME NEW i \in 1..Len(fds')
          PROVE  sock'[fds'[i].fd] = Ports[i] /\ fds'[i].events = {"POLLIN"}
      <4>1. CASE i = current
        BY <2>3, <2>4, <4>1
      <4>2. CASE i # current
        <5>1. i \in 1..current - 1 /\ i \in 1..Len(fds) /\ i <= NPorts
          BY <2>2, <2>3, <4>2
        <5>2. fds'[i] = fds[i] /\ fds[i].fd # fd /\ fds[i].fd \in Fd
          BY <2>3, <5>1, Entries DEF IInv
        <5> QED
          BY <2>4, <5>1, <5>2 DEF IInv, Listening
      <4> QED
        BY <4>1, <4>2
    <3> QED
      BY <3>1 DEF Listening
  <2>12. (OneDescriptor /\ OnePlace)'
    <3>1. \A other \in Fd : sock'[other] \in Clients => other # fd /\ sock'[other] = sock[other]
      BY <2>2, <2>4
    <3>2. OneDescriptor'
      BY <1>2, <2>4, <3>1 DEF IInv, OneDescriptor
    <3>3. \A p \in Fd : \A i \in 1..Len(backlog[p]) : backlog[p][i] \in Clients
      BY ElementOfSeq DEF IInv, TypeOK
    <3>4. OnePlace'
      BY <1>2, <3>1, <3>3 DEF IInv, OnePlace
    <3> QED
      BY <3>2, <3>4
  <2> QED
    BY <2>5, <2>8, <2>9, <2>10, <2>11, <2>12 DEF IInv
<1>3. CASE Free # {} /\ Lose(LowestFree, Ports[current])
  <2>1. LowestFree \in Free /\ Ports[current] \in Port
    BY <1>3, Lowest DEF _m_setListen, IInv, Position
  <2> QED
    BY <1>3, <2>1, LoseStep
<1>4. CASE Restart(sock) /\ UNCHANGED lost
  BY <1>4, RestartSameStep
<1> QED
  BY <1>1, <1>2, <1>3, <1>4 DEF _m_setListen

-----------------------------------------------------------------------------
(* poll                                                                    *)

LEMMA PollStep ==
  ASSUME IInv, Poll
  PROVE  IInv'
<1> USE Constants
<1>1. CASE Stop
  BY <1>1, StopStep
<1>2. ASSUME NEW writable \in SUBSET Served,
             fds' = [i \in 1..Len(fds) |-> [fds[i] EXCEPT !.revents = Reported(fds[i], writable)]],
             due' = {sock[fds[i].fd] : i \in {j \in NPorts + 1..Len(fds) : fds'[j].revents # {}}},
             pc' = "accept", current' = 1,
             UNCHANGED <<con_map, quit, exited, lost, kernelVars>>
      PROVE  IInv'
  <2>1. Len(fds) \in Nat /\ Len(fds) >= NPorts /\ pc = "poll"
    BY Entries DEF IInv, Position, Poll
  <2>2. ASSUME NEW i \in 1..Len(fds)
        PROVE  /\ fds'[i] \in PollFd /\ fds'[i].fd = fds[i].fd /\ fds'[i].events = fds[i].events
               /\ fds'[i].revents = Reported(fds[i], writable)
    <3>1. fds[i] \in PollFd
      BY Entries DEF IInv
    <3>2. Reported(fds[i], writable) \subseteq Event
      BY <3>1 DEF Reported, PollFd
    <3>3. fds'[i] = [fds[i] EXCEPT !.revents = Reported(fds[i], writable)]
      BY <1>2
    <3> QED
      BY <3>1, <3>2, <3>3 DEF PollFd
  <2>3. /\ fds' \in Seq(PollFd) /\ Len(fds') = Len(fds)
    BY <1>2, <2>1, <2>2
  <2> DEFINE reported == {j \in NPorts + 1..Len(fds) : fds'[j].revents # {}}
  <2>4. due' = DueFrom(NPorts + 1)'
    <3>1. due' = {sock[fds[i].fd] : i \in reported}
      BY <1>2
    <3>2. DueFrom(NPorts + 1)' = {sock'[fds'[i].fd] : i \in reported}
      BY <2>3 DEF DueFrom
    <3>3. \A i \in reported : sock[fds[i].fd] = sock'[fds'[i].fd]
      BY <1>2, <2>1, <2>2 DEF kernelVars
    <3> HIDE DEF reported
    <3> QED
      BY <3>1, <3>2, <3>3
  <2>5. due' \subseteq Clients
    <3>1. \A i \in reported : sock[fds[i].fd] \in Clients
      BY Entries DEF IInv
    <3>2. due' = {sock[fds[i].fd] : i \in reported}
      BY <1>2
    <3> HIDE DEF reported
    <3> QED
      BY <3>1, <3>2
  <2> HIDE DEF reported
  <2>6. TypeOK'
    <3>1. /\ pc' = "accept" /\ current' = 1
          /\ UNCHANGED <<con_map, quit, exited, lost, sock, backlog, client, data, files>>
      BY <1>2 DEF kernelVars
    <3> QED
      BY <2>3, <2>5, <3>1 DEF IInv, TypeOK
  <2>7. Listeners' = Listeners /\ Connections' = Connections
    BY <2>1, <2>2, <2>3 DEF Listeners, Connections
  <2>8. ConnectionsMatch'
    BY <1>2, <2>2, <2>3, <2>7 DEF IInv, ConnectionsMatch, kernelVars
  <2>9. (ReadyServed /\ FilesHaveConnection)'
    BY <1>2 DEF IInv, ReadyServed, FilesHaveConnection, Served, kernelVars
  <2>10. (Position /\ AcceptDue)'
    BY <1>2, <2>1, <2>3, <2>4 DEF Position, AcceptDue
  <2>11. Listening'
    BY <1>2, <2>2, <2>3 DEF IInv, Listening, kernelVars
  <2>12. (OneDescriptor /\ OnePlace)'
    BY <1>2 DEF IInv, OneDescriptor, OnePlace, kernelVars
  <2>13. Pending'
    <3>1. ASSUME NEW i \in 1..NPorts, "POLLIN" \in fds'[i].revents
          PROVE  backlog'[fds'[i].fd] # <<>>
      <4>1. i \in 1..Len(fds) /\ sock[fds[i].fd] = Ports[i] /\ Ports[i] \in Port
        BY <2>1 DEF IInv, Listening
      <4>2. Readable(fds[i].fd)
        BY <2>2, <3>1, <4>1 DEF Reported
      <4> QED
        BY <1>2, <2>2, <4>1, <4>2 DEF Readable, kernelVars
    <3> QED
      BY <1>2, <3>1 DEF Pending
  <2> QED
    BY <2>6, <2>8, <2>9, <2>10, <2>11, <2>12, <2>13 DEF IInv
<1> QED
  BY <1>1, <1>2 DEF Poll

-----------------------------------------------------------------------------
(* accept                                                                  *)

(* The loop goes to the next listener, or to the workers. *)
LEMMA NextListenerStep ==
  ASSUME IInv, pc = "accept", NextListener, due' = due, Len(fds') \in Nat, Len(fds') >= Len(fds),
         DueFrom(NPorts + 1)' = DueFrom(NPorts + 1)
  PROVE  (Position /\ ReadyServed /\ AcceptDue)' /\ current' \in Nat \ {0}
         /\ pc' \in {"accept", "work"} /\ current' = current + 1
<1> USE Constants
<1>1. /\ current \in 1..NPorts /\ Len(fds) >= NPorts /\ Len(fds) \in Nat /\ due = DueFrom(NPorts + 1)
      /\ pc' = IF current = NPorts THEN "work" ELSE "accept"
      /\ current' = current + 1
  BY Entries DEF IInv, Position, AcceptDue, NextListener
<1>2. Position'
  BY <1>1 DEF Position
<1>3. ReadyServed'
  <2>1. pc' = "work" => current' = NPorts + 1
    BY <1>1
  <2>2. pc' = "work" => due' = DueFrom(current)'
    BY <1>1, <2>1 DEF DueFrom
  <2> QED
    BY <1>1, <2>2 DEF ReadyServed, DueFrom
<1>4. AcceptDue'
  BY <1>1 DEF AcceptDue
<1> QED
  BY <1>1, <1>2, <1>3, <1>4

(* What there is to accept at a listener poll reported *)
LEMMA Arrived ==
  ASSUME IInv, pc = "accept", "POLLIN" \in fds[current].revents, Free # {},
         NEW p, p = fds[current].fd, NEW c, c = Head(backlog[p])
  PROVE  /\ p \in Tabled /\ p \in Fd /\ c \in Clients /\ client[c] # "idle" /\ LowestFree \in Free
         /\ \A fd \in Fd : sock[fd] # c
         /\ \A q \in Fd : \A i \in 1..Len(backlog[q]) : backlog[q][i] = c => q = p
         /\ backlog[p] \in Seq(Clients) /\ Len(backlog[p]) \in Nat \ {0} /\ c = backlog[p][1]
         /\ Tail(backlog[p]) \in Seq(Clients) /\ Len(Tail(backlog[p])) = Len(backlog[p]) - 1
         /\ \A i \in 1..Len(backlog[p]) - 1 : Tail(backlog[p])[i] = backlog[p][i + 1]
<1> USE Constants
<1>1. current \in 1..NPorts /\ p \in Fd /\ p \in Tabled
  BY Entries DEF IInv, Position, Tabled
<1>2. backlog[p] # <<>> /\ backlog[p] \in Seq(Clients)
  BY <1>1 DEF IInv, Pending, TypeOK
<1>3. /\ c \in Clients /\ Len(backlog[p]) \in Nat \ {0} /\ c = backlog[p][1]
      /\ Tail(backlog[p]) \in Seq(Clients) /\ Len(Tail(backlog[p])) = Len(backlog[p]) - 1
      /\ \A i \in 1..Len(backlog[p]) - 1 : Tail(backlog[p])[i] = backlog[p][i + 1]
  <2>1. Len(backlog[p]) \in Nat \ {0}
    BY <1>2, EmptySeq
  <2>2. /\ Head(backlog[p]) \in Clients /\ Head(backlog[p]) = backlog[p][1]
        /\ Tail(backlog[p]) \in Seq(Clients) /\ Len(Tail(backlog[p])) = Len(backlog[p]) - 1
        /\ \A i \in 1..Len(Tail(backlog[p])) : Tail(backlog[p])[i] = backlog[p][i + 1]
    BY <1>2, <2>1, HeadTailProperties, ElementOfSeq
  <2> QED
    BY <2>1, <2>2
<1>4. /\ client[c] # "idle" /\ \A fd \in Fd : sock[fd] # c
      /\ \A q \in Fd : \A i \in 1..Len(backlog[q]) : backlog[q][i] = c => q = p
  <2>1. 1 \in 1..Len(backlog[p])
    BY <1>3
  <2> QED
    BY <1>1, <1>3, <2>1 DEF IInv, OnePlace
<1> QED
  BY <1>1, <1>2, <1>3, <1>4, Lowest

LEMMA AcceptedStep ==
  ASSUME IInv, pc = "accept", "POLLIN" \in fds[current].revents, Free # {},
         Accepted(fds[current].fd, LowestFree), NextListener,
         UNCHANGED <<due, quit, exited, lost, client, data, files>>
  PROVE  IInv'
<1> USE Constants
<1>1. PICK p, c, fd : p = fds[current].fd /\ c = Head(backlog[p]) /\ fd = LowestFree
  OBVIOUS
<1>2. /\ p \in Fd /\ c \in Clients /\ client[c] # "idle" /\ fd \in Free
      /\ \A other \in Fd : sock[other] # c
      /\ backlog[p] \in Seq(Clients) /\ Len(backlog[p]) \in Nat \ {0} /\ c = backlog[p][1]
      /\ Tail(backlog[p]) \in Seq(Clients) /\ Len(Tail(backlog[p])) = Len(backlog[p]) - 1
      /\ \A i \in 1..Len(backlog[p]) - 1 : Tail(backlog[p])[i] = backlog[p][i + 1]
  BY <1>1, Arrived
<1>3. /\ fd \in Fd /\ sock[fd] = NoSock /\ fds' \in Seq(PollFd)
      /\ Len(fds) \in Nat /\ Len(fds') = Len(fds) + 1
      /\ \A i \in 1..Len(fds) : fds'[i] = fds[i] /\ fds[i].fd # fd
      /\ fds'[Len(fds) + 1] = [fd |-> fd, events |-> {"POLLIN"}, revents |-> {}]
      /\ \A i, j \in 1..Len(fds') : fds'[i].fd = fds'[j].fd => i = j
  BY <1>1, <1>2, AddFd DEF Accepted
<1>4. current \in 1..NPorts /\ Len(fds) >= NPorts
  BY DEF IInv, Position
<1>5. /\ sock' \in [Fd -> Clients \cup Port \cup {NoSock}] /\ sock'[fd] = c
      /\ \A other \in Fd : other # fd => sock'[other] = sock[other]
  <2>1. sock' = [sock EXCEPT ![fd] = c]
    BY <1>1 DEF Accepted
  <2> QED
    BY <1>2, <1>3, <2>1 DEF IInv, TypeOK
<1>6. /\ backlog' \in [Fd -> Seq(Clients)] /\ backlog'[p] = Tail(backlog[p])
      /\ \A q \in Fd : q # p => backlog'[q] = backlog[q]
  <2>1. backlog' = [backlog EXCEPT ![p] = Tail(backlog[p])]
    BY <1>1 DEF Accepted
  <2> QED
    BY <1>2, <2>1 DEF IInv, TypeOK
<1>7. fd \notin DOMAIN con_map /\ DOMAIN con_map \subseteq Fd
  BY <1>3 DEF IInv, ConnectionsMatch, TypeOK
<1>8. /\ DOMAIN con_map' = DOMAIN con_map \cup {fd}
      /\ con_map'[fd] \in Worker /\ con_map'[fd].client = c /\ con_map'[fd].bytes = NoSock
      /\ \A other \in DOMAIN con_map : con_map'[other] = con_map[other]
  <2>1. Entry(fd) = NewWorker
    BY <1>7 DEF Entry
  <2>2. con_map' = Put(fd, [Entry(fd) EXCEPT !.client = c, !.event = "POLLIN"])
    BY <1>1 DEF Accepted
  <2>3. NewWorker \in Worker /\ NewWorker.bytes = NoSock
    BY DEF NewWorker, Worker, Event
  <2>4. PICK w : w = [NewWorker EXCEPT !.client = c, !.event = "POLLIN"]
    OBVIOUS
  <2>5. w \in Worker /\ w.client = c /\ w.bytes = NoSock
    BY <1>2, <2>3, <2>4 DEF Worker, Event
  <2>6. con_map' = [f \in DOMAIN con_map \cup {fd} |-> IF f = fd THEN w ELSE con_map[f]]
    BY <2>1, <2>2, <2>4 DEF Put
  <2> QED
    BY <1>7, <2>5, <2>6
<1>9. DueFrom(NPorts + 1)' = DueFrom(NPorts + 1)
  <2> DEFINE reported == {j \in NPorts + 1..Len(fds) : fds[j].revents # {}}
  <2>1. \A i \in reported : i \in 1..Len(fds) /\ fds[i].fd \in Fd
    BY <1>3, Entries DEF IInv
  <2>2. {j \in NPorts + 1..Len(fds') : fds'[j].revents # {}} = reported
    <3>1. \A j \in NPorts + 1..Len(fds') : j \in NPorts + 1..Len(fds) \/ j = Len(fds) + 1
      BY <1>3
    <3>2. \A j \in NPorts + 1..Len(fds) : j \in 1..Len(fds) /\ j \in NPorts + 1..Len(fds')
      BY <1>3
    <3>3. fds'[Len(fds) + 1].revents = {}
      BY <1>3
    <3> QED
      BY <1>3, <3>1, <3>2, <3>3
  <2>3. DueFrom(NPorts + 1)' = {sock'[fds'[i].fd] : i \in reported}
    BY <2>2 DEF DueFrom
  <2>4. DueFrom(NPorts + 1) = {sock[fds[i].fd] : i \in reported}
    BY DEF DueFrom
  <2> HIDE DEF reported
  <2>5. \A i \in reported : sock'[fds'[i].fd] = sock[fds[i].fd]
    BY <1>3, <1>5, <2>1
  <2>6. {sock'[fds'[i].fd] : i \in reported} = {sock[fds[i].fd] : i \in reported}
    BY <2>5
  <2> QED
    BY <2>3, <2>4, <2>6
<1>10. /\ (Position /\ ReadyServed /\ AcceptDue)' /\ current' \in Nat \ {0}
       /\ pc' \in {"accept", "work"} /\ current' = current + 1
  BY <1>3, <1>9, NextListenerStep
<1>11. TypeOK'
  <2>1. \A other \in DOMAIN con_map' : con_map'[other] \in Worker
    BY <1>8 DEF IInv, TypeOK
  <2>2. DOMAIN con_map' \subseteq Fd
    BY <1>3, <1>7, <1>8
  <2> QED
    BY <1>3, <1>5, <1>6, <1>10, <2>1, <2>2 DEF IInv, TypeOK
<1>12. Listeners' = Listeners /\ Connections' = Connections \cup {fd}
  <2>1. \A i \in 1..Len(fds') : i \in 1..Len(fds) \/ i = Len(fds) + 1
    BY <1>3
  <2>2. 1..Len(fds') \cap 1..NPorts = 1..Len(fds) \cap 1..NPorts
    BY <1>3, <1>4
  <2>3. NPorts + 1..Len(fds') = (NPorts + 1..Len(fds)) \cup {Len(fds) + 1}
    <3>1. \A n \in Nat : n >= NPorts => NPorts + 1..n + 1 = (NPorts + 1..n) \cup {n + 1}
      OBVIOUS
    <3> QED
      BY <1>3, <1>4, <3>1
  <2>4. \A i \in NPorts + 1..Len(fds) : fds'[i].fd = fds[i].fd
    BY <1>3
  <2>5. fds'[Len(fds) + 1].fd = fd
    BY <1>3
  <2>6. Listeners' = Listeners
    BY <1>3, <2>2 DEF Listeners
  <2>7. Connections' = Connections \cup {fd}
    <3> DEFINE old == NPorts + 1..Len(fds)
               next == Len(fds) + 1
    <3>1. Connections' = {fds'[i].fd : i \in old \cup {next}}
      BY <2>3 DEF Connections
    <3>2. Connections = {fds[i].fd : i \in old}
      BY DEF Connections
    <3>3. fds'[next].fd = fd /\ \A i \in old : fds'[i].fd = fds[i].fd
      BY <2>4, <2>5
    <3> HIDE DEF old, next
    <3> QED
      BY <3>1, <3>2, <3>3
  <2> QED
    BY <2>6, <2>7
<1>13. ConnectionsMatch'
  <2>1. Listeners' \cup Connections' \cup lost' = {other \in Fd : sock'[other] # NoSock}
    <3>1. Listeners \cup Connections \cup lost = {other \in Fd : sock[other] # NoSock}
      BY DEF IInv, ConnectionsMatch
    <3>2. {other \in Fd : sock'[other] # NoSock} = {other \in Fd : sock[other] # NoSock} \cup {fd}
      BY <1>2, <1>3, <1>5
    <3> QED
      BY <1>12, <3>1, <3>2
  <2>2. lost' \cap (Listeners' \cup Connections') = {} /\ Connections' = DOMAIN con_map'
    BY <1>3, <1>8, <1>12 DEF IInv, ConnectionsMatch
  <2>3. ASSUME NEW other \in DOMAIN con_map'
        PROVE  con_map'[other].client = sock'[other] /\ con_map'[other].bytes \in {NoSock, sock'[other]}
    <3>1. CASE other = fd
      BY <1>5, <1>8, <3>1
    <3>2. CASE other \in DOMAIN con_map
      <4>1. other # fd /\ other \in Fd
        BY <1>7, <3>2
      <4> QED
        BY <1>5, <1>8, <3>2, <4>1 DEF IInv, ConnectionsMatch
    <3> QED
      BY <1>8, <3>1, <3>2
  <2> QED
    BY <1>3, <2>1, <2>2, <2>3 DEF ConnectionsMatch
<1>14. FilesHaveConnection'
  <2>1. \A other \in DOMAIN con_map : other \in DOMAIN con_map' /\ con_map'[other].client = con_map[other].client
    BY <1>8
  <2>2. Served \subseteq Served'
    BY <2>1 DEF Served
  <2> QED
    BY <2>2 DEF IInv, FilesHaveConnection
<1>15. Listening'
  <2>1. ASSUME NEW i \in 1..Len(fds'), i <= NPorts
        PROVE  sock'[fds'[i].fd] = Ports[i] /\ fds'[i].events = {"POLLIN"}
    <3>1. i \in 1..Len(fds) /\ fds'[i] = fds[i] /\ fds[i].fd # fd /\ fds[i].fd \in Fd
      BY <1>3, <1>4, <2>1, Entries DEF IInv
    <3> QED
      BY <1>5, <2>1, <3>1 DEF IInv, Listening
  <2> QED
    BY <2>1 DEF Listening
<1>16. OneDescriptor'
  <2>1. ASSUME NEW one \in Fd, sock'[one] \in Clients
        PROVE  /\ client'[sock'[one]] # "idle"
               /\ \A other \in Fd : sock'[other] = sock'[one] => other = one
    <3>1. CASE one = fd
      BY <1>2, <1>5, <3>1
    <3>2. CASE one # fd
      <4>1. sock'[one] = sock[one] /\ sock[one] # c
        BY <1>2, <1>5, <3>2
      <4>2. client[sock[one]] # "idle" /\ \A other \in Fd : sock[other] = sock[one] => other = one
        BY <2>1, <4>1 DEF IInv, OneDescriptor
      <4> QED
        BY <1>5, <4>1, <4>2
    <3> QED
      BY <3>1, <3>2
  <2> QED
    BY <2>1 DEF OneDescriptor
<1>17. OnePlace'
  <2>1. ASSUME NEW q \in Fd, NEW i \in 1..Len(backlog'[q])
        PROVE  \E k \in 1..Len(backlog[q]) :
                 /\ backlog'[q][i] = backlog[q][k] /\ backlog[q][k] # c
                 /\ k = IF q = p THEN i + 1 ELSE i
    <3>1. CASE q = p
      <4>1. i \in 1..Len(backlog[p]) - 1
        BY <1>2, <1>6, <3>1
      <4>2. i + 1 \in 1..Len(backlog[p]) /\ backlog'[q][i] = backlog[p][i + 1] /\ 1 \in 1..Len(backlog[p])
        <5>1. backlog'[q] = Tail(backlog[p]) /\ Tail(backlog[p])[i] = backlog[p][i + 1]
          BY <1>2, <1>6, <3>1, <4>1
        <5>2. i + 1 \in 1..Len(backlog[p]) /\ 1 \in 1..Len(backlog[p])
          BY <1>2, <4>1
        <5> QED
          BY <5>1, <5>2
      <4>3. backlog[p][i + 1] # c
        BY <1>2, <4>1, <4>2 DEF IInv, OnePlace
      <4> QED
        BY <3>1, <4>2, <4>3
    <3>2. CASE q # p
      <4>1. backlog[q][i] # c
        <5>1. i \in 1..Len(backlog[q]) /\ 1 \in 1..Len(backlog[p])
          BY <1>2, <1>6, <3>2
        <5> QED
          BY <1>2, <3>2, <5>1 DEF IInv, OnePlace
      <4> QED
        BY <1>6, <3>2, <4>1
    <3> QED
      BY <3>1, <3>2
  <2>2. ASSUME NEW q \in Fd, NEW i \in 1..Len(backlog'[q])
        PROVE  /\ client'[backlog'[q][i]] # "idle"
               /\ \A other \in Fd : sock'[other] # backlog'[q][i]
               /\ \A r \in Fd : \A j \in 1..Len(backlog'[r]) :
                    backlog'[r][j] = backlog'[q][i] => r = q /\ j = i
    <3>1. PICK k \in 1..Len(backlog[q]) : /\ backlog'[q][i] = backlog[q][k] /\ backlog[q][k] # c
                                          /\ k = IF q = p THEN i + 1 ELSE i
      BY <2>1
    <3>2. client'[backlog'[q][i]] # "idle" /\ \A other \in Fd : sock'[other] # backlog'[q][i]
      BY <1>5, <3>1 DEF IInv, OnePlace
    <3>3. ASSUME NEW r \in Fd, NEW j \in 1..Len(backlog'[r]), backlog'[r][j] = backlog'[q][i]
          PROVE  r = q /\ j = i
      <4>1. PICK l \in 1..Len(backlog[r]) : /\ backlog'[r][j] = backlog[r][l]
                                            /\ l = IF r = p THEN j + 1 ELSE j
        BY <2>1
      <4>2. r = q /\ l = k
        BY <3>1, <3>3, <4>1 DEF IInv, OnePlace
      <4>3. i \in Int /\ j \in Int
        OBVIOUS
      <4> QED
        BY <3>1, <4>1, <4>2, <4>3
    <3> QED
      BY <3>2, <3>3
  <2> QED
    BY <2>2 DEF OnePlace
<1>18. Pending'
  <2>1. ASSUME NEW i \in current + 1..NPorts, "POLLIN" \in fds'[i].revents
        PROVE  backlog'[fds'[i].fd] # <<>>
    <3>1. i \in 1..Len(fds) /\ i \in current..NPorts /\ i # current /\ current \in 1..Len(fds)
      BY <1>3, <1>4
    <3>3. fds[i].fd \in Fd /\ fds[i].fd # p
      BY <1>1, <3>1, Entries DEF IInv, ConnectionsMatch
    <3>2. fds'[i] = fds[i] /\ backlog'[fds[i].fd] = backlog[fds[i].fd]
      BY <1>3, <1>6, <3>1, <3>3
    <3> QED
      BY <2>1, <3>1, <3>2 DEF IInv, Pending
  <2> QED
    BY <1>10, <2>1 DEF Pending
<1> QED
  BY <1>10, <1>11, <1>13, <1>14, <1>15, <1>16, <1>17, <1>18 DEF IInv

LEMMA AcceptStep ==
  ASSUME IInv, Accept
  PROVE  IInv'
<1> USE Constants
<1>1. pc = "accept"
  BY DEF Accept
<1>2. CASE UNCHANGED <<fds, con_map, sock, backlog, due, quit, exited, lost, client, data, files>>
           /\ NextListener
  <2>1. DueFrom(NPorts + 1)' = DueFrom(NPorts + 1)
    BY <1>2 DEF DueFrom
  <2>2. Len(fds) \in Nat
    BY Entries DEF IInv
  <2>3. /\ (Position /\ ReadyServed /\ AcceptDue)' /\ current' \in Nat \ {0}
        /\ pc' \in {"accept", "work"} /\ current' = current + 1
    BY <1>1, <1>2, <2>1, <2>2, NextListenerStep
  <2>4. TypeOK'
    BY <1>2, <2>3 DEF IInv, TypeOK
  <2>5. (ConnectionsMatch /\ FilesHaveConnection /\ Listening /\ OneDescriptor /\ OnePlace)'
    BY <1>2 DEF IInv, ConnectionsMatch, Listeners, Connections, FilesHaveConnection, Served,
                Listening, OneDescriptor, OnePlace
  <2>6. Pending'
    BY <1>1, <1>2, <2>3 DEF IInv, Pending, Position
  <2> QED
    BY <2>3, <2>4, <2>5, <2>6 DEF IInv
<1>3. CASE /\ "POLLIN" \in fds[current].revents /\ Free # {}
           /\ Accepted(fds[current].fd, LowestFree) /\ NextListener
           /\ UNCHANGED <<due, quit, exited, lost, client, data, files>>
  BY <1>1, <1>3, AcceptedStep
<1>4. CASE /\ "POLLIN" \in fds[current].revents /\ Free # {}
           /\ Lose(LowestFree, Head(backlog[fds[current].fd]))
  <2>1. PICK p, c, fd : p = fds[current].fd /\ c = Head(backlog[p]) /\ fd = LowestFree
    OBVIOUS
  <2>2. /\ p \in Tabled /\ c \in Clients /\ client[c] # "idle" /\ fd \in Free
        /\ \A other \in Fd : sock[other] # c
        /\ \A q \in Fd : \A i \in 1..Len(backlog[q]) : backlog[q][i] = c => q = p
    BY <1>1, <1>4, <2>1, Arrived
  <2>3. \A q \in Fd \ Tabled : \A i \in 1..Len(backlog[q]) : c # backlog[q][i]
    BY <2>2
  <2> QED
    BY <1>4, <2>1, <2>2, <2>3, LoseStep
<1>5. CASE Restart(sock) /\ UNCHANGED lost
  BY <1>5, RestartSameStep
<1> QED
  BY <1>1, <1>2, <1>3, <1>4, <1>5 DEF Accept

-----------------------------------------------------------------------------
(* The workers                                                             *)

LEMMA RemoveAtIs ==
  ASSUME NEW S, NEW s \in Seq(S), NEW i \in 1..Len(s)
  PROVE  /\ RemoveAt(s, i) \in Seq(S) /\ Len(RemoveAt(s, i)) = Len(s) - 1
         /\ \A j \in 1..Len(s) - 1 : RemoveAt(s, i)[j] = IF j < i THEN s[j] ELSE s[j + 1]
<1>1. Len(s) \in Nat /\ \A j \in 1..Len(s) : s[j] \in S
  BY LenProperties, ElementOfSeq
<1> DEFINE before == SubSeq(s, 1, i - 1)
           after == SubSeq(s, i + 1, Len(s))
<1>2. /\ before \in Seq(S) /\ Len(before) = i - 1
      /\ \A j \in 1..i - 1 : before[j] = s[j]
  <2>1. \A j \in 1..i - 1 : s[j] \in S
    BY <1>1
  <2>2. /\ before \in Seq(S) /\ Len(before) = IF 1 <= i - 1 THEN i - 1 - 1 + 1 ELSE 0
        /\ \A j \in 1..i - 1 - 1 + 1 : before[j] = s[1 + j - 1]
    BY <1>1, <2>1, SubSeqProperties
  <2> QED
    BY <1>1, <2>2
<1>3. /\ after \in Seq(S) /\ Len(after) = Len(s) - i
      /\ \A j \in 1..Len(s) - i : after[j] = s[i + j]
  <2>1. \A j \in i + 1..Len(s) : s[j] \in S
    BY <1>1
  <2>2. /\ after \in Seq(S) /\ Len(after) = IF i + 1 <= Len(s) THEN Len(s) - (i + 1) + 1 ELSE 0
        /\ \A j \in 1..Len(s) - (i + 1) + 1 : after[j] = s[i + 1 + j - 1]
    BY <1>1, <2>1, SubSeqProperties
  <2> QED
    BY <1>1, <2>2
<1>4. RemoveAt(s, i) = before \o after
  BY DEF RemoveAt
<1> HIDE DEF before, after
<1>5. /\ before \o after \in Seq(S) /\ Len(before \o after) = Len(s) - 1
      /\ \A j \in 1..Len(s) - 1 :
           (before \o after)[j] = IF j <= i - 1 THEN before[j] ELSE after[j - (i - 1)]
  <2>1. /\ before \o after \in Seq(S) /\ Len(before \o after) = Len(before) + Len(after)
        /\ \A j \in 1..Len(before) + Len(after) :
             (before \o after)[j] = IF j <= Len(before) THEN before[j] ELSE after[j - Len(before)]
    BY <1>2, <1>3, ConcatProperties
  <2>2. Len(before) = i - 1 /\ Len(before) + Len(after) = Len(s) - 1
    BY <1>1, <1>2, <1>3
  <2> QED
    BY <2>1, <2>2
<1>6. ASSUME NEW j \in 1..Len(s) - 1
      PROVE  (before \o after)[j] = IF j < i THEN s[j] ELSE s[j + 1]
  <2>1. CASE j < i
    BY <1>1, <1>2, <1>5, <2>1
  <2>2. CASE ~(j < i)
    <3>1. j - (i - 1) \in 1..Len(s) - i /\ i + (j - (i - 1)) = j + 1
      BY <1>1, <2>2
    <3> QED
      BY <1>1, <1>3, <1>5, <2>2, <3>1
  <2> QED
    BY <2>1, <2>2
<1> QED
  BY <1>4, <1>5, <1>6

(* The connection the loop is at *)
LEMMA Current ==
  ASSUME IInv, pc = "work", current <= Len(fds),
         NEW fd, fd = fds[current].fd
  PROVE  /\ Len(fds) \in Nat /\ current \in NPorts + 1..Len(fds) /\ fds[current] \in PollFd
         /\ fd \in Fd /\ sock[fd] \in Clients /\ fd \in Connections /\ fd \notin Listeners
         /\ DOMAIN con_map = Connections /\ Entry(fd) = con_map[fd] /\ con_map[fd] \in Worker
         /\ con_map[fd].client = sock[fd]
         /\ \A i \in 1..Len(fds) : i # current => fds[i].fd # fd /\ sock[fds[i].fd] # sock[fd]
<1> USE Constants
<1>1. Len(fds) \in Nat /\ current \in NPorts + 1..Len(fds)
  BY Entries DEF IInv, Position
<1>2. /\ fds[current] \in PollFd /\ fd \in Fd /\ sock[fd] \in Clients /\ fd \in DOMAIN con_map
      /\ con_map[fd] \in Worker /\ con_map[fd].client = sock[fd]
  BY <1>1, Entries DEF IInv
<1>3. Entry(fd) = con_map[fd] /\ DOMAIN con_map = Connections /\ fd \in Connections
  BY <1>2 DEF Entry, IInv, ConnectionsMatch
<1>4. ASSUME NEW i \in 1..Len(fds), i # current
      PROVE  fds[i].fd # fd /\ sock[fds[i].fd] # sock[fd]
  <2>1. fds[i].fd # fd
    BY <1>1, <1>4 DEF IInv, ConnectionsMatch
  <2>2. fds[i].fd \in Fd
    BY Entries DEF IInv
  <2> QED
    BY <1>2, <2>1, <2>2 DEF IInv, OneDescriptor
<1>5. fd \notin Listeners
  <2>1. \A i \in 1..Len(fds) \cap 1..NPorts : i \in 1..Len(fds) /\ i # current
    BY <1>1
  <2> QED
    BY <1>4, <2>1 DEF Listeners
<1> QED
  BY <1>1, <1>2, <1>3, <1>4, <1>5

(* Who is still to be served, once the current connection has been *)
LEMMA DueRest ==
  ASSUME IInv, pc = "work", current <= Len(fds),
         NEW c, c = sock[fds[current].fd]
  PROVE  /\ fds[current].revents # {} => due \ {c} = DueFrom(current + 1)
         /\ fds[current].revents = {} => due = DueFrom(current + 1)
<1> USE Constants
<1>1. /\ Len(fds) \in Nat /\ current \in NPorts + 1..Len(fds)
      /\ \A i \in 1..Len(fds) : i # current => sock[fds[i].fd] # c
  BY Current
<1> DEFINE reported == {j \in current..Len(fds) : fds[j].revents # {}}
           rest == {j \in current + 1..Len(fds) : fds[j].revents # {}}
<1>2. due = {sock[fds[i].fd] : i \in reported}
  BY DEF IInv, ReadyServed
<1>3. DueFrom(current + 1) = {sock[fds[i].fd] : i \in rest}
  BY DEF DueFrom
<1>4. \A i \in rest : sock[fds[i].fd] # c
  BY <1>1
<1>5. /\ fds[current].revents # {} => reported = rest \cup {current}
      /\ fds[current].revents = {} => reported = rest
  <2>1. current..Len(fds) = (current + 1..Len(fds)) \cup {current}
    <3>1. \A n \in Nat : \A i \in 1..n : i..n = (i + 1..n) \cup {i}
      OBVIOUS
    <3> QED
      BY <1>1, <3>1
  <2> QED
    BY <2>1
<1> HIDE DEF reported, rest
<1>6. CASE fds[current].revents # {}
  BY <1>2, <1>3, <1>4, <1>5, <1>6
<1>7. CASE fds[current].revents = {}
  BY <1>2, <1>3, <1>5, <1>7
<1> QED
  BY <1>6, <1>7

LEMMA SkipStep ==
  ASSUME IInv, pc = "work", current <= Len(fds), fds[current].revents = {}, current' = current + 1,
         UNCHANGED <<pc, fds, con_map, due, quit, exited, lost, kernelVars>>
  PROVE  IInv'
<1> USE Constants
<1>1. Len(fds) \in Nat /\ current \in NPorts + 1..Len(fds) /\ due = DueFrom(current + 1)
  BY Current, DueRest
<1>2. /\ UNCHANGED <<pc, fds, con_map, due, quit, exited, lost>>
      /\ UNCHANGED <<sock, backlog, client, data, files>>
  BY DEF kernelVars
<1>3. TypeOK'
  BY <1>1, <1>2 DEF IInv, TypeOK
<1>4. (ConnectionsMatch /\ FilesHaveConnection /\ Listening /\ OneDescriptor /\ OnePlace)'
  BY <1>2 DEF IInv, ConnectionsMatch, Listeners, Connections, FilesHaveConnection, Served,
              Listening, OneDescriptor, OnePlace
<1>5. (Position /\ Pending /\ AcceptDue)'
  BY <1>1, <1>2 DEF Position, Pending, AcceptDue
<1>6. ReadyServed'
  BY <1>1, <1>2 DEF ReadyServed, DueFrom
<1> QED
  BY <1>3, <1>4, <1>5, <1>6 DEF IInv

(* The part of a call of the worker that is the same whether the           *)
(* connection is closed or kept                                            *)
Called(fd, w, event, more, made) ==
  /\ fds[current].revents # {}
  /\ event \in Event \cup {"0"} /\ more \in BOOLEAN /\ made \in BOOLEAN
  /\ WorkerResult(w, fds[current].revents, event, more, made)
  /\ data' = [data EXCEPT ![w.client] = more]
  /\ due' = due \ {w.client} /\ pc' = pc
  /\ UNCHANGED <<quit, exited, lost, backlog, client>>

LEMMA CloseStep ==
  ASSUME IInv, pc = "work", current <= Len(fds),
         NEW fd, fd = fds[current].fd, NEW w, w = Entry(fd),
         NEW event, NEW more, NEW made, Called(fd, w, event, more, made), Close(fd)
  PROVE  IInv'
<1> USE Constants
<1>1. /\ Len(fds) \in Nat /\ current \in NPorts + 1..Len(fds) /\ fds[current] \in PollFd
      /\ fd \in Fd /\ sock[fd] \in Clients /\ fd \in Connections /\ fd \notin Listeners
      /\ DOMAIN con_map = Connections /\ w = con_map[fd] /\ w.client = sock[fd]
      /\ \A i \in 1..Len(fds) : i # current => fds[i].fd # fd /\ sock[fds[i].fd] # sock[fd]
  BY Current
<1>2. /\ fds' \in Seq(PollFd) /\ Len(fds') = Len(fds) - 1
      /\ \A j \in 1..Len(fds) - 1 : fds'[j] = IF j < current THEN fds[j] ELSE fds[j + 1]
  <2>1. fds \in Seq(PollFd) /\ current \in 1..Len(fds) /\ fds' = RemoveAt(fds, current)
    BY <1>1 DEF IInv, TypeOK, Close
  <2> QED
    BY <2>1, RemoveAtIs, ZenonT(60)
<1>3. /\ sock' \in [Fd -> Clients \cup Port \cup {NoSock}] /\ sock'[fd] = NoSock
      /\ \A other \in Fd : other # fd => sock'[other] = sock[other]
  BY <1>1 DEF Close, IInv, TypeOK
<1>4. /\ DOMAIN con_map' = DOMAIN con_map \ {fd}
      /\ \A other \in DOMAIN con_map \ {fd} : con_map'[other] = con_map[other]
  BY DEF Close, Restrict
<1>5. /\ current' = current /\ pc' = "work" /\ files' = files \ {sock[fd]}
      /\ UNCHANGED <<quit, exited, lost, backlog, client>>
      /\ data' \in [Clients -> BOOLEAN]
  BY <1>1 DEF Close, Called, IInv, TypeOK
<1>6. due' = DueFrom(current + 1)
  <2>1. due' = due \ {sock[fd]} /\ fds[current].revents # {}
    BY <1>1 DEF Called
  <2> QED
    BY <1>1, <2>1, DueRest
<1>7. TypeOK'
  <2>1. due' \subseteq Clients
    BY <1>1 DEF Called, IInv, TypeOK
  <2>2. DOMAIN con_map' \subseteq Fd /\ \A other \in DOMAIN con_map' : con_map'[other] \in Worker
    BY <1>4 DEF IInv, TypeOK
  <2> QED
    BY <1>2, <1>3, <1>5, <2>1, <2>2 DEF IInv, TypeOK
(* An entry is where it was, or one place further down. *)
<1>8. /\ \A j \in 1..Len(fds') : \E i \in 1..Len(fds) :
           /\ i # current /\ fds'[j] = fds[i] /\ i = IF j < current THEN j ELSE j + 1
      /\ \A i \in 1..Len(fds) : i # current =>
           LET j == IF i < current THEN i ELSE i - 1
           IN  j \in 1..Len(fds') /\ fds'[j] = fds[i]
  <2>1. ASSUME NEW j \in 1..Len(fds')
        PROVE  \E i \in 1..Len(fds) :
                 i # current /\ fds'[j] = fds[i] /\ i = IF j < current THEN j ELSE j + 1
    <3>1. j \in 1..Len(fds) - 1 /\ j \in 1..Len(fds) /\ j + 1 \in 1..Len(fds)
      BY <1>1, <1>2
    <3> QED
      BY <1>1, <1>2, <3>1
  <2>2. ASSUME NEW i \in 1..Len(fds), i # current, NEW j, j = IF i < current THEN i ELSE i - 1
        PROVE  j \in 1..Len(fds') /\ fds'[j] = fds[i]
    <3>1. CASE i < current
      BY <1>1, <1>2, <2>2, <3>1
    <3>2. CASE ~(i < current)
      <4>1. j \in 1..Len(fds) - 1 /\ ~(j < current) /\ j + 1 = i
        BY <1>1, <2>2, <3>2
      <4> QED
        BY <1>2, <4>1
    <3> QED
      BY <3>1, <3>2
  <2> QED
    BY <2>1, <2>2
<1>9. Listeners' = Listeners /\ Connections' = Connections \ {fd}
  <2>1. ASSUME NEW i \in 1..NPorts
        PROVE  i \in 1..Len(fds) /\ i \in 1..Len(fds') /\ fds'[i] = fds[i]
    <3>1. i \in 1..Len(fds) - 1 /\ i < current /\ i \in 1..Len(fds)
      BY <1>1
    <3> QED
      BY <1>2, <3>1, SMTT(30)
  <2>2. 1..Len(fds) \cap 1..NPorts = 1..NPorts /\ 1..Len(fds') \cap 1..NPorts = 1..NPorts
    BY <1>1, <1>2
  <2>3. Listeners' = Listeners
    BY <2>1, <2>2 DEF Listeners
  <2>4. ASSUME NEW other \in Connections, other # fd PROVE other \in Connections'
    <3>1. PICK i \in NPorts + 1..Len(fds) : other = fds[i].fd
      BY DEF Connections
    <3>2. PICK j : j = IF i < current THEN i ELSE i - 1
      OBVIOUS
    <3>3. i # current /\ i \in 1..Len(fds)
      BY <1>1, <2>4, <3>1
    <3>4. j \in 1..Len(fds') /\ fds'[j] = fds[i]
      BY <1>8, <3>2, <3>3
    <3>5. j \in NPorts + 1..Len(fds')
      BY <1>1, <1>2, <3>2, <3>3, <3>4
    <3> QED
      BY <3>1, <3>4, <3>5 DEF Connections
  <2>5. ASSUME NEW other \in Connections' PROVE other \in Connections \ {fd}
    <3>1. PICK j \in NPorts + 1..Len(fds') : other = fds'[j].fd
      BY DEF Connections
    <3>2. j \in 1..Len(fds')
      BY <1>1, <1>2
    <3>3. PICK i \in 1..Len(fds) : i # current /\ fds'[j] = fds[i] /\ i = IF j < current THEN j ELSE j + 1
      BY <1>8, <3>2
    <3>4. i \in NPorts + 1..Len(fds)
      BY <1>1, <1>2, <3>3
    <3> QED
      BY <1>1, <3>1, <3>3, <3>4 DEF Connections
  <2> QED
    BY <2>3, <2>4, <2>5
<1>10. ConnectionsMatch'
  <2>1. ASSUME NEW j \in 1..Len(fds'), NEW k \in 1..Len(fds'), fds'[j].fd = fds'[k].fd PROVE j = k
    <3>1. PICK i \in 1..Len(fds) : fds'[j] = fds[i] /\ i = IF j < current THEN j ELSE j + 1
      BY <1>8
    <3>2. PICK l \in 1..Len(fds) : fds'[k] = fds[l] /\ l = IF k < current THEN k ELSE k + 1
      BY <1>8
    <3>3. i = l
      BY <2>1, <3>1, <3>2 DEF IInv, ConnectionsMatch
    <3> QED
      BY <1>1, <3>1, <3>2, <3>3
  <2>2. Listeners' \cup Connections' \cup lost' = {other \in Fd : sock'[other] # NoSock}
    <3>1. /\ Listeners \cup Connections \cup lost = {other \in Fd : sock[other] # NoSock}
          /\ lost \cap (Listeners \cup Connections) = {}
      BY DEF IInv, ConnectionsMatch
    <3>2. {other \in Fd : sock'[other] # NoSock} = {other \in Fd : sock[other] # NoSock} \ {fd}
      BY <1>3
    <3> QED
      BY <1>1, <1>5, <1>9, <3>1, <3>2
  <2>3. lost' \cap (Listeners' \cup Connections') = {} /\ Connections' = DOMAIN con_map'
    BY <1>1, <1>4, <1>5, <1>9 DEF IInv, ConnectionsMatch
  <2>4. \A other \in DOMAIN con_map' :
          con_map'[other].client = sock'[other] /\ con_map'[other].bytes \in {NoSock, sock'[other]}
    BY <1>3, <1>4 DEF IInv, ConnectionsMatch, TypeOK
  <2> QED
    BY <2>1, <2>2, <2>3, <2>4 DEF ConnectionsMatch
<1>11. ReadyServed'
  <2> DEFINE rest == {i \in current + 1..Len(fds) : fds[i].revents # {}}
             left == {j \in current..Len(fds') : fds'[j].revents # {}}
  <2>1. ASSUME NEW i \in rest PROVE i - 1 \in left /\ sock'[fds'[i - 1].fd] = sock[fds[i].fd]
    <3>1. i \in 1..Len(fds) /\ i # current /\ ~(i < current) /\ i - 1 \in current..Len(fds')
      BY <1>1, <1>2
    <3>2. fds'[i - 1] = fds[i] /\ fds[i].fd # fd /\ fds[i].fd \in Fd
      BY <1>1, <1>8, <3>1, Entries DEF IInv
    <3> QED
      BY <1>3, <3>1, <3>2
  <2>2. ASSUME NEW j \in left PROVE j + 1 \in rest /\ sock'[fds'[j].fd] = sock[fds[j + 1].fd]
    <3>1. /\ j \in 1..Len(fds) - 1 /\ ~(j < current) /\ j + 1 \in current + 1..Len(fds)
          /\ j + 1 \in 1..Len(fds) /\ j + 1 # current
      BY <1>1, <1>2
    <3>2. fds'[j] = fds[j + 1] /\ fds[j + 1].fd # fd /\ fds[j + 1].fd \in Fd
      BY <1>1, <1>2, <3>1, Entries DEF IInv
    <3> QED
      BY <1>3, <3>1, <3>2
  <2>3. due' = {sock[fds[i].fd] : i \in rest}
    BY <1>6 DEF DueFrom
  <2> HIDE DEF rest, left
  <2>4. {sock[fds[i].fd] : i \in rest} = {sock'[fds'[j].fd] : j \in left}
    BY <2>1, <2>2
  <2>5. due' = {sock'[fds'[j].fd] : j \in left}
    BY <2>3, <2>4
  <2> QED
    BY <1>5, <2>5 DEF ReadyServed, left
<1>12. FilesHaveConnection'
  <2>1. ASSUME NEW c \in Served, c # sock[fd] PROVE c \in Served'
    <3>1. PICK other \in DOMAIN con_map : c = con_map[other].client
      BY DEF Served
    <3>2. other # fd
      BY <1>1, <2>1, <3>1
    <3> QED
      BY <1>4, <3>1, <3>2 DEF Served
  <2> QED
    BY <1>5, <2>1 DEF IInv, FilesHaveConnection
<1>13. (Position /\ Pending /\ AcceptDue)'
  BY <1>1, <1>2, <1>5 DEF Position, Pending, AcceptDue
<1>14. Listening'
  <2>1. ASSUME NEW i \in 1..Len(fds'), i <= NPorts
        PROVE  sock'[fds'[i].fd] = Ports[i] /\ fds'[i].events = {"POLLIN"}
    <3>1. i \in 1..Len(fds) /\ fds'[i] = fds[i] /\ i # current
      BY <1>1, <1>2, <2>1
    <3>2. fds[i].fd # fd /\ fds[i].fd \in Fd
      BY <1>1, <3>1, Entries DEF IInv
    <3> QED
      BY <1>3, <2>1, <3>1, <3>2 DEF IInv, Listening
  <2> QED
    BY <2>1 DEF Listening
<1>15. (OneDescriptor /\ OnePlace)'
  <2>1. \A other \in Fd : sock'[other] \in Clients => other # fd /\ sock'[other] = sock[other]
    BY <1>3
  <2>2. OneDescriptor'
    BY <1>3, <1>5, <2>1 DEF IInv, OneDescriptor
  <2>3. \A p \in Fd : \A i \in 1..Len(backlog[p]) : backlog[p][i] \in Clients
    BY ElementOfSeq DEF IInv, TypeOK
  <2>4. OnePlace'
    BY <1>5, <2>1, <2>3 DEF IInv, OnePlace
  <2> QED
    BY <2>2, <2>4
<1> QED
  BY <1>7, <1>10, <1>11, <1>12, <1>13, <1>14, <1>15 DEF IInv

LEMMA KeepStep ==
  ASSUME IInv, pc = "work", current <= Len(fds),
         NEW fd, fd = fds[current].fd, NEW w, w = Entry(fd),
         NEW event, NEW more, NEW made, Called(fd, w, event, more, made),
         NEW kept \in Worker, kept.client = sock[fd], kept.event \in Event,
         kept.bytes \in {NoSock, sock[fd]}, Keep(fd, kept, made)
  PROVE  IInv'
<1> USE Constants
<1>1. /\ Len(fds) \in Nat /\ current \in NPorts + 1..Len(fds) /\ fds[current] \in PollFd
      /\ fd \in Fd /\ sock[fd] \in Clients /\ fd \in Connections /\ fd \notin Listeners
      /\ DOMAIN con_map = Connections /\ w = con_map[fd] /\ w \in Worker /\ w.client = sock[fd]
  BY Current
<1>2. /\ DOMAIN con_map' = DOMAIN con_map /\ con_map'[fd] = kept
      /\ \A other \in DOMAIN con_map : other # fd => con_map'[other] = con_map[other]
  BY <1>1 DEF Keep, Put
<1>3. /\ fds' \in Seq(PollFd) /\ Len(fds') = Len(fds)
      /\ \A i \in 1..Len(fds) :
           /\ fds'[i].fd = fds[i].fd /\ fds'[i].revents = fds[i].revents
           /\ i # current => fds'[i] = fds[i]
  <2>1. PICK e : e = [fds[current] EXCEPT !.events = Events(kept.event)]
    OBVIOUS
  <2>2. Events(kept.event) \subseteq Event
    BY DEF Events, Event
  <2>3. e \in PollFd /\ e.fd = fds[current].fd /\ e.revents = fds[current].revents
    BY <1>1, <2>1, <2>2 DEF PollFd
  <2>4. fds \in Seq(PollFd) /\ current \in 1..Len(fds) /\ fds' = [fds EXCEPT ![current] = e]
    BY <1>1, <2>1 DEF IInv, TypeOK, Keep
  <2>5. /\ fds' \in Seq(PollFd) /\ Len(fds') = Len(fds)
        /\ \A i \in 1..Len(fds) : fds'[i] = IF i = current THEN e ELSE fds[i]
    BY <2>3, <2>4, ExceptSeq
  <2> QED
    BY <2>3, <2>5
<1>4. /\ current' = current + 1 /\ pc' = "work" /\ files \subseteq files'
      /\ files' \subseteq files \cup {sock[fd]}
      /\ UNCHANGED <<quit, exited, lost, backlog, client, sock>>
      /\ data' \in [Clients -> BOOLEAN]
  BY <1>1 DEF Keep, Called, IInv, TypeOK
<1>5. due' = DueFrom(current + 1)
  <2>1. due' = due \ {sock[fd]} /\ fds[current].revents # {}
    BY <1>1 DEF Called
  <2> QED
    BY <1>1, <2>1, DueRest
<1>6. TypeOK'
  <2>1. due' \subseteq Clients
    BY <1>1 DEF Called, IInv, TypeOK
  <2>2. DOMAIN con_map' \subseteq Fd /\ \A other \in DOMAIN con_map' : con_map'[other] \in Worker
    BY <1>2 DEF IInv, TypeOK
  <2> QED
    BY <1>1, <1>3, <1>4, <2>1, <2>2 DEF IInv, TypeOK
<1>7. Listeners' = Listeners /\ Connections' = Connections
  <2>1. \A i \in NPorts + 1..Len(fds) : i \in 1..Len(fds)
    BY <1>1
  <2>2. Connections' = {fds'[i].fd : i \in NPorts + 1..Len(fds)}
    BY <1>3 DEF Connections
  <2>3. Connections' = Connections
    BY <1>3, <2>1, <2>2 DEF Connections
  <2>4. Listeners' = Listeners
    BY <1>1, <1>3 DEF Listeners
  <2> QED
    BY <2>3, <2>4
<1>8. ConnectionsMatch'
  <2>1. \A other \in DOMAIN con_map' :
          con_map'[other].client = sock'[other] /\ con_map'[other].bytes \in {NoSock, sock'[other]}
    BY <1>2, <1>4 DEF IInv, ConnectionsMatch
  <2>2. \A i, j \in 1..Len(fds') : fds'[i].fd = fds'[j].fd => i = j
    BY <1>3 DEF IInv, ConnectionsMatch
  <2>3. /\ Listeners' \cup Connections' \cup lost' = {other \in Fd : sock'[other] # NoSock}
        /\ lost' \cap (Listeners' \cup Connections') = {} /\ Connections' = DOMAIN con_map'
    BY <1>2, <1>4, <1>7 DEF IInv, ConnectionsMatch
  <2> QED
    BY <2>1, <2>2, <2>3 DEF ConnectionsMatch
<1>9. ReadyServed'
  <2> DEFINE rest == {i \in current + 1..Len(fds) : fds[i].revents # {}}
             left == {j \in current + 1..Len(fds') : fds'[j].revents # {}}
  <2>1. left = rest /\ \A i \in rest : sock'[fds'[i].fd] = sock[fds[i].fd]
    <3>1. \A i \in current + 1..Len(fds) : i \in 1..Len(fds)
      BY <1>1
    <3> QED
      BY <1>3, <1>4, <3>1
  <2>2. due' = {sock[fds[i].fd] : i \in rest}
    BY <1>5 DEF DueFrom
  <2> HIDE DEF rest, left
  <2>3. {sock[fds[i].fd] : i \in rest} = {sock'[fds'[j].fd] : j \in left}
    BY <2>1
  <2>4. due' = {sock'[fds'[j].fd] : j \in left}
    BY <2>2, <2>3
  <2> QED
    BY <1>4, <2>4 DEF ReadyServed, left
<1>10. FilesHaveConnection'
  <2>1. ASSUME NEW c \in Served \cup {sock[fd]} PROVE c \in Served'
    <3>1. CASE c = sock[fd]
      <4>1. fd \in DOMAIN con_map' /\ con_map'[fd].client = c
        BY <1>1, <1>2, <3>1
      <4> QED
        BY <4>1 DEF Served
    <3>2. CASE c # sock[fd]
      <4>1. PICK other \in DOMAIN con_map : c = con_map[other].client
        BY <2>1, <3>2 DEF Served
      <4>2. other # fd
        BY <1>1, <3>2, <4>1
      <4> QED
        BY <1>2, <4>1, <4>2 DEF Served
    <3> QED
      BY <3>1, <3>2
  <2> QED
    BY <1>4, <2>1 DEF IInv, FilesHaveConnection
<1>11. (Position /\ Pending /\ AcceptDue)'
  BY <1>1, <1>3, <1>4 DEF Position, Pending, AcceptDue
<1>12. Listening'
  <2>1. \A i \in 1..Len(fds') : i <= NPorts => fds'[i] = fds[i] /\ i \in 1..Len(fds)
    BY <1>1, <1>3
  <2> QED
    BY <1>4, <2>1 DEF IInv, Listening
<1>13. (OneDescriptor /\ OnePlace)'
  BY <1>4 DEF IInv, OneDescriptor, OnePlace
<1> QED
  BY <1>6, <1>8, <1>9, <1>10, <1>11, <1>12, <1>13 DEF IInv

LEMMA WorkStep ==
  ASSUME IInv, Work
  PROVE  IInv'
<1> USE Constants
<1>1. pc = "work" /\ current <= Len(fds)
  BY DEF Work
<1>2. CASE /\ fds[current].revents = {} /\ current' = current + 1
           /\ UNCHANGED <<pc, fds, con_map, due, quit, exited, lost, kernelVars>>
  BY <1>1, <1>2, SkipStep
<1>3. ASSUME fds[current].revents # {}, CallWorker(fds[current]),
             UNCHANGED <<quit, exited, lost, backlog, client>>
      PROVE  IInv'
  <2>1. PICK fd, w : fd = fds[current].fd /\ w = Entry(fd)
    OBVIOUS
  <2>2. PICK event \in Event \cup {"0"}, more \in BOOLEAN, made \in BOOLEAN :
          /\ WorkerResult(w, fds[current].revents, event, more, made)
          /\ data' = [data EXCEPT ![w.client] = more]
          /\ \/ event = "0" /\ Close(fd)
             \/ /\ event # "0"
                /\ Keep(fd, [w EXCEPT !.event = event,
                               !.bytes = IF w.event \in fds[current].revents \cap {"POLLIN"}
                                         THEN sock[fd] ELSE w.bytes], made)
    BY <1>3, <2>1, ZenonT(60) DEF CallWorker
  <2>3. Called(fd, w, event, more, made)
    BY <1>3, <2>1, <2>2 DEF Called, CallWorker
  <2>4. CASE event = "0" /\ Close(fd)
    BY <1>1, <2>1, <2>3, <2>4, CloseStep
  <2>5. CASE event # "0"
    <3>1. PICK kept : kept = [w EXCEPT !.event = event,
                                !.bytes = IF w.event \in fds[current].revents \cap {"POLLIN"}
                                          THEN sock[fd] ELSE w.bytes]
      OBVIOUS
    <3>2. /\ w \in Worker /\ w.client = sock[fd] /\ sock[fd] \in Clients
          /\ w.bytes \in {NoSock, sock[fd]} /\ event \in Event
      BY <1>1, <2>1, <2>2, <2>5, Current DEF IInv, ConnectionsMatch
    <3>3. /\ kept \in Worker /\ kept.client = sock[fd] /\ kept.event \in Event
          /\ kept.bytes \in {NoSock, sock[fd]}
      BY <3>1, <3>2 DEF Worker
    <3>4. Keep(fd, kept, made)
      BY <2>2, <2>5, <3>1
    <3> QED
      BY <1>1, <2>1, <2>3, <3>3, <3>4, KeepStep
  <2> QED
    BY <2>2, <2>4, <2>5
<1>4. CASE Restart(sock) /\ UNCHANGED lost
  BY <1>4, RestartSameStep
<1> QED
  BY <1>2, <1>3, <1>4 DEF Work

LEMMA NextIterationStep ==
  ASSUME IInv, NextIteration
  PROVE  IInv'
<1> USE Constants
<1>1. /\ pc = "work" /\ current > Len(fds) /\ pc' = "poll"
      /\ UNCHANGED <<current, fds, con_map, due, quit, exited, lost>>
      /\ UNCHANGED <<sock, backlog, client, data, files>>
  BY DEF NextIteration, kernelVars
<1>2. TypeOK'
  BY <1>1 DEF IInv, TypeOK
<1>3. (ConnectionsMatch /\ FilesHaveConnection /\ Listening /\ OneDescriptor /\ OnePlace)'
  BY <1>1 DEF IInv, ConnectionsMatch, Listeners, Connections, FilesHaveConnection, Served,
              Listening, OneDescriptor, OnePlace
<1>4. ReadyServed'
  <2>1. Len(fds) \in Nat /\ current = Len(fds) + 1
    BY <1>1, Entries DEF IInv, Position
  <2>2. {i \in current..Len(fds) : fds[i].revents # {}} = {}
    BY <2>1
  <2> QED
    BY <1>1, <2>2 DEF IInv, ReadyServed
<1>5. (Position /\ Pending /\ AcceptDue)'
  BY <1>1, Entries DEF IInv, Position, Pending, AcceptDue
<1> QED
  BY <1>2, <1>3, <1>4, <1>5 DEF IInv

-----------------------------------------------------------------------------
LEMMA InitInv == Init => IInv
<1> SUFFICES ASSUME Init PROVE IInv
  OBVIOUS
<1> USE Constants
<1>1. /\ fds \in Seq(PollFd) /\ Len(fds) = 0 /\ DOMAIN con_map = {}
      /\ backlog \in [Fd -> Seq(Clients)] /\ \A p \in Fd : Len(backlog[p]) = 0
  BY EmptySeq DEF Init
<1>2. TypeOK
  <2>1. /\ sock \in [Fd -> Clients \cup Port \cup {NoSock}]
        /\ client \in [Clients -> {"idle", "open", "gone"}]
        /\ data \in [Clients -> BOOLEAN]
    BY DEF Init
  <2>2. DOMAIN con_map \subseteq Fd /\ \A fd \in DOMAIN con_map : con_map[fd] \in Worker
    BY <1>1
  <2>3. pc \in {"listen", "poll", "accept", "work", "ended"} /\ current \in Nat \ {0}
    BY DEF Init
  <2>4. quit \in BOOLEAN /\ exited \in BOOLEAN
    BY DEF Init
  <2>5. files \subseteq Clients /\ due \subseteq Clients /\ lost \subseteq Fd
    BY DEF Init
  <2> QED
    BY <1>1, <2>1, <2>2, <2>3, <2>4, <2>5 DEF TypeOK
<1>3. ConnectionsMatch
  BY <1>1 DEF Init, ConnectionsMatch, Listeners, Connections
<1>4. ReadyServed /\ FilesHaveConnection /\ Position /\ Listening /\ Pending /\ AcceptDue
  BY <1>1 DEF Init, ReadyServed, FilesHaveConnection, Position, Listening, Pending, AcceptDue
<1>5. OneDescriptor /\ OnePlace
  BY <1>1 DEF Init, OneDescriptor, OnePlace
<1> QED
  BY <1>2, <1>3, <1>4, <1>5 DEF IInv

LEMMA StepInv == IInv /\ [Next]_vars => IInv'
<1> SUFFICES ASSUME IInv, [Next]_vars
             PROVE  IInv'
  OBVIOUS
<1>1. CASE Loop
  BY <1>1, ListenStep, PollStep, AcceptStep, WorkStep, NextIterationStep DEF Loop
<1>2. CASE Interrupt
  BY <1>2, InterruptStep
<1>3. CASE \E c \in Clients : Connect(c) \/ Send(c) \/ Leave(c)
  BY <1>3, ConnectStep, ClientStep
<1>4. CASE UNCHANGED vars
  <2>1. TypeOK' /\ ConnectionsMatch'
    BY <1>4 DEF vars, loopVars, kernelVars, IInv, TypeOK, ConnectionsMatch, Listeners, Connections
  <2>2. (ReadyServed /\ FilesHaveConnection /\ Position /\ Listening)'
    BY <1>4 DEF vars, loopVars, kernelVars, IInv, ReadyServed, FilesHaveConnection, Served,
                Position, Listening
  <2>3. (OneDescriptor /\ OnePlace /\ Pending /\ AcceptDue)'
    BY <1>4 DEF vars, loopVars, kernelVars, IInv, OneDescriptor, OnePlace, Pending, AcceptDue,
                DueFrom
  <2> QED
    BY <2>1, <2>2, <2>3 DEF IInv
<1> QED
  BY <1>1, <1>2, <1>3, <1>4 DEF Next

(* For every number of ports, clients and descriptors, and whatever fails, *)
(* the loop is where its tables say, ports keep their order, and a client  *)
(* is in one place: the invariant the theorems below follow from.          *)
THEOREM Invariant == Spec => []IInv
<1>1. Init => IInv
  BY InitInv
<1>2. IInv /\ [Next]_vars => IInv'
  BY StepInv
<1> QED
  BY <1>1, <1>2, PTL DEF Spec

(* The variables of the Server have their types.                           *)
THEOREM TypeCorrect == Spec => []TypeOK
<1>1. IInv => TypeOK
  BY DEF IInv
<1> QED
  BY <1>1, Invariant, PTL

(* The table of descriptors, the map of connections and the kernel's       *)
(* descriptors agree at every step and over restarts, but for those that   *)
(* socket or accept had returned when adding them to the table ran out of  *)
(* memory; no connection has the bytes of another, although descriptors    *)
(* are reused (Server.cpp:60, 96, 97 and 113).                             *)
THEOREM TablesMatch == Spec => []ConnectionsMatch
<1>1. IInv => ConnectionsMatch
  BY DEF IInv
<1> QED
  BY <1>1, Invariant, PTL

(* In each iteration of the loop the worker of every connection that poll  *)
(* reported is called, once, although entries are removed from the table   *)
(* while the loop walks it (Server.cpp:102).                               *)
THEOREM EveryReadyServed == Spec => []ReadyServed
<1>1. IInv => ReadyServed
  BY DEF IInv
<1> QED
  BY <1>1, Invariant, PTL

(* Temporary files go with their connection, on closing, restart and stop; *)
(* only the signal hook leaves some (Quit.cpp).                            *)
THEOREM NoFilesLeftOver == Spec => []FilesHaveConnection
<1>1. IInv => FilesHaveConnection
  BY DEF IInv
<1> QED
  BY <1>1, Invariant, PTL
=============================================================================
