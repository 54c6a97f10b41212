------------------------------- MODULE Server -------------------------------
(***************************************************************************)
(* The poll loop: Server::launchServer and the destructor of Server, the   *)
(* restart loop of main, the SIGINT hook, and what the kernel knows of the *)
(* process's sockets.                                                      *)
(*                                                                         *)
(* A step of the loop is one call of poll, of accept or of a worker.       *)
(* Between any two of them clients connect, send and leave, and SIGINT     *)
(* arrives.  A worker is seen from outside: ConState::operator() reads at  *)
(* most one buffer, and returns the event its connection waits for next.   *)
(*                                                                         *)
(* A definition whose comment starts with "Bug:" is the faulty variant of  *)
(* the one below it; no action uses it.                                    *)
(***************************************************************************)
EXTENDS Naturals, Sequences, FiniteSets, SequencesExt

CONSTANTS
  Ports,       \* the ports of the configuration, a sequence: _m_ports
  Clients,     \* one value for each connection a client may open
  MaxFd,       \* descriptors are 1..MaxFd: the process's limit
  Faults,      \* what may fail: "bind"; "push", a vector that grows in
               \* launchServer; "memory", the map of connections or a worker
  NoSock       \* neither a port nor a client

Port == ToSet(Ports)

ASSUME ServerAssumption ==
  /\ Ports \in Seq(Port) /\ Len(Ports) \in Nat \ {0}
  /\ \A i, j \in DOMAIN Ports : Ports[i] = Ports[j] => i = j   \* of a std::set
  /\ MaxFd \in Nat
  /\ NoSock \notin Clients \cup Port
  /\ Clients \cap Port = {}

VARIABLES
  (* the Server object and the loops around it *)
  pc,          \* "listen", "poll", "accept", "work", "ended"
  current,     \* the index of the loop that is running, from 1
  fds,         \* _m_fds
  con_map,     \* _m_con_map
  quit,        \* Quit::_quit
  (* the kernel *)
  sock,        \* what each descriptor of the process refers to
  backlog,     \* backlog[fd]: connections the listener fd has not accepted yet
  client,      \* "idle", "open", or "gone" once the client closed its side
  data,        \* the connection has bytes to receive
  files,       \* clients whose connection has temporary files
  (* what an observer would note down *)
  due,         \* clients poll reported whose worker has not run yet
  lost,        \* descriptors that socket or accept returned when memory ran out
  exited       \* the process ended in the signal hook

loopVars   == <<pc, current, fds, con_map, due>>
kernelVars == <<sock, backlog, client, data, files>>
vars       == <<loopVars, quit, exited, lost, kernelVars>>

Fd     == 1..MaxFd
Event  == {"POLLIN", "POLLOUT"}
NPorts == Len(Ports)

(* struct pollfd, and what the loop can see of a ConState: its client,     *)
(* _event_set ("0" to be closed), and whose bytes its buffers hold.        *)
PollFd == [fd : Fd, events : SUBSET Event, revents : SUBSET Event]
Worker == [client : Clients \cup {NoSock}, event : Event \cup {"0"},
           bytes : Clients \cup {NoSock}]
NewWorker == [client |-> NoSock, event |-> "POLLIN", bytes |-> NoSock]

Free       == {fd \in Fd : sock[fd] = NoSock}
LowestFree == CHOOSE fd \in Free : \A other \in Free : fd <= other

(* _m_con_map[fd]: default-constructed when it is not there yet            *)
Entry(fd)  == IF fd \in DOMAIN con_map THEN con_map[fd] ELSE NewWorker
Put(fd, w) == [f \in DOMAIN con_map \cup {fd} |-> IF f = fd THEN w ELSE con_map[f]]

_m_addFd(fd) == Append(fds, [fd |-> fd, events |-> {"POLLIN"}, revents |-> {}])

(* The clients that have a ConState                                        *)
Served == {con_map[fd].client : fd \in DOMAIN con_map}

-----------------------------------------------------------------------------
(* The end of a Server object, and of the process                          *)

(* ~Server closes the descriptors of _m_fds; the destructors of the        *)
(* connections remove their files.                                         *)
Destroyed ==
  /\ fds' = <<>> /\ con_map' = <<>> /\ due' = {}
  /\ files' = files \ Served

(* Connections a closed listener had not accepted are reset.               *)
ResetBacklog(closed) ==
  /\ backlog' = [fd \in Fd |-> IF fd \in closed THEN <<>> ELSE backlog[fd]]
  /\ client' = [c \in Clients |->
       IF \E fd \in closed : c \in ToSet(backlog[fd]) THEN "gone" ELSE client[c]]

(* launchServer returned, or threw what main reports as fatal.             *)
Stop ==
  /\ Destroyed /\ ResetBacklog(Fd)
  /\ pc' = "ended" /\ current' = 1
  /\ sock' = [fd \in Fd |-> NoSock] /\ lost' = {}
  /\ UNCHANGED <<quit, data, exited>>

Tabled == {fds[i].fd : i \in 1..Len(fds)}

(* Bug: the destructor leaves the descriptors open. *)
CloseAllForgotten(open) == sock' = open

(* ~Server, with the sockets as they were when the exception was thrown    *)
CloseAll(open) ==
  sock' = [fd \in Fd |-> IF fd \in Tabled THEN NoSock ELSE open[fd]]

(* bad_alloc, caught by main: the Server is destroyed, and a new one       *)
(* launched.                                                               *)
Restart(open) ==
  /\ Destroyed /\ ResetBacklog(Tabled)
  /\ CloseAll(open)
  /\ pc' = "listen" /\ current' = 1
  /\ UNCHANGED <<quit, data, exited>>

(* _m_addFd throws it: nobody has the new descriptor, which stays open.    *)
Lose(fd, socket) == Restart([sock EXCEPT ![fd] = socket]) /\ lost' = lost \cup {fd}

-----------------------------------------------------------------------------
(* launchServer                                                            *)

_m_setListen ==
  /\ pc = "listen"
  /\ \/ /\ Free # {}
        /\ sock' = [sock EXCEPT ![LowestFree] = Ports[current]]
        /\ fds' = _m_addFd(LowestFree)
        /\ pc' = IF current = NPorts THEN "poll" ELSE "listen"
        /\ current' = current + 1
        /\ UNCHANGED <<con_map, due, quit, exited, lost, backlog, client, data, files>>
     \/ (Free = {} \/ "bind" \in Faults) /\ Stop
     \/ "push" \in Faults /\ Free # {} /\ Lose(LowestFree, Ports[current])
     \/ /\ "push" \in Faults /\ Free # {} /\ current = NPorts    \* _m_ports.assign
        /\ Restart(sock) /\ UNCHANGED lost

Readable(fd) == IF sock[fd] \in Port THEN backlog[fd] # <<>>
                ELSE data[sock[fd]] \/ client[sock[fd]] = "gone"

Reported(e, writable) ==
  {x \in e.events : \/ x = "POLLIN" /\ Readable(e.fd)
                    \/ x = "POLLOUT" /\ sock[e.fd] \in writable}

(* Bug: the quit flag is not tested. *)
PollReturnsAnyway == FALSE

(* Quit::set(), once poll has returned                                     *)
PollReturnsQuit == quit

(* poll returns when a descriptor is ready, after five seconds, or with    *)
(* EINTR, which only SIGINT causes.                                        *)
Poll ==
  /\ pc = "poll"
  /\ \/ PollReturnsQuit /\ Stop
     \/ /\ ~PollReturnsQuit
        /\ \E writable \in SUBSET Served :
             fds' = [i \in 1..Len(fds) |->
                       [fds[i] EXCEPT !.revents = Reported(fds[i], writable)]]
        /\ due' = {sock[fds[i].fd] :
                     i \in {j \in NPorts+1..Len(fds) : fds'[j].revents # {}}}
        /\ pc' = "accept" /\ current' = 1
        /\ UNCHANGED <<con_map, quit, exited, lost, kernelVars>>

NextListener ==
  /\ pc' = IF current = NPorts THEN "work" ELSE "accept"
  /\ current' = current + 1

(* accept: the first of the backlog gets the lowest descriptor.            *)
Accepted(listener, fd) ==
  /\ backlog' = [backlog EXCEPT ![listener] = Tail(@)]
  /\ sock' = [sock EXCEPT ![fd] = Head(backlog[listener])]
  /\ fds' = _m_addFd(fd)
  /\ con_map' = Put(fd, [Entry(fd) EXCEPT !.client = Head(backlog[listener]),
                                          !.event = "POLLIN"])

Accept ==
  /\ pc = "accept"
  /\ LET listener == fds[current].fd
         arrived  == "POLLIN" \in fds[current].revents /\ Free # {}
     IN  \/ /\ ~arrived
            /\ UNCHANGED <<fds, con_map, sock, backlog>>
            /\ NextListener
            /\ UNCHANGED <<due, quit, exited, lost, client, data, files>>
         \/ /\ arrived
            /\ Accepted(listener, LowestFree)
            /\ NextListener
            /\ UNCHANGED <<due, quit, exited, lost, client, data, files>>
         \/ /\ arrived /\ "push" \in Faults
            /\ Lose(LowestFree, Head(backlog[listener]))
         \/ /\ arrived /\ "memory" \in Faults        \* _m_con_map[] throws: the
            /\ Restart(sock) /\ UNCHANGED lost       \* new one is closed too

(* What a call of the worker may do: the event it returns, whether bytes   *)
(* remain to be received, and whether the connection has its files.        *)
WorkerResult(w, revents, event, more, made) ==
  /\ IF "POLLIN" \in revents /\ ~data[w.client] THEN event = "0"
     ELSE w.event \notin revents => event = w.event
  /\ more => data[w.client]
  /\ ~("POLLIN" \in revents /\ w.event = "POLLIN") =>
       more = data[w.client] /\ made = (w.client \in files)
  /\ w.client \in files => made

(* Bug: a connection that is to be closed is kept. *)
CloseNever(fd) ==
  /\ fds' = [fds EXCEPT ![current].events = {"0"}]
  /\ current' = current + 1
  /\ UNCHANGED <<sock, con_map, files>>

(* Bug: the connection stays in _m_con_map. *)
CloseKeepsState(fd) ==
  /\ sock' = [sock EXCEPT ![fd] = NoSock]
  /\ con_map' = con_map
  /\ fds' = RemoveAt(fds, current)
  /\ current' = current
  /\ files' = files \ {Entry(fd).client}

(* Bug: the index is not moved back, so the next entry is skipped. *)
CloseSkipsNext(fd) ==
  /\ sock' = [sock EXCEPT ![fd] = NoSock]
  /\ con_map' = Restrict(con_map, DOMAIN con_map \ {fd})
  /\ fds' = RemoveAt(fds, current)
  /\ current' = IF current > Len(fds) - 1 THEN current ELSE current + 1
  /\ files' = files \ {Entry(fd).client}

(* Bug: the temporary files are not removed. *)
CloseKeepsFiles(fd) ==
  /\ sock' = [sock EXCEPT ![fd] = NoSock]
  /\ con_map' = Restrict(con_map, DOMAIN con_map \ {fd})
  /\ fds' = RemoveAt(fds, current)
  /\ current' = current
  /\ files' = files

Close(fd) ==
  /\ sock' = [sock EXCEPT ![fd] = NoSock]
  /\ con_map' = Restrict(con_map, DOMAIN con_map \ {fd})
  /\ fds' = RemoveAt(fds, current)
  /\ current' = current
  /\ files' = files \ {Entry(fd).client}

(* Bug: only the event the worker waits for is polled. *)
EventsOnly(event) == {event}

(* cur->events = worker.event_set(), with POLLIN to detect closes          *)
Events(event) == {event, "POLLIN"}

Keep(fd, w, made) ==
  /\ con_map' = Put(fd, w)
  /\ fds' = [fds EXCEPT ![current].events = Events(w.event)]
  /\ current' = current + 1
  /\ files' = IF made THEN files \cup {w.client} ELSE files
  /\ UNCHANGED sock

CallWorker(e) ==
  LET w == Entry(e.fd)
  IN  /\ \E event \in Event \cup {"0"}, more, made \in BOOLEAN :
           /\ WorkerResult(w, e.revents, event, more, made)
           /\ data' = [data EXCEPT ![w.client] = more]
           /\ \/ event = "0" /\ Close(e.fd)
              \/ /\ event # "0"
                 /\ Keep(e.fd, [w EXCEPT !.event = event,
                                  !.bytes = IF w.event \in e.revents \cap {"POLLIN"}
                                            THEN sock[e.fd] ELSE @], made)
      /\ due' = due \ {w.client}
      /\ pc' = pc

Work ==
  /\ pc = "work" /\ current <= Len(fds)
  /\ \/ /\ fds[current].revents = {}
        /\ current' = current + 1
        /\ UNCHANGED <<pc, fds, con_map, due, quit, exited, lost, kernelVars>>
     \/ /\ fds[current].revents # {}
        /\ CallWorker(fds[current])
        /\ UNCHANGED <<quit, exited, lost, backlog, client>>
     \/ /\ fds[current].revents # {}
        /\ "memory" \in Faults                       \* the worker throws bad_alloc
        /\ Restart(sock) /\ UNCHANGED lost

NextIteration ==
  /\ pc = "work" /\ current > Len(fds)
  /\ pc' = "poll"
  /\ UNCHANGED <<current, fds, con_map, due, quit, exited, lost, kernelVars>>

Loop == _m_setListen \/ Poll \/ Accept \/ Work \/ NextIteration

-----------------------------------------------------------------------------
(* The environment                                                         *)

(* sighook_quit: the first SIGINT sets the flag, the second ends the       *)
(* process there and then.                                                 *)
Interrupt ==
  /\ pc # "ended"
  /\ \/ /\ ~quit
        /\ quit' = TRUE
        /\ UNCHANGED <<loopVars, exited, lost, kernelVars>>
     \/ /\ quit
        /\ exited' = TRUE
        /\ pc' = "ended" /\ current' = 1
        /\ fds' = <<>> /\ con_map' = <<>> /\ due' = {}
        /\ sock' = [fd \in Fd |-> NoSock] /\ lost' = {}
        /\ ResetBacklog(Fd)
        /\ UNCHANGED <<quit, data, files>>

(* With SO_REUSEPORT any listener of the port may get the connection, also *)
(* one that nobody polls.                                                  *)
Connect(c) ==
  /\ client[c] = "idle"
  /\ \E fd \in {listener \in Fd : sock[listener] \in Port} :
       backlog' = [backlog EXCEPT ![fd] = Append(@, c)]
  /\ client' = [client EXCEPT ![c] = "open"]
  /\ UNCHANGED <<loopVars, quit, exited, lost, sock, data, files>>

Send(c) ==
  /\ client[c] = "open" /\ pc # "ended"
  /\ data' = [data EXCEPT ![c] = TRUE]
  /\ UNCHANGED <<loopVars, quit, exited, lost, sock, backlog, client, files>>

Leave(c) ==
  /\ client[c] = "open" /\ pc # "ended"
  /\ client' = [client EXCEPT ![c] = "gone"]
  /\ UNCHANGED <<loopVars, quit, exited, lost, sock, backlog, data, files>>

-----------------------------------------------------------------------------
Init ==
  /\ pc = "listen" /\ current = 1
  /\ fds = <<>> /\ con_map = <<>>
  /\ quit = FALSE /\ exited = FALSE
  /\ sock = [fd \in Fd |-> NoSock]
  /\ backlog = [fd \in Fd |-> <<>>]
  /\ client = [c \in Clients |-> "idle"]
  /\ data = [c \in Clients |-> FALSE]
  /\ files = {} /\ due = {} /\ lost = {}

Next == Loop \/ Interrupt \/ \E c \in Clients : Connect(c) \/ Send(c) \/ Leave(c)

Spec == Init /\ [][Next]_vars

(* The loop runs: poll returns after five seconds at the latest.           *)
FairSpec == Spec /\ WF_vars(Loop)

-----------------------------------------------------------------------------
(* Properties                                                              *)

TypeOK ==
  /\ pc \in {"listen", "poll", "accept", "work", "ended"}
  /\ current \in Nat \ {0}
  /\ fds \in Seq(PollFd)
  /\ DOMAIN con_map \subseteq Fd
  /\ \A fd \in DOMAIN con_map : con_map[fd] \in Worker
  /\ quit \in BOOLEAN /\ exited \in BOOLEAN
  /\ sock \in [Fd -> Clients \cup Port \cup {NoSock}]
  /\ backlog \in [Fd -> Seq(Clients)]
  /\ client \in [Clients -> {"idle", "open", "gone"}]
  /\ data \in [Clients -> BOOLEAN]
  /\ files \subseteq Clients /\ due \subseteq Clients /\ lost \subseteq Fd

Listeners   == {fds[i].fd : i \in 1..Len(fds) \cap 1..NPorts}
Connections == {fds[i].fd : i \in NPorts+1..Len(fds)}

(* The three tables of the server agree at every step, also over restarts: *)
(* a descriptor is open exactly when _m_fds has it, once, or it is lost:   *)
(* one that socket or accept had returned when adding it to _m_fds ran out *)
(* of memory, which then stays open, a listener among them (Server.cpp:60  *)
(* and 96); it has a ConState exactly when it is a connection; and that    *)
(* ConState is its client's and has bytes of no other, although            *)
(* descriptors are reused.                                                 *)
ConnectionsMatch ==
  /\ \A i, j \in 1..Len(fds) : fds[i].fd = fds[j].fd => i = j
  /\ Listeners \cup Connections \cup lost = {fd \in Fd : sock[fd] # NoSock}
  /\ lost \cap (Listeners \cup Connections) = {}
  /\ Connections = DOMAIN con_map
  /\ \A fd \in DOMAIN con_map : /\ con_map[fd].client = sock[fd]
                                /\ con_map[fd].bytes \in {NoSock, sock[fd]}

(* In every iteration the worker of each connection that poll reported is  *)
(* called once, with what poll reported of that very connection, although  *)
(* the table shrinks while it is walked.                                   *)
ReadyServed ==
  /\ pc = "work" =>
       due = {sock[fds[i].fd] : i \in {j \in current..Len(fds) : fds[j].revents # {}}}
  /\ pc = "poll" => due = {}

(* Temporary files belong to a connection: they go when it is closed, and  *)
(* when the server restarts or stops, unless the signal hook ends it.      *)
FilesHaveConnection == ~exited => files \subseteq Served

(* A SIGINT ends the server, wherever the loop is when it arrives.         *)
QuitStops == quit ~> pc = "ended"

(* The connection of a client that has left, with nothing more to receive, *)
(* is closed, whatever it is waiting for.                                  *)
GoneIsClosed ==
  \A c \in Clients :
    client[c] = "gone" /\ ~data[c] ~> \A fd \in Fd : sock[fd] # c
=============================================================================
