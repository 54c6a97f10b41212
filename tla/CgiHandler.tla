------------------------------ MODULE CgiHandler ------------------------------
(***************************************************************************)
(* The CgiHandlers of the connections of a server, the temporary files     *)
(* they name, and the processes they fork: setFilename, openFile, run with *)
(* _launch in the child, waitChild and the destructor, a system call of a  *)
(* child at a time.  A file is known by the requests that wrote it.        *)
(*                                                                         *)
(* A definition whose comment starts with "Bug:" is the faulty variant of  *)
(* the one below it; no action uses it.                                    *)
(***************************************************************************)
EXTENDS Integers, FiniteSets

CONSTANTS
  Conns,         \* the connections
  Names,         \* indices of the temporary names
  LeftNames,     \* names taken by the files of a server that was killed
  LeftPages,     \* names whose file of the page was left, and it alone
  Pids,          \* process ids
  Other,         \* a writer or a process that is not this server's
  None,          \* no name, _pid == -1, no process, no file
  MaxRequests,   \* bound on the requests of a connection
  CatchesTerm,   \* scripts may go on after SIGTERM
  Faults         \* what may fail: "access", "open", "exec" and "fork", of run,
                 \* "create": the server's own opening of a temporary file

(* The request a script is run for, or someone else                        *)
Writer == Conns \X (1..MaxRequests) \cup {Other}

(* A process: how far it has got (_launch, the script, the end), whom it   *)
(* runs for, the temporary name it was given, the one whose file it has as *)
(* output, and whether it was sent SIGTERM                                 *)
Process == [at : {"forked", "opened", "ready", "script", "exited", "signaled"},
            by : Writer, name : Names \cup {None}, out : Names \cup {None},
            term : BOOLEAN]

ASSUME CgiAssumption ==
  /\ Names \subseteq Nat
  /\ LeftNames \subseteq Names /\ LeftPages \subseteq Names
  /\ MaxRequests \in Nat /\ CatchesTerm \in BOOLEAN
  /\ None \notin Names \cup Pids \cup Process
  /\ \A written \in SUBSET Writer : written # None
  /\ Other \notin Conns \X (0..MaxRequests)

VARIABLES
  conn,      \* the connections, and their CgiHandler's _fileBuf and _pid
  inFile,    \* inFile[n]: who wrote /tmp/webserv_tmpFile_n, or None
  outFile,   \* outFile[n]: who wrote /tmp/webserv_tmpFile_n_exec, or None
  proc,      \* proc[p]: the process p, running or not waited for, or None
  page,      \* page[c]: the CGI page last answered, the request it answers,
             \* whether the child that was waited for had opened its output,
             \* and whether its name was created
  uncreated  \* observer: the names that were taken without creating their
             \* file, as long as a connection has them

vars == <<conn, inFile, outFile, proc, page, uncreated>>

NoConn == [phase |-> "none", name |-> None, pid |-> None, req |-> 0,
           posted |-> FALSE]
Running(p) == proc[p] # None /\ proc[p].at \notin {"exited", "signaled"}
Ended(p)   == proc[p] # None /\ proc[p].at \in {"exited", "signaled"}

Init ==
  /\ conn = [c \in Conns |-> NoConn]
  /\ inFile = [n \in Names |-> IF n \in LeftNames THEN {Other} ELSE None]
  /\ outFile = [n \in Names |->
                  IF n \in LeftNames \cup LeftPages THEN {Other} ELSE None]
  /\ proc = [p \in Pids |-> None]
  /\ page = [c \in Conns |-> [req |-> 0, by |-> {}, opened |-> FALSE, made |-> FALSE]]
  /\ uncreated = {}

-----------------------------------------------------------------------------
(* The files                                                               *)

FreeNames == {n \in Names : inFile[n] = None}

FirstFree == CHOOSE n \in FreeNames : \A m \in FreeNames : n <= m

(* The file is created, or it is not and nobody looks.                     *)
CreatesName(n) ==
  \/ inFile' = [inFile EXCEPT ![n] = {}] /\ UNCHANGED uncreated
  \/ "create" \in Faults /\ uncreated' = uncreated \cup {n} /\ UNCHANGED inFile

(* A connection is accepted and its first Host header is read: setFilename *)
(* takes the first name no file has, by creating it.                       *)
setFilename(c) ==
  /\ conn[c].phase = "none" /\ conn[c].req < MaxRequests
  /\ \/ /\ FreeNames # {}
        /\ conn' = [conn EXCEPT ![c].phase = "idle", ![c].name = FirstFree]
        /\ CreatesName(FirstFree)
     \/ /\ FreeNames = {}                                 \* HttpError(500)
        /\ conn' = [conn EXCEPT ![c].phase = "closing"]
        /\ UNCHANGED <<inFile, uncreated>>
  /\ UNCHANGED <<outFile, proc, page>>

(* Bug: only the file of the page is removed. *)
RmPageFile(c) ==
  /\ UNCHANGED inFile
  /\ outFile' = IF conn[c].name = None THEN outFile
                ELSE [outFile EXCEPT ![conn[c].name] = None]

(* remove both files                                                       *)
rmFile(c) ==
  IF conn[c].name = None THEN UNCHANGED <<inFile, outFile>>
  ELSE /\ inFile' = [inFile EXCEPT ![conn[c].name] = None]
       /\ outFile' = [outFile EXCEPT ![conn[c].name] = None]

-----------------------------------------------------------------------------
(* run: the parent's side                                                  *)

(* kill(_pid, SIGTERM)                                                     *)
Killed(p) == IF proc[p] = None THEN proc ELSE [proc EXCEPT ![p].term = TRUE]
KilledChild(c) == IF conn[c].pid = None THEN proc ELSE Killed(conn[c].pid)

Forked(c) == [at |-> "forked", by |-> <<c, conn[c].req + 1>>,
              name |-> conn[c].name, out |-> None, term |-> FALSE]

(* HttpError(500): the connection is kept if a body has been read to its   *)
(* end on it.                                                              *)
Refused(posted) == IF posted THEN "idle" ELSE "closing"

(* openFile(0), and the body of the request written to the file            *)
openFile(c) == inFile' = [inFile EXCEPT ![conn[c].name] = {<<c, conn[c].req + 1>>}]

(* A request for a script: openFile(0) and the body, if it is a POST, then *)
(* run(), in which access or fork may fail.                                *)
Run(c, post) ==
  /\ conn[c].phase = "idle" /\ conn[c].req < MaxRequests
  /\ IF post THEN openFile(c) ELSE UNCHANGED inFile
  /\ LET asked == [conn[c] EXCEPT !.req = @ + 1, !.posted = @ \/ post]
     IN  \/ \E p \in Pids :
              /\ proc[p] = None
              /\ proc' = [KilledChild(c) EXCEPT ![p] = Forked(c)]
              /\ conn' = [conn EXCEPT ![c] =
                            [asked EXCEPT !.pid = p, !.phase = "waiting"]]
         \/ /\ "fork" \in Faults \/ \A p \in Pids : proc[p] # None
            /\ proc' = KilledChild(c)
            /\ conn' = [conn EXCEPT ![c] =
                 [asked EXCEPT !.pid = None, !.phase = Refused(asked.posted)]]
  /\ UNCHANGED <<outFile, page, uncreated>>

(* openFile(0) fails: HttpError(500), with the body still to be read.      *)
NotOpened(c) ==
  /\ conn[c].phase = "idle" /\ "create" \in Faults
  /\ conn' = [conn EXCEPT ![c].phase = "closing"]
  /\ UNCHANGED <<inFile, outFile, proc, page, uncreated>>

-----------------------------------------------------------------------------
(* _launch: the child's side, then the script's                            *)

(* SIGTERM ends a process that does not catch it before its next step.     *)
Lives(p) == ~proc[p].term \/ (proc[p].at = "script" /\ CatchesTerm)

Step(p, from) == Running(p) /\ proc[p].at = from /\ Lives(p)
Goes(p, to) == proc' = [proc EXCEPT ![p].at = to]

(* access(path, X_OK), open(_fileBuf, O_RDONLY)                            *)
OpenInput(p) ==
  /\ Step(p, "forked")
  /\ \/ inFile[proc[p].name] # None /\ Goes(p, "opened")
     \/ ("access" \in Faults \/ inFile[proc[p].name] = None) /\ Goes(p, "exited")
  /\ UNCHANGED <<conn, inFile, outFile, page, uncreated>>

(* Bug: the output is opened without O_TRUNC. *)
KeepOutput(n) == outFile' = [outFile EXCEPT ![n] = IF @ = None THEN {} ELSE @]

(* O_CREAT | O_TRUNC                                                       *)
TruncateOutput(n) == outFile' = [outFile EXCEPT ![n] = {}]

(* open(_fileExec)                                                         *)
OpenOutput(p) ==
  /\ Step(p, "opened")
  /\ \/ /\ TruncateOutput(proc[p].name)
        /\ proc' = [proc EXCEPT ![p].at = "ready", ![p].out = proc[p].name]
     \/ "open" \in Faults /\ Goes(p, "exited") /\ UNCHANGED outFile
  /\ UNCHANGED <<conn, inFile, page, uncreated>>

(* dup2, chdir, execve                                                     *)
Exec(p) ==
  /\ Step(p, "ready")
  /\ Goes(p, "script") \/ ("exec" \in Faults /\ Goes(p, "exited"))
  /\ UNCHANGED <<conn, inFile, outFile, page, uncreated>>

ScriptWrites(p) ==
  /\ Step(p, "script") /\ proc[p].out # None
  /\ outFile' = [outFile EXCEPT ![proc[p].out] = @ \cup {proc[p].by}]
  /\ UNCHANGED <<conn, inFile, proc, page, uncreated>>

ScriptEnds(p) ==
  /\ Step(p, "script")
  /\ IF proc[p].by = Other THEN proc' = [proc EXCEPT ![p] = None]
     ELSE Goes(p, "exited") \/ Goes(p, "signaled")
  /\ UNCHANGED <<conn, inFile, outFile, page, uncreated>>

Terminated(p) ==
  /\ Running(p) /\ proc[p].term
  /\ Goes(p, "signaled")
  /\ UNCHANGED <<conn, inFile, outFile, page, uncreated>>

(* The system gives a free pid to a process of someone else.               *)
OtherStarts(p) ==
  /\ proc[p] = None
  /\ proc' = [proc EXCEPT ![p] = [at |-> "script", by |-> Other, name |-> None,
                                  out |-> None, term |-> FALSE]]
  /\ UNCHANGED <<conn, inFile, outFile, page, uncreated>>

-----------------------------------------------------------------------------
(* waitChild, _prepare_cgi_page and the destructor                         *)

(* Bug: _pid is kept when the child has been waited for. *)
WaitedKeepsPid(c, phase) == conn' = [conn EXCEPT ![c].phase = phase]

(* _pid = -1                                                               *)
Waited(c, phase) == conn' = [conn EXCEPT ![c].phase = phase, ![c].pid = None]

(* The child is still running, and CGI_TIMEOUT seconds of the server's own *)
(* processor time, however little of the clock's, have gone by.            *)
WaitTimesOut(c) ==
  /\ conn[c].phase = "waiting" /\ ~Ended(conn[c].pid)
  /\ proc' = Killed(conn[c].pid)
  /\ Waited(c, Refused(conn[c].posted))
  /\ UNCHANGED <<inFile, outFile, page, uncreated>>

(* Bug: a child that was signaled is not waited for. *)
ReapExited(p) ==
  proc' = IF proc[p].at = "exited" THEN [proc EXCEPT ![p] = None] ELSE proc

(* waitpid returns the child                                               *)
Reap(p) == proc' = [proc EXCEPT ![p] = None]

(* A child that exited is taken to have written the page, whatever its     *)
(* exit status.                                                            *)
WaitReturns(c) ==
  /\ conn[c].phase = "waiting" /\ Ended(conn[c].pid)
  /\ Reap(conn[c].pid)
  /\ LET written == IF proc[conn[c].pid].at = "exited" THEN outFile[conn[c].name]
                    ELSE None
     IN  \/ /\ written \notin {None, {}}
            /\ page' = [page EXCEPT ![c] =
                          [req |-> conn[c].req, by |-> written,
                           opened |-> proc[conn[c].pid].out # None,
                           made |-> conn[c].name \notin uncreated]]
            /\ Waited(c, "idle")
         \/ /\ written \in {None, {}}
            /\ Waited(c, Refused(conn[c].posted))
            /\ UNCHANGED page
  /\ UNCHANGED <<inFile, outFile, uncreated>>

(* ~CgiHandler, when the connection is closed, at any time                 *)
Destroy(c) ==
  /\ conn[c].phase # "none"
  /\ proc' = [p \in Pids |->
       IF proc[p] # None /\ conn[c].name # None /\ proc[p].out = conn[c].name
       THEN [KilledChild(c)[p] EXCEPT !.out = None]    \* it writes on, unseen
       ELSE KilledChild(c)[p]]
  /\ rmFile(c)
  /\ conn' = [conn EXCEPT ![c] = [NoConn EXCEPT !.req = conn[c].req]]
  /\ uncreated' = uncreated \cap {conn[d].name : d \in Conns \ {c}}
  /\ UNCHANGED page

Next ==
  \/ \E c \in Conns :
       \/ setFilename(c) \/ NotOpened(c)
       \/ WaitTimesOut(c) \/ WaitReturns(c) \/ Destroy(c)
       \/ \E post \in BOOLEAN : Run(c, post)
  \/ \E p \in Pids :
       \/ OpenInput(p) \/ OpenOutput(p) \/ Exec(p) \/ ScriptWrites(p)
       \/ ScriptEnds(p) \/ Terminated(p) \/ OtherStarts(p)

Spec == Init /\ [][Next]_vars

-----------------------------------------------------------------------------
(* Properties                                                              *)

(* A signal only ever goes to a process the connection forked and has not  *)
(* waited for yet, never to the one the system has since given the same    *)
(* pid (CgiHandler.cpp:50, 188 and 206).                                   *)
KillsOwnChild ==
  [][\A p \in Pids :
       (proc[p] # None /\ proc'[p] # None /\ ~proc[p].term /\ proc'[p].term) =>
         \E c \in Conns : conn[c].pid = p /\ proc[p].by = <<c, conn[c].req>>]_vars

(* Every temporary file is that of one of the 2000 names a live connection *)
(* holds, or a killed server left it.  Each has its file and one holder,   *)
(* unless it was once taken without creating the file, which setFilename   *)
(* does not look at (CgiHandler.cpp:326): then connections may share it,   *)
(* until the last of them is closed (CgiHandler.cpp:314 and 123).          *)
NamesMatch ==
  LET named == {c \in Conns : conn[c].name # None}
      taken == LeftNames \cup {conn[c].name : c \in named}
      files == {n \in Names : inFile[n] # None}
  IN  /\ taken \ uncreated \subseteq files /\ files \subseteq taken
      /\ uncreated \subseteq taken \ LeftNames
      /\ \A c, d \in named :
           conn[c].name = conn[d].name => c = d \/ conn[c].name \in uncreated
      /\ \A c \in named : conn[c].name \notin LeftNames

(* A child that has ended and that nobody will wait for any more is one    *)
(* that kill was called for, on a timeout or by the destructor: no other   *)
(* becomes a zombie for the life of the server (CgiHandler.cpp:188).       *)
OnlyKilledChildrenLeak ==
  \A p \in Pids :
    Ended(p) => proc[p].term \/ \E c \in Conns : conn[c].pid = p

(* A CGI page is all the work of the script that was run for the request   *)
(* it answers, once its child has got as far as opening its output, and    *)
(* where scripts do not outlive SIGTERM and the connection's temporary     *)
(* file was created: none of it comes from an earlier request of the       *)
(* connection, from another connection, from a script that was given up,   *)
(* or from a file found in /tmp (CgiHandler.cpp:242).                      *)
PageIsOwn ==
  ~CatchesTerm => \A c \in Conns :
    page[c].opened /\ page[c].made => page[c].by \subseteq {<<c, page[c].req>>}
=============================================================================
