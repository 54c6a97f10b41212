-------------------------- MODULE CgiHandlerProofs --------------------------
(***************************************************************************)
(* The CgiHandlers of a server, for every number of connections, of names  *)
(* and of pids, whatever a killed server left and whatever fails: a        *)
(* connection and its child know each other exactly while the connection   *)
(* waits, signals reach no other process, a name whose file was created is *)
(* held once, only killed children are not waited for, and a page is its   *)
(* own script's.                                                           *)
(*                                                                         *)
(* None of these is inductive alone.  That a signal goes to the            *)
(* connection's child needs the pid to be forgotten as soon as the child   *)
(* has been waited for; that nobody else writes a page needs the name not  *)
(* to be shared, and every process that still runs to be waited for.       *)
(***************************************************************************)
EXTENDS CgiHandler, TLAPS, WellFoundedInduction

Connection == [phase : {"none", "idle", "waiting", "closing"},
               name : Names \cup {None}, pid : Pids \cup {None},
               req : 0..MaxRequests, posted : BOOLEAN]

TypeOK ==
  /\ conn \in [Conns -> Connection]
  /\ inFile \in [Names -> (SUBSET Writer) \cup {None}]
  /\ outFile \in [Names -> (SUBSET Writer) \cup {None}]
  /\ proc \in [Pids -> Process \cup {None}]
  /\ page \in [Conns -> [req : 0..MaxRequests, by : SUBSET Writer,
                         opened : BOOLEAN, made : BOOLEAN]]
  /\ uncreated \in SUBSET Names

(* A connection has a name from its first request to its end. *)
Named ==
  \A c \in Conns : /\ conn[c].phase = "none" => conn[c].name = None
                   /\ conn[c].phase \in {"idle", "waiting"} => conn[c].name # None

(* A connection has a pid exactly while it waits, and it is that of a
   process it forked for this request and has not killed. *)
WaitsForOwn ==
  \A c \in Conns :
    /\ conn[c].phase = "waiting" <=> conn[c].pid # None
    /\ conn[c].pid # None =>
         /\ proc[conn[c].pid] # None
         /\ proc[conn[c].pid].by = <<c, conn[c].req>>
         /\ proc[conn[c].pid].name = conn[c].name
         /\ ~proc[conn[c].pid].term

(* Every process is waited for, has been killed, or is somebody else's. *)
Watched ==
  \A p \in Pids : proc[p] # None =>
    \/ proc[p].term
    \/ \E c \in Conns : conn[c].pid = p
    \/ proc[p].by = Other /\ proc[p].at = "script" /\ proc[p].out = None

(* The file a process has as output is there. *)
OutputsExist ==
  \A p \in Pids : proc[p] # None /\ proc[p].out # None => outFile[proc[p].out] # None

IInv == TypeOK /\ Named /\ WaitsForOwn /\ Watched /\ OutputsExist /\ NamesMatch

LEMMA Constants ==
  /\ MaxRequests \in Nat /\ None \notin Names /\ None \notin Pids
  /\ None \notin Process /\ {} # None
  /\ LeftNames \subseteq Names /\ LeftPages \subseteq Names /\ Names \subseteq Nat
  /\ Other \in Writer /\ \A written \in SUBSET Writer : written # None
  BY CgiAssumption DEF Writer

LEMMA InitInv == Init => IInv
<1> SUFFICES ASSUME Init PROVE IInv
  OBVIOUS
<1> USE Constants DEF Init, NoConn
<1>1. TypeOK
  BY DEF TypeOK, Connection
<1>2. Named /\ WaitsForOwn
  BY DEF Named, WaitsForOwn
<1>3. Watched /\ OutputsExist
  BY DEF Watched, OutputsExist
<1>4. NamesMatch
  <2>1. \A n \in Names : inFile[n] # None <=> n \in LeftNames
    BY DEF Writer
  <2> QED
    BY <2>1 DEF NamesMatch
<1> QED
  BY <1>1, <1>2, <1>3, <1>4 DEF IInv

(* The name setFilename takes is free: there is a least free one. *)
LEMMA LeastName ==
  ASSUME IInv, FreeNames # {}
  PROVE  FirstFree \in FreeNames
<1>1. FreeNames \subseteq Nat
  BY Constants DEF FreeNames
<1>2. \E n \in FreeNames : \A m \in FreeNames : ~(<<m, n>> \in OpToRel(<, Nat))
  BY <1>1, WFMin, NatLessThanWellFounded
<1>3. \E n \in FreeNames : \A m \in FreeNames : n <= m
  <2>1. PICK n \in FreeNames : \A m \in FreeNames : ~(<<m, n>> \in OpToRel(<, Nat))
    BY <1>2
  <2>2. ASSUME NEW m \in FreeNames
        PROVE  n <= m
    <3>1. /\ <<m, n>> \in Nat \X Nat /\ m \in Nat /\ n \in Nat
          /\ <<m, n>>[1] = m /\ <<m, n>>[2] = n
      BY <1>1
    <3>2. ~(<<m, n>>[1] < <<m, n>>[2])
      BY <2>1, <3>1, Zenon DEF OpToRel
    <3> QED
      BY <3>1, <3>2
  <2> QED
    BY <2>2
<1> QED
  BY <1>3 DEF FirstFree

-----------------------------------------------------------------------------
(* The connections                                                         *)

LEMMA SetFilenameStep ==
  ASSUME IInv, NEW c \in Conns, setFilename(c)
  PROVE  IInv'
<1> USE Constants DEF IInv
<1>0. conn[c].pid = None /\ conn[c].name = None
  BY DEF setFilename, Named, WaitsForOwn
<1>1. CASE FreeNames # {}
  <2> DEFINE n == FirstFree
  <2>0. n \in FreeNames
    BY <1>1, LeastName
  <2>1. /\ n \in Names /\ inFile[n] = None
        /\ conn' = [conn EXCEPT ![c].phase = "idle", ![c].name = n]
        /\ CreatesName(n)
        /\ UNCHANGED <<outFile, proc, page>>
    BY <1>1, <2>0 DEF FreeNames, setFilename
  <2> HIDE DEF n
  <2>2. TypeOK'
    <3>1. conn[c] \in Connection
      BY DEF TypeOK
    <3>2. [conn[c] EXCEPT !.phase = "idle", !.name = n] \in Connection
      BY <2>1, <3>1 DEF Connection
    <3>3. conn' \in [Conns -> Connection]
      BY <2>1, <3>2 DEF TypeOK
    <3>4. /\ inFile' \in [Names -> (SUBSET Writer) \cup {None}]
          /\ uncreated' \in SUBSET Names
      BY <2>1 DEF CreatesName, TypeOK
    <3> QED
      BY <2>1, <3>3, <3>4 DEF TypeOK
  <2>3. Named' /\ WaitsForOwn'
    BY <1>0, <2>1 DEF Named, WaitsForOwn, TypeOK, Connection
  <2>4. Watched' /\ OutputsExist'
    BY <1>0, <2>1 DEF Watched, OutputsExist, TypeOK, Connection
  <2>5. NamesMatch'
    <3> DEFINE named == {d \in Conns : conn[d].name # None}
    <3>1. conn'[c].name = n /\ \A d \in Conns \ {c} : conn'[d] = conn[d]
      BY <2>1 DEF TypeOK, Connection
    <3>2. named' = named \cup {c} /\ c \notin named
      BY <1>0, <2>1, <3>1
    <3>3. {conn'[d].name : d \in named'} = {conn[d].name : d \in named} \cup {n}
      BY <3>1, <3>2
    <3>4. n \notin LeftNames
      BY <2>1 DEF NamesMatch
    <3>5. \A d \in named : conn[d].name = n => n \in uncreated
      BY <2>1 DEF NamesMatch
    <3>6. CASE inFile' = [inFile EXCEPT ![n] = {}] /\ UNCHANGED uncreated
      <4>1. {m \in Names : inFile'[m] # None} = {m \in Names : inFile[m] # None} \cup {n}
        BY <2>1, <3>6 DEF TypeOK
      <4> QED
        BY <3>1, <3>2, <3>3, <3>4, <3>5, <3>6, <4>1 DEF NamesMatch
    <3>7. CASE uncreated' = uncreated \cup {n} /\ UNCHANGED inFile
      BY <3>1, <3>2, <3>3, <3>4, <3>5, <3>7 DEF NamesMatch
    <3> QED
      BY <2>1, <3>6, <3>7 DEF CreatesName
  <2> QED
    BY <2>2, <2>3, <2>4, <2>5
<1>2. CASE /\ conn' = [conn EXCEPT ![c].phase = "closing"]
           /\ UNCHANGED <<inFile, outFile, proc, page, uncreated>>
  <2>2. TypeOK'
    <3>1. conn[c] \in Connection
      BY DEF TypeOK
    <3>2. [conn[c] EXCEPT !.phase = "closing"] \in Connection
      BY <3>1 DEF Connection
    <3>3. conn' \in [Conns -> Connection]
      BY <1>2, <3>2 DEF TypeOK
    <3> QED
      BY <1>2, <3>3 DEF TypeOK
  <2>3. Named' /\ WaitsForOwn'
    BY <1>0, <1>2 DEF Named, WaitsForOwn, TypeOK, Connection
  <2>4. Watched' /\ OutputsExist'
    BY <1>0, <1>2 DEF Watched, OutputsExist, TypeOK, Connection
  <2>5. NamesMatch'
    BY <1>0, <1>2 DEF NamesMatch, TypeOK, Connection
  <2> QED
    BY <2>2, <2>3, <2>4, <2>5
<1> QED
  BY <1>1, <1>2 DEF setFilename

(* Names are as they were when every file is, and every connection's name;
   a connection may create the file of its own. *)
LEMMA SameNames ==
  ASSUME NamesMatch, \A n \in Names : inFile[n] # None => inFile'[n] # None,
         \A n \in Names : inFile'[n] # None =>
           inFile[n] # None \/ \E c \in Conns : conn[c].name = n,
         \A c \in Conns : conn'[c].name = conn[c].name,
         uncreated' = uncreated
  PROVE  NamesMatch'
<1> DEFINE named == {c \in Conns : conn[c].name # None}
           files == {n \in Names : inFile[n] # None}
<1>1. named' = named
  OBVIOUS
<1>2. /\ files \subseteq files'
      /\ files' \subseteq files \cup {conn[c].name : c \in named}
  BY Constants
<1>3. {conn'[c].name : c \in named} = {conn[c].name : c \in named}
  OBVIOUS
<1> QED
  BY <1>1, <1>2, <1>3 DEF NamesMatch

(* A connection that is not waiting has no pid, so that kill is not called. *)
LEMMA NobodyToKill ==
  ASSUME IInv, NEW c \in Conns, conn[c].phase # "waiting"
  PROVE  conn[c].pid = None /\ KilledChild(c) = proc
  BY DEF IInv, WaitsForOwn, KilledChild

LEMMA RunStep ==
  ASSUME IInv, NEW c \in Conns, NEW post \in BOOLEAN, Run(c, post)
  PROVE  IInv'
<1> USE Constants DEF IInv
<1> DEFINE asked == [conn[c] EXCEPT !.req = @ + 1, !.posted = @ \/ post]
<1>1. /\ conn[c] \in Connection /\ conn[c].phase = "idle" /\ conn[c].req < MaxRequests
      /\ conn[c].name \in Names /\ conn[c].pid = None /\ KilledChild(c) = proc
  <2>1. conn[c] \in Connection /\ conn[c].phase = "idle" /\ conn[c].req < MaxRequests
    BY DEF Run, TypeOK
  <2>2. conn[c].name \in Names
    BY <2>1 DEF Named, Connection
  <2> QED
    BY <2>1, <2>2, NobodyToKill
<1>2. /\ <<c, conn[c].req + 1>> \in Writer
      /\ conn[c].req + 1 \in 0..MaxRequests /\ (conn[c].posted \/ post) \in BOOLEAN
  <2>1. conn[c].req \in 0..MaxRequests
    BY <1>1 DEF Connection
  <2> QED
    BY <1>1, <2>1 DEF Writer
<1>3. asked \in Connection /\ asked.name = conn[c].name /\ asked.req = conn[c].req + 1
  BY <1>1, <1>2 DEF Connection
<1>4. /\ inFile' \in [Names -> (SUBSET Writer) \cup {None}]
      /\ \A n \in Names : inFile[n] # None => inFile'[n] # None
      /\ \A n \in Names \ {conn[c].name} : inFile'[n] = inFile[n]
  <2>1. CASE inFile' = inFile
    BY <2>1 DEF TypeOK
  <2>2. CASE openFile(c)
    <3>1. {<<c, conn[c].req + 1>>} # None
      BY <1>2
    <3> QED
      BY <1>1, <1>2, <2>2, <3>1 DEF openFile, TypeOK
  <2> QED
    BY <2>1, <2>2 DEF Run
<1>5. outFile' = outFile /\ page' = page /\ uncreated' = uncreated
  BY DEF Run
<1> HIDE DEF asked
<1>6. ASSUME NEW p \in Pids, proc[p] = None, proc' = [proc EXCEPT ![p] = Forked(c)],
             conn' = [conn EXCEPT ![c] = [asked EXCEPT !.pid = p, !.phase = "waiting"]]
      PROVE  IInv'
  <2>1. /\ Forked(c) \in Process /\ Forked(c).by = <<c, conn[c].req + 1>>
        /\ Forked(c).out = None /\ ~Forked(c).term /\ Forked(c).name = conn[c].name
    BY <1>1, <1>2 DEF Forked, Process
  <2>2. /\ conn'[c] \in Connection /\ conn'[c].pid = p /\ conn'[c].phase = "waiting"
        /\ conn'[c].name = conn[c].name /\ conn'[c].req = conn[c].req + 1
        /\ conn' \in [Conns -> Connection]
        /\ \A d \in Conns \ {c} : conn'[d] = conn[d]
    <3>1. LET forked == [asked EXCEPT !.pid = p, !.phase = "waiting"]
          IN  /\ forked \in Connection /\ forked.pid = p /\ forked.phase = "waiting"
              /\ forked.name = conn[c].name /\ forked.req = conn[c].req + 1
      BY <1>3 DEF Connection
    <3> QED
      BY <1>6, <3>1 DEF TypeOK
  <2>3. proc' \in [Pids -> Process \cup {None}] /\ proc'[p] = Forked(c) /\ proc'[p] # None
        /\ \A q \in Pids \ {p} : proc'[q] = proc[q]
    BY <1>6, <2>1 DEF TypeOK
  <2>4. TypeOK'
    BY <1>4, <1>5, <2>2, <2>3 DEF TypeOK
  <2>5. Named'
    BY <1>1, <2>2 DEF Named
  <2>6. WaitsForOwn'
    BY <1>6, <2>1, <2>2, <2>3 DEF WaitsForOwn, TypeOK, Connection
  <2>7. Watched'
    BY <1>1, <1>6, <2>2, <2>3 DEF Watched
  <2>8. OutputsExist'
    BY <1>5, <2>1, <2>3 DEF OutputsExist
  <2>9. NamesMatch'
    BY <1>4, <1>5, <2>2, SameNames
  <2> QED
    BY <2>4, <2>5, <2>6, <2>7, <2>8, <2>9
<1>7. ASSUME proc' = proc,
             conn' = [conn EXCEPT ![c] =
                        [asked EXCEPT !.pid = None, !.phase = Refused(asked.posted)]]
      PROVE  IInv'
  <2>2. /\ conn'[c] \in Connection /\ conn'[c].pid = None
        /\ conn'[c].phase \in {"idle", "closing"}
        /\ conn'[c].name = conn[c].name /\ conn' \in [Conns -> Connection]
        /\ \A d \in Conns \ {c} : conn'[d] = conn[d]
    <3>1. Refused(asked.posted) \in {"idle", "closing"}
      BY DEF Refused
    <3>2. LET left == [asked EXCEPT !.pid = None, !.phase = Refused(asked.posted)]
          IN  /\ left \in Connection /\ left.pid = None
              /\ left.phase \in {"idle", "closing"} /\ left.name = conn[c].name
      BY <1>3, <3>1 DEF Connection
    <3> QED
      BY <1>7, <3>2 DEF TypeOK
  <2>4. TypeOK'
    BY <1>4, <1>5, <1>7, <2>2 DEF TypeOK
  <2>5. Named'
    BY <1>1, <2>2 DEF Named
  <2>6. WaitsForOwn'
    BY <1>7, <2>2 DEF WaitsForOwn
  <2>7. Watched' /\ OutputsExist'
    BY <1>1, <1>5, <1>7, <2>2 DEF Watched, OutputsExist
  <2>9. NamesMatch'
    BY <1>4, <1>5, <2>2, SameNames
  <2> QED
    BY <2>4, <2>5, <2>6, <2>7, <2>9
<1> QED
  BY <1>1, <1>6, <1>7 DEF Run, asked

LEMMA NotOpenedStep ==
  ASSUME IInv, NEW c \in Conns, NotOpened(c)
  PROVE  IInv'
<1> USE Constants DEF IInv
<1>0. /\ conn[c].pid = None
      /\ conn' = [conn EXCEPT ![c].phase = "closing"]
      /\ UNCHANGED <<inFile, outFile, proc, page, uncreated>>
  BY NobodyToKill DEF NotOpened
<1>1. /\ conn'[c] \in Connection /\ conn'[c].pid = None
      /\ conn'[c].phase = "closing" /\ conn'[c].name = conn[c].name
      /\ conn' \in [Conns -> Connection]
      /\ \A d \in Conns \ {c} : conn'[d] = conn[d]
  <2>1. LET left == [conn[c] EXCEPT !.phase = "closing"]
        IN  /\ left \in Connection /\ left.pid = conn[c].pid
            /\ left.phase = "closing" /\ left.name = conn[c].name
    BY DEF TypeOK, Connection
  <2> QED
    BY <1>0, <2>1 DEF TypeOK
<1>2. TypeOK'
  BY <1>0, <1>1 DEF TypeOK
<1>3. Named'
  BY <1>1 DEF Named
<1>4. WaitsForOwn'
  BY <1>0, <1>1 DEF WaitsForOwn
<1>5. Watched' /\ OutputsExist'
  BY <1>0, <1>1 DEF Watched, OutputsExist
<1>6. NamesMatch'
  BY <1>0, <1>1, SameNames
<1> QED
  BY <1>2, <1>3, <1>4, <1>5, <1>6

LEMMA WaitTimesOutStep ==
  ASSUME IInv, NEW c \in Conns, WaitTimesOut(c)
  PROVE  IInv'
<1> USE Constants DEF IInv
<1> DEFINE p == conn[c].pid
<1>1. /\ conn[c] \in Connection /\ conn[c].phase = "waiting" /\ p \in Pids
      /\ proc[p] \in Process
  BY DEF WaitTimesOut, TypeOK, WaitsForOwn, Connection
<1> HIDE DEF p
<1>2. proc' = [proc EXCEPT ![p].term = TRUE] /\ UNCHANGED <<inFile, outFile, page, uncreated>>
  BY <1>1 DEF WaitTimesOut, Killed, p
<1>3. /\ conn' \in [Conns -> Connection] /\ conn'[c].pid = None
      /\ conn'[c].phase \in {"idle", "closing"} /\ conn'[c].name = conn[c].name
      /\ \A d \in Conns \ {c} : conn'[d] = conn[d]
  BY <1>1 DEF WaitTimesOut, Waited, Refused, TypeOK, Connection
<1>4. /\ proc' \in [Pids -> Process \cup {None}] /\ proc'[p] \in Process
      /\ proc'[p].term /\ proc'[p].at = proc[p].at /\ proc'[p].out = proc[p].out
      /\ \A q \in Pids \ {p} : proc'[q] = proc[q]
  <2>1. LET killed == [proc[p] EXCEPT !.term = TRUE]
        IN  /\ killed \in Process /\ killed.term
            /\ killed.at = proc[p].at /\ killed.out = proc[p].out
    BY <1>1 DEF Process
  <2> QED
    BY <1>1, <1>2, <2>1 DEF TypeOK
<1>5. \A d \in Conns \ {c} : conn[d].pid # p
  <2>1. proc[p].by = <<c, conn[c].req>>
    BY <1>1 DEF WaitsForOwn, p
  <2> QED
    BY <1>1, <2>1 DEF WaitsForOwn
<1>6. TypeOK'
  BY <1>2, <1>3, <1>4 DEF TypeOK
<1>7. Named'
  BY <1>1, <1>3 DEF Named
<1>8. WaitsForOwn'
  BY <1>3, <1>4, <1>5 DEF WaitsForOwn, TypeOK, Connection
<1>9. Watched'
  <2> SUFFICES ASSUME NEW q \in Pids, proc'[q] # None, q # p
               PROVE  \/ proc'[q].term
                      \/ \E d \in Conns : conn'[d].pid = q
                      \/ proc'[q].by = Other /\ proc'[q].at = "script" /\ proc'[q].out = None
    BY <1>4 DEF Watched
  <2>1. proc'[q] = proc[q]
    BY <1>4
  <2>2. ASSUME NEW d \in Conns, conn[d].pid = q
        PROVE  conn'[d].pid = q
    BY <1>3, <2>2 DEF p
  <2> QED
    BY <2>1, <2>2 DEF Watched
<1>10. OutputsExist'
  BY <1>1, <1>2, <1>4 DEF OutputsExist
<1>11. NamesMatch'
  BY <1>2, <1>3, SameNames
<1> QED
  BY <1>6, <1>7, <1>8, <1>9, <1>10, <1>11

LEMMA WaitReturnsStep ==
  ASSUME IInv, NEW c \in Conns, WaitReturns(c)
  PROVE  IInv'
<1> USE Constants DEF IInv
<1> DEFINE p == conn[c].pid
<1>1. /\ conn[c] \in Connection /\ conn[c].phase = "waiting" /\ p \in Pids
      /\ proc[p] \in Process /\ conn[c].name \in Names
  <2>1. conn[c] \in Connection /\ conn[c].phase = "waiting"
    BY DEF WaitReturns, TypeOK
  <2>2. p \in Pids /\ proc[p] # None /\ conn[c].name \in Names
    BY <2>1 DEF WaitsForOwn, Named, Connection
  <2> QED
    BY <2>1, <2>2 DEF TypeOK
<1> HIDE DEF p
<1>2. proc' = [proc EXCEPT ![p] = None] /\ UNCHANGED <<inFile, outFile, uncreated>>
  BY DEF WaitReturns, Reap, p
<1>3. /\ conn' \in [Conns -> Connection] /\ conn'[c].pid = None
      /\ conn'[c].phase \in {"idle", "closing"} /\ conn'[c].name = conn[c].name
      /\ \A d \in Conns \ {c} : conn'[d] = conn[d]
  <2>1. \E phase \in {"idle", "closing"} : Waited(c, phase)
    BY DEF WaitReturns, Refused
  <2>2. PICK phase \in {"idle", "closing"} : Waited(c, phase)
    BY <2>1
  <2>3. LET left == [conn[c] EXCEPT !.phase = phase, !.pid = None]
        IN  /\ left \in Connection /\ left.pid = None
            /\ left.phase = phase /\ left.name = conn[c].name
    BY <1>1 DEF Connection
  <2>4. conn' = [conn EXCEPT ![c] = [conn[c] EXCEPT !.phase = phase, !.pid = None]]
    BY <1>1, <2>2 DEF Waited, TypeOK
  <2> QED
    BY <2>3, <2>4 DEF TypeOK
<1>4. page' \in [Conns -> [req : 0..MaxRequests, by : SUBSET Writer,
                          opened : BOOLEAN, made : BOOLEAN]]
  <2>1. CASE page' = page
    BY <2>1 DEF TypeOK
  <2>2. CASE \E written \in {outFile[conn[c].name], None} :
               /\ written # None
               /\ page' = [page EXCEPT ![c] =
                             [req |-> conn[c].req, by |-> written,
                              opened |-> proc[p].out # None,
                              made |-> conn[c].name \notin uncreated]]
    <3>1. PICK written \in {outFile[conn[c].name], None} :
               /\ written # None
               /\ page' = [page EXCEPT ![c] =
                             [req |-> conn[c].req, by |-> written,
                              opened |-> proc[p].out # None,
                              made |-> conn[c].name \notin uncreated]]
      BY <2>2
    <3>2. written \in SUBSET Writer /\ conn[c].req \in 0..MaxRequests
      BY <1>1, <3>1 DEF TypeOK, Connection
    <3> QED
      BY <3>1, <3>2 DEF TypeOK
  <2> QED
    BY <2>1, <2>2 DEF WaitReturns, p
<1>5. \A d \in Conns \ {c} : conn[d].pid # p
  <2>1. proc[p].by = <<c, conn[c].req>>
    BY <1>1 DEF WaitsForOwn, p
  <2> QED
    BY <1>1, <2>1 DEF WaitsForOwn
<1>6. TypeOK'
  BY <1>2, <1>3, <1>4 DEF TypeOK
<1>7. Named'
  BY <1>1, <1>3 DEF Named
<1>8. WaitsForOwn'
  BY <1>2, <1>3, <1>5 DEF WaitsForOwn, TypeOK, Connection
<1>9. Watched'
  <2> SUFFICES ASSUME NEW q \in Pids, proc'[q] # None, q # p
               PROVE  \/ proc'[q].term
                      \/ \E d \in Conns : conn'[d].pid = q
                      \/ proc'[q].by = Other /\ proc'[q].at = "script" /\ proc'[q].out = None
    BY <1>1, <1>2 DEF Watched, TypeOK
  <2>1. proc'[q] = proc[q]
    BY <1>2 DEF TypeOK
  <2>2. ASSUME NEW d \in Conns, conn[d].pid = q
        PROVE  conn'[d].pid = q
    BY <1>3, <2>2 DEF p
  <2> QED
    BY <2>1, <2>2 DEF Watched
<1>10. OutputsExist'
  BY <1>1, <1>2 DEF OutputsExist, TypeOK
<1>11. NamesMatch'
  BY <1>2, <1>3, SameNames
<1> QED
  BY <1>6, <1>7, <1>8, <1>9, <1>10, <1>11

(* What the destructor of a connection's CgiHandler changes: that connection,
   its child, its files and the output of the processes that have them. *)
LEMMA DestroyEffects ==
  ASSUME IInv, NEW c \in Conns, Destroy(c), NEW name, name = conn[c].name
  PROVE  /\ conn' \in [Conns -> Connection] /\ conn'[c].phase = "none"
         /\ conn'[c].name = None /\ conn'[c].pid = None
         /\ \A d \in Conns \ {c} : conn'[d] = conn[d]
         /\ proc' \in [Pids -> Process \cup {None}]
         /\ \A p \in Pids : proc'[p] # None <=> proc[p] # None
         /\ conn[c].pid # None => proc'[conn[c].pid].term
         /\ \A p \in Pids : proc[p] # None =>
              proc'[p].out = IF name # None /\ proc[p].out = name THEN None
                             ELSE proc[p].out
         /\ \A p \in Pids : proc[p] # None /\ p # conn[c].pid =>
              /\ proc'[p].at = proc[p].at /\ proc'[p].by = proc[p].by
              /\ proc'[p].name = proc[p].name /\ (proc'[p].term <=> proc[p].term)
         /\ inFile' \in [Names -> (SUBSET Writer) \cup {None}]
         /\ outFile' \in [Names -> (SUBSET Writer) \cup {None}]
         /\ name # None => inFile'[name] = None /\ name \in Names
         /\ \A n \in Names \ {name} : inFile'[n] = inFile[n] /\ outFile'[n] = outFile[n]
<1> USE Constants DEF IInv
<1>1. conn[c] \in Connection /\ page' = page
  BY DEF Destroy, TypeOK
<1>2. /\ conn' \in [Conns -> Connection] /\ conn'[c].phase = "none"
      /\ conn'[c].name = None /\ conn'[c].pid = None
      /\ \A d \in Conns \ {c} : conn'[d] = conn[d]
  <2>1. LET none == [NoConn EXCEPT !.req = conn[c].req]
        IN  /\ none \in Connection /\ none.phase = "none"
            /\ none.name = None /\ none.pid = None
    BY <1>1 DEF NoConn, Connection
  <2> QED
    BY <2>1 DEF Destroy, TypeOK
<1>0. PICK killed : killed = KilledChild(c)
  OBVIOUS
<1>3. /\ killed \in [Pids -> Process \cup {None}]
      /\ \A p \in Pids : p # conn[c].pid => killed[p] = proc[p]
      /\ conn[c].pid # None => killed[conn[c].pid] # None /\ killed[conn[c].pid].term
      /\ \A p \in Pids : killed[p] # None => proc[p] # None /\ killed[p].out = proc[p].out
      /\ \A p \in Pids : killed[p] = None => proc[p] = None
  <2>1. CASE conn[c].pid = None
    <3>1. killed = proc
      BY <1>0, <2>1 DEF KilledChild
    <3>2. proc \in [Pids -> Process \cup {None}] /\ \A p \in Pids : p # conn[c].pid
      BY <2>1 DEF TypeOK
    <3> QED
      BY <2>1, <3>1, <3>2
  <2>2. CASE conn[c].pid # None
    <3> DEFINE p == conn[c].pid
               signaled == [proc[p] EXCEPT !.term = TRUE]
    <3>1. p \in Pids /\ proc[p] \in Process
      BY <1>1, <2>2 DEF WaitsForOwn, TypeOK, Connection
    <3>2. signaled \in Process /\ signaled.term /\ signaled.out = proc[p].out
      BY <3>1 DEF Process
    <3>3. killed = [proc EXCEPT ![p] = signaled]
      BY <1>0, <2>2, <3>1 DEF KilledChild, Killed
    <3> HIDE DEF p, signaled
    <3>4. /\ killed \in [Pids -> Process \cup {None}] /\ killed[p] = signaled
          /\ \A q \in Pids : q # p => killed[q] = proc[q]
      BY <3>1, <3>2, <3>3 DEF TypeOK
    <3>5. killed[p] # None /\ proc[p] # None
      BY <3>1, <3>2, <3>4
    <3> QED
      BY <3>2, <3>4, <3>5 DEF p
  <2> QED
    BY <2>1, <2>2
<1>4. /\ proc' \in [Pids -> Process \cup {None}]
      /\ \A p \in Pids :
           /\ proc'[p] # None <=> proc[p] # None
           /\ proc'[p] # None =>
                /\ proc'[p].at = killed[p].at
                /\ proc'[p].by = killed[p].by
                /\ proc'[p].name = killed[p].name
                /\ proc'[p].term <=> killed[p].term
                /\ proc'[p].out = IF name # None /\ proc[p].out = name THEN None
                                  ELSE proc[p].out
  <2> DEFINE unseen(p) == [killed[p] EXCEPT !.out = None]
  <2>1. ASSUME NEW p \in Pids, proc[p] # None
        PROVE  /\ unseen(p) \in Process /\ unseen(p).out = None
               /\ unseen(p).at = killed[p].at
               /\ unseen(p).by = killed[p].by
               /\ unseen(p).name = killed[p].name
               /\ unseen(p).term <=> killed[p].term
    <3>1. killed[p] \in Process \cup {None}
      BY <1>3
    <3>2. killed[p] # None <=> proc[p] # None
      BY <1>3
    <3>3. killed[p] \in Process
      BY <2>1, <3>1, <3>2
    <3> QED
      BY <3>3 DEF Process
  <2>2. proc' = [p \in Pids |->
                  IF proc[p] # None /\ name # None /\ proc[p].out = name
                  THEN unseen(p) ELSE killed[p]]
    BY <1>0 DEF Destroy
  <2> HIDE DEF unseen
  <2>3. ASSUME NEW p \in Pids
        PROVE  /\ proc'[p] \in Process \cup {None}
               /\ proc'[p] # None <=> proc[p] # None
               /\ proc'[p] # None =>
                    /\ proc'[p].at = killed[p].at
                    /\ proc'[p].by = killed[p].by
                    /\ proc'[p].name = killed[p].name
                    /\ proc'[p].term <=> killed[p].term
                    /\ proc'[p].out = IF name # None /\ proc[p].out = name THEN None
                                      ELSE proc[p].out
    <3>1. CASE proc[p] # None /\ name # None /\ proc[p].out = name
      BY <1>3, <2>1, <2>2, <3>1, Constants
    <3>2. CASE ~(proc[p] # None /\ name # None /\ proc[p].out = name)
      BY <1>3, <2>2, <3>2
    <3> QED
      BY <3>1, <3>2
  <2> QED
    BY <2>2, <2>3
<1>5. /\ inFile' \in [Names -> (SUBSET Writer) \cup {None}]
      /\ outFile' \in [Names -> (SUBSET Writer) \cup {None}]
      /\ name # None => inFile'[name] = None /\ name \in Names
      /\ \A n \in Names \ {name} : inFile'[n] = inFile[n] /\ outFile'[n] = outFile[n]
  BY <1>1 DEF Destroy, rmFile, TypeOK, Connection
<1>6. \A p \in Pids : proc[p] # None /\ p # conn[c].pid =>
        /\ proc'[p].at = proc[p].at /\ proc'[p].by = proc[p].by
        /\ proc'[p].name = proc[p].name /\ (proc'[p].term <=> proc[p].term)
  BY <1>3, <1>4
<1>7. conn[c].pid # None => proc'[conn[c].pid].term
  <2>1. ASSUME conn[c].pid # None PROVE conn[c].pid \in Pids /\ proc[conn[c].pid] # None
    BY <1>1, <2>1 DEF WaitsForOwn, Connection
  <2> QED
    BY <1>3, <1>4, <2>1
<1> QED
  BY <1>2, <1>4, <1>5, <1>6, <1>7

LEMMA DestroyStep ==
  ASSUME IInv, NEW c \in Conns, Destroy(c)
  PROVE  IInv'
<1> USE Constants DEF IInv
<1>1. PICK name : name = conn[c].name
  OBVIOUS
<1>2. /\ conn' \in [Conns -> Connection] /\ conn'[c].phase = "none"
      /\ conn'[c].name = None /\ conn'[c].pid = None
      /\ \A d \in Conns \ {c} : conn'[d] = conn[d]
  BY <1>1, DestroyEffects
<1>3. /\ proc' \in [Pids -> Process \cup {None}]
      /\ \A p \in Pids : proc'[p] # None <=> proc[p] # None
      /\ conn[c].pid # None => proc'[conn[c].pid].term
      /\ \A p \in Pids : proc[p] # None /\ p # conn[c].pid =>
           /\ proc'[p].at = proc[p].at /\ proc'[p].by = proc[p].by
           /\ proc'[p].name = proc[p].name /\ (proc'[p].term <=> proc[p].term)
  BY <1>1, DestroyEffects
<1>4. \A p \in Pids : proc[p] # None =>
        proc'[p].out = IF name # None /\ proc[p].out = name THEN None ELSE proc[p].out
  BY <1>1, DestroyEffects
<1>5. /\ inFile' \in [Names -> (SUBSET Writer) \cup {None}]
      /\ outFile' \in [Names -> (SUBSET Writer) \cup {None}]
      /\ name # None => inFile'[name] = None /\ name \in Names
      /\ \A n \in Names \ {name} : inFile'[n] = inFile[n] /\ outFile'[n] = outFile[n]
  BY <1>1, DestroyEffects
<1>5a. /\ uncreated' \subseteq uncreated
       /\ \A d \in Conns \ {c} : conn[d].name \in uncreated => conn[d].name \in uncreated'
       /\ \A n \in uncreated' : \E d \in Conns \ {c} : conn[d].name = n
  BY DEF Destroy
<1>6. TypeOK'
  BY <1>2, <1>3, <1>5, <1>5a DEF TypeOK, Destroy
<1>7. Named'
  BY <1>2 DEF Named
<1>8. WaitsForOwn'
  <2>1. ASSUME NEW d \in Conns, d # c, conn[d].pid # None
        PROVE  /\ proc'[conn[d].pid] # None
               /\ proc'[conn[d].pid].by = <<d, conn[d].req>>
               /\ proc'[conn[d].pid].name = conn[d].name
               /\ ~proc'[conn[d].pid].term
    <3>1. /\ conn[d].pid \in Pids /\ proc[conn[d].pid] # None
          /\ proc[conn[d].pid].by = <<d, conn[d].req>>
      BY <2>1 DEF WaitsForOwn, TypeOK, Connection
    <3>2. conn[d].pid # conn[c].pid
      BY <2>1, <3>1 DEF WaitsForOwn
    <3> QED
      BY <1>3, <2>1, <3>1, <3>2 DEF WaitsForOwn
  <2>2. ASSUME NEW d \in Conns
        PROVE  conn'[d].phase = "waiting" <=> conn'[d].pid # None
    BY <1>2 DEF WaitsForOwn
  <2>3. ASSUME NEW d \in Conns, conn'[d].pid # None
        PROVE  d # c /\ conn'[d] = conn[d]
    BY <1>2, <2>3
  <2>4. ASSUME NEW d \in Conns, conn'[d].pid # None
        PROVE  /\ proc'[conn'[d].pid] # None
               /\ proc'[conn'[d].pid].by = <<d, conn'[d].req>>
               /\ proc'[conn'[d].pid].name = conn'[d].name
               /\ ~proc'[conn'[d].pid].term
    BY <2>1, <2>3, <2>4
  <2> QED
    BY <2>2, <2>4 DEF WaitsForOwn
<1>9. Watched'
  <2> SUFFICES ASSUME NEW q \in Pids, proc'[q] # None
               PROVE  \/ proc'[q].term
                      \/ \E d \in Conns : conn'[d].pid = q
                      \/ proc'[q].by = Other /\ proc'[q].at = "script" /\ proc'[q].out = None
    BY DEF Watched
  <2>1. CASE q = conn[c].pid
    BY <1>3, <2>1
  <2>2. CASE q # conn[c].pid
    <3>1. /\ proc[q] # None /\ (proc'[q].term <=> proc[q].term)
          /\ proc'[q].by = proc[q].by /\ proc'[q].at = proc[q].at
      BY <1>3, <2>2
    <3>2. proc[q].out = None => proc'[q].out = None
      BY <1>4, <3>1
    <3>3. ASSUME NEW d \in Conns, conn[d].pid = q
          PROVE  conn'[d].pid = q
      BY <1>2, <2>2, <3>3
    <3> QED
      BY <3>1, <3>2, <3>3 DEF Watched
  <2> QED
    BY <2>1, <2>2
<1>10. OutputsExist'
  <2> SUFFICES ASSUME NEW p \in Pids, proc'[p] # None, proc'[p].out # None
               PROVE  outFile'[proc'[p].out] # None
    BY DEF OutputsExist
  <2>1. proc[p] # None /\ proc'[p].out = proc[p].out /\ (name = None \/ proc[p].out # name)
    BY <1>3, <1>4
  <2>2. proc[p].out \in Names
    BY <2>1 DEF TypeOK, Process
  <2> QED
    BY <1>5, <2>1, <2>2 DEF OutputsExist
<1>11. NamesMatch'
  <2> DEFINE named == {d \in Conns : conn[d].name # None}
             held == {conn[d].name : d \in named}
             files == {n \in Names : inFile[n] # None}
  <2>1. named' = named \ {c} /\ \A d \in named' : conn'[d].name = conn[d].name
    BY <1>2
  <2>2. held' \subseteq held /\ held \subseteq held' \cup {name}
    BY <1>1, <2>1
  <2>3. uncreated \ uncreated' \subseteq LeftNames \cup {name}
    <3> SUFFICES ASSUME NEW n \in uncreated, n \notin uncreated', n \notin LeftNames
                 PROVE  n = name
      OBVIOUS
    <3>1. n \in LeftNames \cup held
      BY DEF NamesMatch
    <3>2. PICK d \in Conns : conn[d].name = n
      BY <3>1
    <3> QED
      BY <1>1, <1>5a, <3>2
  <2>4. uncreated' \subseteq held'
    <3> SUFFICES ASSUME NEW n \in uncreated' PROVE n \in held'
      OBVIOUS
    <3>1. n \in Names
      BY <1>5a DEF TypeOK
    <3>2. PICK d \in Conns \ {c} : conn[d].name = n
      BY <1>5a
    <3>3. d \in named' /\ conn'[d].name = n
      BY <2>1, <3>1, <3>2
    <3> QED
      BY <3>3
  <2>5. name # None => name \notin LeftNames /\ (name \in held' => name \in uncreated')
    <3> SUFFICES ASSUME name # None
                 PROVE  name \notin LeftNames /\ (name \in held' => name \in uncreated')
      OBVIOUS
    <3>1. name \notin LeftNames
      BY <1>1 DEF NamesMatch
    <3>2. ASSUME NEW d \in named', conn'[d].name = name PROVE name \in uncreated'
      <4>1. d \in Conns \ {c} /\ conn[d].name = name
        BY <2>1, <3>2
      <4>2. name \in uncreated
        BY <1>1, <4>1 DEF NamesMatch
      <4> QED
        BY <1>5a, <4>1, <4>2
    <3> QED
      BY <3>1, <3>2
  <2>6. None \notin held' /\ None \notin held
    OBVIOUS
  <2>7. files' = files \ {name}
    BY <1>5
  <2>8. \A d, e \in named' :
          conn'[d].name = conn'[e].name => d = e \/ conn'[d].name \in uncreated'
    BY <1>5a, <2>1 DEF NamesMatch
  <2>9. uncreated' \cap LeftNames = {}
    BY <1>5a DEF NamesMatch
  <2>10. LeftNames \cup (held' \ uncreated') \subseteq files'
    <3>1. LeftNames \cup (held \ uncreated) \subseteq files
      BY DEF NamesMatch
    <3>2. name \notin LeftNames
      BY <2>5
    <3>3. name \notin held' \ uncreated'
      BY <2>5, <2>6
    <3>4. held' \ uncreated' \subseteq LeftNames \cup (held \ uncreated)
      BY <2>2, <2>3, <3>3
    <3> HIDE DEF held, files
    <3> QED
      BY <2>7, <3>1, <3>2, <3>3, <3>4
  <2>11. files' \subseteq LeftNames \cup held'
    BY <2>2, <2>7 DEF NamesMatch
  <2>12. \A d \in named' : conn'[d].name \notin LeftNames
    BY <2>1 DEF NamesMatch
  <2> HIDE DEF held, files, named
  <2>13. uncreated' \subseteq (LeftNames \cup held') \ LeftNames
    BY <2>4, <2>9
  <2>14. (LeftNames \cup held') \ uncreated' \subseteq files'
    BY <2>9, <2>10
  <2> QED
    BY <2>8, <2>11, <2>12, <2>13, <2>14 DEF NamesMatch, held, files, named
<1> QED
  BY <1>6, <1>7, <1>8, <1>9, <1>10, <1>11

-----------------------------------------------------------------------------
(* The processes                                                           *)

(* A process that is waited for or has been killed goes a step further.    *)
LEMMA ChildGoes ==
  ASSUME IInv, NEW p \in Pids, NEW child \in Process,
         proc[p] # None, proc[p].term \/ \E c \in Conns : conn[c].pid = p,
         child.by = proc[p].by, child.name = proc[p].name,
         child.term <=> proc[p].term,
         proc' = [proc EXCEPT ![p] = child],
         outFile' \in [Names -> (SUBSET Writer) \cup {None}],
         \A n \in Names : outFile[n] # None => outFile'[n] # None,
         child.out # None => outFile'[child.out] # None,
         UNCHANGED <<conn, inFile, page, uncreated>>
  PROVE  IInv'
<1> USE Constants DEF IInv
<1>1. /\ proc' \in [Pids -> Process \cup {None}] /\ proc'[p] = child /\ child # None
      /\ \A q \in Pids \ {p} : proc'[q] = proc[q]
  BY DEF TypeOK
<1>2. TypeOK'
  BY <1>1 DEF TypeOK
<1>3. Named'
  BY DEF Named
<1>4. WaitsForOwn'
  <2>1. ASSUME NEW c \in Conns, conn[c].pid # None
        PROVE  /\ proc'[conn[c].pid] # None
               /\ proc'[conn[c].pid].by = <<c, conn[c].req>>
               /\ proc'[conn[c].pid].name = conn[c].name
               /\ ~proc'[conn[c].pid].term
    <3>1. conn[c].pid \in Pids
      BY <2>1 DEF TypeOK, Connection
    <3>2. /\ proc[conn[c].pid].by = <<c, conn[c].req>> /\ proc[conn[c].pid] # None
          /\ proc[conn[c].pid].name = conn[c].name /\ ~proc[conn[c].pid].term
      BY <2>1 DEF WaitsForOwn
    <3>3. CASE conn[c].pid = p
      BY <1>1, <3>2, <3>3
    <3>4. CASE conn[c].pid # p
      BY <1>1, <3>1, <3>2, <3>4
    <3> QED
      BY <3>3, <3>4
  <2> QED
    BY <2>1 DEF WaitsForOwn
<1>5. Watched'
  <2> SUFFICES ASSUME NEW q \in Pids, proc'[q] # None
               PROVE  \/ proc'[q].term
                      \/ \E d \in Conns : conn'[d].pid = q
                      \/ proc'[q].by = Other /\ proc'[q].at = "script" /\ proc'[q].out = None
    BY DEF Watched
  <2>1. CASE q = p
    BY <1>1, <2>1
  <2>2. CASE q # p
    BY <1>1, <2>2 DEF Watched
  <2> QED
    BY <2>1, <2>2
<1>6. OutputsExist'
  <2> SUFFICES ASSUME NEW q \in Pids, proc'[q] # None, proc'[q].out # None
               PROVE  outFile'[proc'[q].out] # None
    BY DEF OutputsExist
  <2>1. CASE q = p
    BY <1>1, <2>1
  <2>2. CASE q # p
    <3>1. proc'[q] = proc[q] /\ proc[q].out \in Names
      BY <1>1, <2>2 DEF TypeOK, Process
    <3> QED
      BY <3>1 DEF OutputsExist
  <2> QED
    BY <2>1, <2>2
<1>7. NamesMatch'
  BY SameNames
<1> QED
  BY <1>2, <1>3, <1>4, <1>5, <1>6, <1>7

(* A process that _launch has not replaced by its script yet is waited for:
   a signal would have ended it. *)
LEMMA NotYetScript ==
  ASSUME IInv, NEW p \in Pids, NEW from \in {"forked", "opened", "ready"}, Step(p, from)
  PROVE  ~proc[p].term /\ \E c \in Conns : conn[c].pid = p
  BY DEF IInv, Watched, Step, Lives, Running

LEMMA GoesStep ==
  ASSUME IInv, NEW p \in Pids, NEW to \in {"opened", "script", "exited", "signaled"},
         proc[p] # None, proc[p].term \/ \E c \in Conns : conn[c].pid = p,
         Goes(p, to), UNCHANGED <<conn, inFile, outFile, page, uncreated>>
  PROVE  IInv'
<1> USE Constants
<1>1. proc[p] \in Process
  BY DEF IInv, TypeOK
<1> DEFINE child == [proc[p] EXCEPT !.at = to]
<1>2. /\ child \in Process /\ child.by = proc[p].by /\ child.name = proc[p].name
      /\ child.out = proc[p].out /\ (child.term <=> proc[p].term)
  BY <1>1 DEF Process
<1>3. proc' = [proc EXCEPT ![p] = child]
  BY DEF Goes
<1> HIDE DEF child
<1>4. child.out # None => outFile'[child.out] # None
  BY <1>2 DEF IInv, OutputsExist
<1>5. outFile' \in [Names -> (SUBSET Writer) \cup {None}]
  BY DEF IInv, TypeOK
<1> QED
  BY <1>2, <1>3, <1>4, <1>5, ChildGoes

LEMMA OpenInputStep ==
  ASSUME IInv, NEW p \in Pids, OpenInput(p)
  PROVE  IInv'
<1>1. proc[p] # None /\ \E c \in Conns : conn[c].pid = p
  BY NotYetScript DEF OpenInput, Step, Running
<1>2. Goes(p, "opened") \/ Goes(p, "exited")
  BY DEF OpenInput
<1>3. UNCHANGED <<conn, inFile, outFile, page, uncreated>>
  BY DEF OpenInput
<1> QED
  BY <1>1, <1>2, <1>3, GoesStep

LEMMA OpenOutputStep ==
  ASSUME IInv, NEW p \in Pids, OpenOutput(p)
  PROVE  IInv'
<1> USE Constants
<1>1. proc[p] # None /\ \E c \in Conns : conn[c].pid = p
  BY NotYetScript DEF OpenOutput, Step, Running
<1>2. proc[p] \in Process /\ proc[p].name \in Names
  <2>1. PICK c \in Conns : conn[c].pid = p
    BY <1>1
  <2>2. conn[c].name # None /\ proc[p].name = conn[c].name
    BY <2>1 DEF IInv, WaitsForOwn, Named
  <2> QED
    BY <1>1, <2>2 DEF IInv, TypeOK, Process
<1>3. UNCHANGED <<conn, inFile, page, uncreated>>
  BY DEF OpenOutput
<1>4. CASE TruncateOutput(proc[p].name)
           /\ proc' = [proc EXCEPT ![p].at = "ready", ![p].out = proc[p].name]
  <2> DEFINE child == [proc[p] EXCEPT !.at = "ready", !.out = proc[p].name]
  <2>1. /\ child \in Process /\ child.by = proc[p].by /\ child.name = proc[p].name
        /\ child.out = proc[p].name /\ (child.term <=> proc[p].term)
    BY <1>2 DEF Process
  <2>2. proc' = [proc EXCEPT ![p] = child]
    BY <1>2, <1>4 DEF IInv, TypeOK
  <2> HIDE DEF child
  <2>3. /\ outFile' \in [Names -> (SUBSET Writer) \cup {None}]
        /\ outFile'[proc[p].name] # None
        /\ \A n \in Names : outFile[n] # None => outFile'[n] # None
    BY <1>2, <1>4 DEF TruncateOutput, IInv, TypeOK
  <2> QED
    BY <1>1, <1>3, <2>1, <2>2, <2>3, ChildGoes
<1>5. CASE Goes(p, "exited") /\ UNCHANGED outFile
  BY <1>1, <1>3, <1>5, GoesStep
<1> QED
  BY <1>4, <1>5 DEF OpenOutput

LEMMA ExecStep ==
  ASSUME IInv, NEW p \in Pids, Exec(p)
  PROVE  IInv'
<1>1. proc[p] # None /\ \E c \in Conns : conn[c].pid = p
  BY NotYetScript DEF Exec, Step, Running
<1>2. Goes(p, "script") \/ Goes(p, "exited")
  BY DEF Exec
<1>3. UNCHANGED <<conn, inFile, outFile, page, uncreated>>
  BY DEF Exec
<1> QED
  BY <1>1, <1>2, <1>3, GoesStep

LEMMA ScriptWritesStep ==
  ASSUME IInv, NEW p \in Pids, ScriptWrites(p)
  PROVE  IInv'
<1> USE Constants DEF IInv
<1> DEFINE out == proc[p].out
<1>1. /\ out \in Names /\ proc[p].by \in Writer /\ outFile[out] \in SUBSET Writer
      /\ UNCHANGED <<conn, inFile, proc, page, uncreated>>
      /\ outFile' = [outFile EXCEPT ![out] = @ \cup {proc[p].by}]
  <2>1. proc[p] \in Process /\ out # None /\ UNCHANGED <<conn, inFile, proc, page, uncreated>>
    BY DEF ScriptWrites, Step, Running, TypeOK
  <2>2. out \in Names /\ proc[p].by \in Writer
    BY <2>1 DEF Process
  <2>3. outFile[out] \in SUBSET Writer
    BY <2>1, <2>2 DEF OutputsExist, TypeOK
  <2> QED
    BY <2>1, <2>2, <2>3 DEF ScriptWrites
<1> HIDE DEF out
<1>2. outFile[out] \cup {proc[p].by} \in SUBSET Writer
  BY <1>1
<1>3. /\ outFile' \in [Names -> (SUBSET Writer) \cup {None}]
      /\ \A n \in Names : outFile[n] # None => outFile'[n] # None
  BY <1>1, <1>2 DEF TypeOK
<1>4. TypeOK'
  BY <1>1, <1>3 DEF TypeOK
<1>5. Named' /\ WaitsForOwn' /\ Watched'
  BY <1>1 DEF Named, WaitsForOwn, Watched
<1>6. OutputsExist'
  <2>1. \A q \in Pids : proc[q] # None /\ proc[q].out # None => proc[q].out \in Names
    BY DEF TypeOK, Process
  <2> QED
    BY <1>1, <1>3, <2>1 DEF OutputsExist
<1>7. NamesMatch'
  BY <1>1, SameNames
<1> QED
  BY <1>4, <1>5, <1>6, <1>7

(* A pid changes hands that no connection waits for. *)
LEMMA StrangerStep ==
  ASSUME IInv, NEW p \in Pids, NEW stranger \in Process \cup {None},
         \A c \in Conns : conn[c].pid # p,
         stranger # None =>
           stranger.by = Other /\ stranger.at = "script" /\ stranger.out = None,
         proc' = [proc EXCEPT ![p] = stranger],
         UNCHANGED <<conn, inFile, outFile, page, uncreated>>
  PROVE  IInv'
<1> USE Constants DEF IInv
<1>1. /\ proc' \in [Pids -> Process \cup {None}] /\ proc'[p] = stranger
      /\ \A q \in Pids \ {p} : proc'[q] = proc[q]
  BY DEF TypeOK
<1>2. TypeOK'
  BY <1>1 DEF TypeOK
<1>3. Named' /\ NamesMatch'
  BY SameNames DEF Named
<1>4. WaitsForOwn'
  <2>1. ASSUME NEW c \in Conns, conn[c].pid # None
        PROVE  proc'[conn[c].pid] = proc[conn[c].pid]
    BY <1>1, <2>1 DEF TypeOK, Connection
  <2> QED
    BY <2>1 DEF WaitsForOwn
<1>5. Watched'
  BY <1>1 DEF Watched
<1>6. OutputsExist'
  BY <1>1 DEF OutputsExist
<1> QED
  BY <1>2, <1>3, <1>4, <1>5, <1>6

LEMMA ScriptEndsStep ==
  ASSUME IInv, NEW p \in Pids, ScriptEnds(p)
  PROVE  IInv'
<1> USE Constants
<1>1. proc[p] # None /\ UNCHANGED <<conn, inFile, outFile, page, uncreated>>
  BY DEF ScriptEnds, Step, Running
<1>2. CASE proc[p].by = Other
  <2>1. proc' = [proc EXCEPT ![p] = None]
    BY <1>2 DEF ScriptEnds
  <2>2. ASSUME NEW c \in Conns, conn[c].pid = p
        PROVE  FALSE
    <3>1. proc[p].by = <<c, conn[c].req>> /\ conn[c].req \in 0..MaxRequests
      BY <2>2 DEF IInv, WaitsForOwn, TypeOK, Connection
    <3> QED
      BY <1>2, <3>1, CgiAssumption
  <2> QED
    BY <1>1, <2>1, <2>2, StrangerStep
<1>3. CASE proc[p].by # Other
  <2>1. proc[p].term \/ \E c \in Conns : conn[c].pid = p
    BY <1>1, <1>3 DEF IInv, Watched
  <2>2. Goes(p, "exited") \/ Goes(p, "signaled")
    BY <1>3 DEF ScriptEnds
  <2> QED
    BY <1>1, <2>1, <2>2, GoesStep
<1> QED
  BY <1>2, <1>3

LEMMA TerminatedStep ==
  ASSUME IInv, NEW p \in Pids, Terminated(p)
  PROVE  IInv'
  BY GoesStep DEF Terminated, Running

LEMMA OtherStartsStep ==
  ASSUME IInv, NEW p \in Pids, OtherStarts(p)
  PROVE  IInv'
<1> USE Constants
<1> DEFINE stranger == [at |-> "script", by |-> Other, name |-> None,
                        out |-> None, term |-> FALSE]
<1>1. /\ stranger \in Process /\ stranger.by = Other /\ stranger.at = "script"
      /\ stranger.out = None
  BY DEF Process
<1>2. proc' = [proc EXCEPT ![p] = stranger] /\ UNCHANGED <<conn, inFile, outFile, page, uncreated>>
  BY DEF OtherStarts
<1>3. \A c \in Conns : conn[c].pid # p
  BY DEF OtherStarts, IInv, WaitsForOwn
<1> HIDE DEF stranger
<1> QED
  BY <1>1, <1>2, <1>3, StrangerStep

-----------------------------------------------------------------------------
(* The invariant                                                           *)

LEMMA NextInv == IInv /\ [Next]_vars => IInv'
<1> SUFFICES ASSUME IInv, [Next]_vars PROVE IInv'
  OBVIOUS
<1>1. ASSUME NEW c \in Conns, setFilename(c) PROVE IInv'
  BY <1>1, SetFilenameStep
<1>2. ASSUME NEW c \in Conns, WaitTimesOut(c) PROVE IInv'
  BY <1>2, WaitTimesOutStep
<1>3. ASSUME NEW c \in Conns, WaitReturns(c) PROVE IInv'
  BY <1>3, WaitReturnsStep
<1>4. ASSUME NEW c \in Conns, Destroy(c) PROVE IInv'
  BY <1>4, DestroyStep
<1>5. ASSUME NEW c \in Conns, NEW post \in BOOLEAN, Run(c, post) PROVE IInv'
  BY <1>5, RunStep
<1>6. ASSUME NEW p \in Pids, OpenInput(p) PROVE IInv'
  BY <1>6, OpenInputStep
<1>7. ASSUME NEW p \in Pids, OpenOutput(p) PROVE IInv'
  BY <1>7, OpenOutputStep
<1>8. ASSUME NEW p \in Pids, Exec(p) PROVE IInv'
  BY <1>8, ExecStep
<1>9. ASSUME NEW p \in Pids, ScriptWrites(p) PROVE IInv'
  BY <1>9, ScriptWritesStep
<1>10. ASSUME NEW p \in Pids, ScriptEnds(p) PROVE IInv'
  BY <1>10, ScriptEndsStep
<1>11. ASSUME NEW p \in Pids, Terminated(p) PROVE IInv'
  BY <1>11, TerminatedStep
<1>12. ASSUME NEW p \in Pids, OtherStarts(p) PROVE IInv'
  BY <1>12, OtherStartsStep
<1>13. ASSUME NEW c \in Conns, NotOpened(c) PROVE IInv'
  BY <1>13, NotOpenedStep
<1>14. CASE UNCHANGED vars
  <2>1. TypeOK' /\ Named' /\ WaitsForOwn' /\ Watched' /\ OutputsExist'
    BY <1>14 DEF vars, IInv, TypeOK, Named, WaitsForOwn, Watched, OutputsExist
  <2>2. NamesMatch'
    BY <1>14, SameNames DEF vars, IInv
  <2> QED
    BY <2>1, <2>2 DEF IInv
<1> QED
  BY <1>1, <1>2, <1>3, <1>4, <1>5, <1>6, <1>7, <1>8, <1>9, <1>10, <1>11, <1>12,
     <1>14, <1>13 DEF Next

(* In every state of a server, a connection and the child it waits for know
   each other, every other process of the server's has been killed, and a name
   whose file was created is held once (CgiHandler.cpp). *)
THEOREM Invariant == Spec => []IInv
<1> QED
  BY InitInv, NextInv, PTL DEF Spec

-----------------------------------------------------------------------------
(* The consequences                                                        *)

(* The 2000 names are each held by one live connection or by what a killed
   server left, and by nothing else, but for the names setFilename took
   without creating their file: a file is always that of a name held, and only
   such a name is shared or has no file (setFilename, openFile and rmFile). *)
THEOREM NamesAreHeldOnce == Spec => []NamesMatch
<1>1. IInv => NamesMatch
  BY DEF IInv
<1> QED
  BY <1>1, Invariant, PTL

(* No child becomes a zombie but those that were killed (waitChild). *)
THEOREM OnlyKilledLeak == Spec => []OnlyKilledChildrenLeak
<1>1. IInv => OnlyKilledChildrenLeak
  BY DEF IInv, Watched, OnlyKilledChildrenLeak, Ended
<1> QED
  BY <1>1, Invariant, PTL

LEMMA GoesKeepsTerm ==
  ASSUME IInv, NEW p \in Pids, NEW to, proc[p] # None, Goes(p, to),
         NEW q \in Pids, proc[q] # None, ~proc[q].term
  PROVE  ~proc'[q].term /\ proc'[q].out = proc[q].out
<1> DEFINE child == [proc[p] EXCEPT !.at = to]
<1>1. proc[p] \in Process
  BY DEF IInv, TypeOK
<1>2. child.term = proc[p].term /\ child.out = proc[p].out
  BY <1>1 DEF Process
<1>3. proc' = [proc EXCEPT ![p] = child]
  BY DEF Goes
<1> HIDE DEF child
<1> QED
  BY <1>2, <1>3 DEF IInv, TypeOK

(* Who sends a signal waits for the process that gets it. *)
LEMMA SignalStep ==
  ASSUME IInv, [Next]_vars, NEW p \in Pids,
         proc[p] # None, proc'[p] # None, ~proc[p].term, proc'[p].term
  PROVE  \E c \in Conns : conn[c].pid = p
<1> USE Constants
<1>1. ASSUME NEW c \in Conns, NEW post \in BOOLEAN, Run(c, post) PROVE FALSE
  <2>1. KilledChild(c) = proc
    BY <1>1, NobodyToKill DEF Run
  <2>2. PICK q \in Pids :
          \/ proc' = proc
          \/ proc[q] = None /\ proc' = [proc EXCEPT ![q] = Forked(c)]
    BY <1>1, <2>1 DEF Run
  <2> QED
    BY <2>2 DEF IInv, TypeOK
<1>2. ASSUME NEW c \in Conns, WaitTimesOut(c) PROVE conn[c].pid = p
  <2>1. conn[c].pid \in Pids
    BY <1>2 DEF WaitTimesOut, IInv, TypeOK, WaitsForOwn, Connection
  <2> QED
    BY <1>2, <2>1 DEF WaitTimesOut, Killed, IInv, TypeOK
<1>3. ASSUME NEW c \in Conns, WaitReturns(c) PROVE FALSE
  BY <1>3 DEF WaitReturns, Reap, IInv, TypeOK
<1>4. ASSUME NEW c \in Conns, Destroy(c) PROVE conn[c].pid = p
  <2>1. PICK name : name = conn[c].name
    OBVIOUS
  <2> QED
    BY <1>4, <2>1, DestroyEffects
<1>5. ASSUME NEW q \in Pids, OpenInput(q) \/ Exec(q) \/ Terminated(q) PROVE FALSE
  BY <1>5, GoesKeepsTerm DEF OpenInput, Exec, Terminated, Step, Running
<1>6. ASSUME NEW q \in Pids, OpenOutput(q) PROVE FALSE
  <2> DEFINE child == [proc[q] EXCEPT !.at = "ready", !.out = proc[q].name]
  <2>1. proc[q] \in Process /\ proc[q] # None
    BY <1>6 DEF OpenOutput, Step, Running, IInv, TypeOK
  <2>2. child.term = proc[q].term
    BY <2>1 DEF Process
  <2>3. CASE proc' = [proc EXCEPT ![q].at = "ready", ![q].out = proc[q].name]
    <3>1. proc' = [proc EXCEPT ![q] = child]
      BY <2>1, <2>3 DEF IInv, TypeOK
    <3> HIDE DEF child
    <3> QED
      BY <2>2, <3>1 DEF IInv, TypeOK
  <2>4. CASE Goes(q, "exited")
    BY <2>1, <2>4, GoesKeepsTerm
  <2> QED
    BY <1>6, <2>3, <2>4 DEF OpenOutput
<1>7. ASSUME NEW q \in Pids, ScriptEnds(q) PROVE FALSE
  <2>1. CASE proc' = [proc EXCEPT ![q] = None]
    BY <2>1 DEF IInv, TypeOK
  <2>2. CASE Goes(q, "exited") \/ Goes(q, "signaled")
    BY <1>7, <2>2, GoesKeepsTerm DEF ScriptEnds, Step, Running
  <2> QED
    BY <1>7, <2>1, <2>2 DEF ScriptEnds
<1>8. ASSUME NEW q \in Pids, OtherStarts(q) PROVE FALSE
  BY <1>8 DEF OtherStarts, IInv, TypeOK
<1>9. CASE UNCHANGED proc
  BY <1>9
<1> QED
  BY <1>1, <1>2, <1>3, <1>4, <1>5, <1>6, <1>7, <1>8, <1>9
     DEF Next, vars, setFilename, NotOpened, ScriptWrites

(* A signal only ever goes to the child of the connection that sends it,
   never to a process that was given the same pid since (kill in run, in
   waitChild and in the destructor). *)
THEOREM SignalsReachOwnChild == Spec => KillsOwnChild
<1> DEFINE Own ==
      \A p \in Pids :
        (proc[p] # None /\ proc'[p] # None /\ ~proc[p].term /\ proc'[p].term) =>
          \E c \in Conns : conn[c].pid = p /\ proc[p].by = <<c, conn[c].req>>
<1>1. ASSUME IInv, [Next]_vars PROVE [Own]_vars
  <2>1. ASSUME NEW p \in Pids, NEW c \in Conns, conn[c].pid = p
        PROVE  proc[p].by = <<c, conn[c].req>>
    BY <1>1, <2>1, Constants DEF IInv, WaitsForOwn
  <2> QED
    BY <1>1, <2>1, SignalStep
<1>2. KillsOwnChild <=> [][Own]_vars
  BY DEF KillsOwnChild
<1> QED
  BY <1>1, <1>2, Invariant, PTL DEF Spec

-----------------------------------------------------------------------------
(* Whose the pages are, where no script outlives SIGTERM                   *)

(* The output of a child that is waited for, once it has opened it, is that
   of its connection, and all its own if the name was created. *)
Fresh ==
  \A c \in Conns :
    conn[c].pid # None /\ proc[conn[c].pid].out # None =>
      /\ proc[conn[c].pid].out = conn[c].name
      /\ conn[c].name \notin uncreated => outFile[conn[c].name] \subseteq {<<c, conn[c].req>>}

PageInv == (~CatchesTerm => Fresh) /\ PageIsOwn

(* It stays so for the connections whose child and file nobody touches, and
   for those that are given a new child. *)
LEMMA FreshKept ==
  ASSUME Fresh,
         \A c \in Conns : conn'[c].pid # None =>
           \/ proc'[conn'[c].pid].out = None
           \/ /\ conn'[c].pid = conn[c].pid /\ conn'[c].name = conn[c].name
              /\ conn'[c].req = conn[c].req
              /\ proc'[conn[c].pid].out = proc[conn[c].pid].out
              /\ conn[c].name \in uncreated => conn[c].name \in uncreated'
              /\ \/ outFile'[conn[c].name] = outFile[conn[c].name]
                 \/ conn[c].name \in uncreated
  PROVE  Fresh'
<1> SUFFICES ASSUME NEW c \in Conns, conn'[c].pid # None, proc'[conn'[c].pid].out # None
             PROVE  /\ proc'[conn'[c].pid].out = conn'[c].name
                    /\ conn'[c].name \notin uncreated' =>
                         outFile'[conn'[c].name] \subseteq {<<c, conn'[c].req>>}
  BY DEF Fresh
<1>1. /\ conn'[c].pid = conn[c].pid /\ conn'[c].name = conn[c].name
      /\ conn'[c].req = conn[c].req /\ conn[c].pid # None
      /\ proc'[conn[c].pid].out = proc[conn[c].pid].out
      /\ conn[c].name \in uncreated => conn[c].name \in uncreated'
      /\ conn[c].name \notin uncreated => outFile'[conn[c].name] = outFile[conn[c].name]
  OBVIOUS
<1>2. proc[conn[c].pid].out # None
  BY <1>1
<1>3. /\ proc[conn[c].pid].out = conn[c].name
      /\ conn[c].name \notin uncreated => outFile[conn[c].name] \subseteq {<<c, conn[c].req>>}
  BY <1>1, <1>2 DEF Fresh
<1> QED
  BY <1>1, <1>3

(* Two connections that wait have different children, and different files
   unless their name was not created. *)
LEMMA Apart ==
  ASSUME IInv, NEW c \in Conns, NEW d \in Conns, c # d,
         conn[c].pid # None, conn[d].pid # None
  PROVE  /\ conn[c].pid # conn[d].pid
         /\ conn[c].name # conn[d].name \/ conn[d].name \in uncreated
         /\ conn[c].name \in Names /\ conn[d].name \in Names
<1>1. /\ proc[conn[c].pid].by = <<c, conn[c].req>>
      /\ proc[conn[d].pid].by = <<d, conn[d].req>>
      /\ conn[c].phase = "waiting" /\ conn[d].phase = "waiting"
  BY DEF IInv, WaitsForOwn
<1>2. conn[c].name # None /\ conn[d].name # None
  BY <1>1 DEF IInv, Named
<1> QED
  BY <1>1, <1>2 DEF IInv, NamesMatch, TypeOK, Connection

LEMMA RunFresh ==
  ASSUME IInv, Fresh, NEW c \in Conns, NEW post \in BOOLEAN, Run(c, post)
  PROVE  Fresh'
<1> USE Constants
<1>1. /\ KilledChild(c) = proc /\ outFile' = outFile /\ uncreated' = uncreated
      /\ conn[c].pid = None
  BY NobodyToKill DEF Run
<1>2. CASE \E p \in Pids :
             /\ proc[p] = None /\ proc' = [proc EXCEPT ![p] = Forked(c)]
             /\ \E asked : conn' = [conn EXCEPT ![c] =
                            [asked EXCEPT !.pid = p, !.phase = "waiting"]]
                          /\ asked \in Connection
  <2>1. PICK p \in Pids, asked \in Connection :
             /\ proc[p] = None /\ proc' = [proc EXCEPT ![p] = Forked(c)]
             /\ conn' = [conn EXCEPT ![c] = [asked EXCEPT !.pid = p, !.phase = "waiting"]]
    BY <1>2
  <2>2. [asked EXCEPT !.pid = p, !.phase = "waiting"].pid = p
    BY DEF Connection
  <2>3. conn'[c].pid = p /\ \A d \in Conns \ {c} : conn'[d] = conn[d]
    BY <2>1, <2>2 DEF IInv, TypeOK
  <2>4. proc'[p].out = None /\ \A q \in Pids \ {p} : proc'[q] = proc[q]
    BY <2>1 DEF IInv, TypeOK, Forked
  <2>5. ASSUME NEW d \in Conns, d # c, conn'[d].pid # None
        PROVE  /\ conn'[d] = conn[d] /\ proc'[conn[d].pid] = proc[conn[d].pid]
    BY <2>1, <2>3, <2>4, <2>5 DEF IInv, TypeOK, WaitsForOwn, Connection
  <2> QED
    BY <1>1, <2>3, <2>4, <2>5, FreshKept
<1>3. CASE proc' = proc /\ \E asked \in Connection : \E to :
             conn' = [conn EXCEPT ![c] = [asked EXCEPT !.pid = None, !.phase = to]]
  <2>0. PICK asked \in Connection : \E to :
             conn' = [conn EXCEPT ![c] = [asked EXCEPT !.pid = None, !.phase = to]]
    BY <1>3
  <2>1. PICK to : conn' = [conn EXCEPT ![c] = [asked EXCEPT !.pid = None, !.phase = to]]
    BY <2>0
  <2>2. [asked EXCEPT !.pid = None, !.phase = to].pid = None
    BY DEF Connection
  <2>3. conn'[c].pid = None /\ \A d \in Conns \ {c} : conn'[d] = conn[d]
    BY <2>1, <2>2 DEF IInv, TypeOK
  <2> QED
    BY <1>1, <1>3, <2>3, FreshKept
<1>4. [conn[c] EXCEPT !.req = @ + 1, !.posted = @ \/ post] \in Connection
  <2>1. conn[c] \in Connection /\ conn[c].req < MaxRequests
    BY DEF Run, IInv, TypeOK
  <2>2. conn[c].req + 1 \in 0..MaxRequests
    BY <2>1 DEF Connection
  <2> QED
    BY <2>1, <2>2 DEF Connection
<1> QED
  BY <1>1, <1>2, <1>3, <1>4 DEF Run

LEMMA DestroyFresh ==
  ASSUME IInv, Fresh, NEW c \in Conns, Destroy(c)
  PROVE  Fresh'
<1> USE Constants
<1>1. PICK name : name = conn[c].name
  OBVIOUS
<1>2. conn'[c].pid = None /\ \A d \in Conns \ {c} : conn'[d] = conn[d]
  BY <1>1, DestroyEffects
<1>3. \A p \in Pids : proc[p] # None =>
        proc'[p].out = IF name # None /\ proc[p].out = name THEN None ELSE proc[p].out
  BY <1>1, DestroyEffects
<1>4. \A n \in Names \ {name} : outFile'[n] = outFile[n]
  BY <1>1, DestroyEffects
<1>5. ASSUME NEW d \in Conns, d # c, conn[d].pid # None
      PROVE  /\ \/ proc'[conn[d].pid].out = None
                \/ proc'[conn[d].pid].out = proc[conn[d].pid].out
             /\ conn[d].name \in uncreated => conn[d].name \in uncreated'
             /\ \/ outFile'[conn[d].name] = outFile[conn[d].name]
                \/ conn[d].name \in uncreated
  <2>1. /\ conn[d].pid \in Pids /\ proc[conn[d].pid] # None
        /\ conn[d].name # None /\ conn[d].name \in Names
    BY <1>5 DEF IInv, TypeOK, WaitsForOwn, Named, Connection
  <2>2. conn[d].name # name \/ conn[d].name \in uncreated
    BY <1>1, <1>5, <2>1 DEF IInv, NamesMatch
  <2>3. conn[d].name \in uncreated => conn[d].name \in uncreated'
    BY <1>5 DEF Destroy
  <2> QED
    BY <1>3, <1>4, <2>1, <2>2, <2>3
<1> QED
  BY <1>2, <1>5, FreshKept

(* The connection c stops waiting; the others are not concerned. *)
LEMMA WaitedFresh ==
  ASSUME IInv, Fresh, NEW c \in Conns, NEW to, NEW child, Waited(c, to),
         conn[c].pid \in Pids, conn[c].pid # None,
         proc' = [proc EXCEPT ![conn[c].pid] = child], UNCHANGED <<outFile, uncreated>>
  PROVE  Fresh'
<1>1. conn[c] \in Connection
  BY DEF IInv, TypeOK
<1>2. [conn[c] EXCEPT !.phase = to, !.pid = None].pid = None
  BY <1>1 DEF Connection
<1>3. conn' = [conn EXCEPT ![c] = [conn[c] EXCEPT !.phase = to, !.pid = None]]
  BY DEF Waited, IInv, TypeOK
<1>4. conn'[c].pid = None /\ \A d \in Conns \ {c} : conn'[d] = conn[d]
  BY <1>2, <1>3 DEF IInv, TypeOK
<1>5. ASSUME NEW d \in Conns, d # c, conn[d].pid # None
      PROVE  proc'[conn[d].pid] = proc[conn[d].pid]
  <2>1. conn[d].pid # conn[c].pid /\ conn[d].pid \in Pids
    BY <1>5, Apart DEF IInv, TypeOK, Connection
  <2> QED
    BY <2>1 DEF IInv, TypeOK
<1> QED
  BY <1>4, <1>5, FreshKept

(* A child goes a step further: only opening its output concerns it. *)
LEMMA GoesFresh ==
  ASSUME IInv, Fresh, NEW p \in Pids, NEW to, proc[p] # None, Goes(p, to),
         UNCHANGED <<conn, outFile, uncreated>>
  PROVE  Fresh'
<1> USE Constants
<1> DEFINE child == [proc[p] EXCEPT !.at = to]
<1>1. proc[p] \in Process
  BY DEF IInv, TypeOK
<1>2. child.out = proc[p].out
  BY <1>1 DEF Process
<1>3. proc' = [proc EXCEPT ![p] = child]
  BY DEF Goes
<1> HIDE DEF child
<1>4. \A q \in Pids : proc'[q].out = proc[q].out
  BY <1>2, <1>3 DEF IInv, TypeOK
<1>5. \A c \in Conns : conn[c].pid # None => conn[c].pid \in Pids
  BY DEF IInv, TypeOK, Connection
<1> QED
  BY <1>4, <1>5, FreshKept

LEMMA OpenOutputFresh ==
  ASSUME IInv, Fresh, NEW p \in Pids, OpenOutput(p)
  PROVE  Fresh'
<1> USE Constants
<1>1. proc[p] # None /\ proc[p] \in Process /\ UNCHANGED <<conn, uncreated>>
  BY DEF OpenOutput, Step, Running, IInv, TypeOK
<1>2. PICK c \in Conns : conn[c].pid = p
  BY NotYetScript DEF OpenOutput
<1>3. proc[p].name = conn[c].name /\ conn[c].pid # None /\ conn[c].name \in Names
  BY <1>2 DEF IInv, WaitsForOwn, Named, TypeOK, Connection
<1>4. CASE Goes(p, "exited") /\ UNCHANGED outFile
  BY <1>1, <1>4, GoesFresh
<1>5. CASE /\ TruncateOutput(proc[p].name)
           /\ proc' = [proc EXCEPT ![p].at = "ready", ![p].out = proc[p].name]
  <2> DEFINE child == [proc[p] EXCEPT !.at = "ready", !.out = proc[p].name]
  <2>1. child.out = conn[c].name
    BY <1>1, <1>3 DEF Process
  <2>2. proc' = [proc EXCEPT ![p] = child]
    BY <1>1, <1>5 DEF IInv, TypeOK
  <2> HIDE DEF child
  <2>3. /\ proc'[p].out = conn[c].name /\ outFile'[conn[c].name] = {}
        /\ \A q \in Pids \ {p} : proc'[q] = proc[q]
        /\ \A n \in Names \ {conn[c].name} : outFile'[n] = outFile[n]
    BY <1>3, <1>5, <2>1, <2>2 DEF TruncateOutput, IInv, TypeOK
  <2> SUFFICES ASSUME NEW d \in Conns, conn[d].pid # None, proc'[conn[d].pid].out # None
               PROVE  /\ proc'[conn[d].pid].out = conn[d].name
                      /\ conn[d].name \notin uncreated =>
                           outFile'[conn[d].name] \subseteq {<<d, conn[d].req>>}
    BY <1>1 DEF Fresh
  <2>4. CASE d = c
    BY <1>2, <2>3, <2>4
  <2>5. CASE d # c
    <3>1. /\ conn[d].pid # p /\ conn[d].name \in Names
          /\ conn[d].name # conn[c].name \/ conn[d].name \in uncreated
      BY <1>2, <1>3, <2>5, Apart
    <3>2. conn[d].pid \in Pids
      BY DEF IInv, TypeOK, Connection
    <3>3. /\ proc'[conn[d].pid] = proc[conn[d].pid]
          /\ conn[d].name \notin uncreated => outFile'[conn[d].name] = outFile[conn[d].name]
      BY <2>3, <3>1, <3>2
    <3> QED
      BY <3>3 DEF Fresh
  <2> QED
    BY <2>4, <2>5
<1> QED
  BY <1>4, <1>5 DEF OpenOutput

LEMMA ScriptWritesFresh ==
  ASSUME IInv, Fresh, ~CatchesTerm, NEW p \in Pids, ScriptWrites(p)
  PROVE  Fresh'
<1> USE Constants
<1>1. /\ proc[p] # None /\ proc[p].out # None /\ ~proc[p].term
      /\ UNCHANGED <<conn, proc, uncreated>>
      /\ outFile' = [outFile EXCEPT ![proc[p].out] = @ \cup {proc[p].by}]
  BY DEF ScriptWrites, Step, Running, Lives
<1>2. PICK c \in Conns : conn[c].pid = p
  BY <1>1 DEF IInv, Watched
<1>3. /\ proc[p].by = <<c, conn[c].req>> /\ conn[c].pid # None
      /\ conn[c].name \in Names
  BY <1>2 DEF IInv, WaitsForOwn, Named, TypeOK, Connection
<1>4. /\ proc[p].out = conn[c].name
      /\ conn[c].name \notin uncreated => outFile[conn[c].name] \subseteq {<<c, conn[c].req>>}
  BY <1>1, <1>2, <1>3 DEF Fresh
<1>5. /\ outFile'[conn[c].name] = outFile[conn[c].name] \cup {<<c, conn[c].req>>}
      /\ \A n \in Names \ {conn[c].name} : outFile'[n] = outFile[n]
  BY <1>1, <1>3, <1>4 DEF IInv, TypeOK
<1> SUFFICES ASSUME NEW d \in Conns, conn[d].pid # None, proc[conn[d].pid].out # None
             PROVE  /\ proc[conn[d].pid].out = conn[d].name
                    /\ conn[d].name \notin uncreated =>
                         outFile'[conn[d].name] \subseteq {<<d, conn[d].req>>}
  BY <1>1 DEF Fresh
<1>6. CASE d = c
  BY <1>2, <1>4, <1>5, <1>6
<1>7. CASE d # c
  <2>1. /\ conn[d].name # conn[c].name \/ conn[d].name \in uncreated
        /\ conn[d].name \in Names
    BY <1>2, <1>3, <1>7, Apart
  <2> QED
    BY <1>5, <2>1 DEF Fresh
<1> QED
  BY <1>6, <1>7

(* A pid that no connection waits for changes hands. *)
LEMMA StrangerFresh ==
  ASSUME IInv, Fresh, NEW p \in Pids, NEW stranger, \A c \in Conns : conn[c].pid # p,
         proc' = [proc EXCEPT ![p] = stranger], UNCHANGED <<conn, outFile, uncreated>>
  PROVE  Fresh'
<1>1. ASSUME NEW c \in Conns, conn[c].pid # None
      PROVE  proc'[conn[c].pid] = proc[conn[c].pid]
  BY <1>1 DEF IInv, TypeOK, Connection
<1> QED
  BY <1>1, FreshKept

LEMMA FreshStep ==
  ASSUME IInv, Fresh, ~CatchesTerm, [Next]_vars
  PROVE  Fresh'
<1> USE Constants
<1>1. ASSUME NEW c \in Conns, setFilename(c) PROVE Fresh'
  <2>1. /\ conn[c].pid = None /\ UNCHANGED <<proc, outFile>>
        /\ \A d \in Conns \ {c} : conn'[d] = conn[d]
    BY <1>1 DEF setFilename, IInv, WaitsForOwn, TypeOK
  <2>6. uncreated \subseteq uncreated'
    BY <1>1 DEF setFilename, CreatesName
  <2>2. conn[c] \in Connection
    BY DEF IInv, TypeOK
  <2>3. PICK phase, name : conn' = [conn EXCEPT ![c] =
                                      [conn[c] EXCEPT !.phase = phase, !.name = name]]
    <3>1. \/ \E n : conn' = [conn EXCEPT ![c].phase = "idle", ![c].name = n]
          \/ conn' = [conn EXCEPT ![c].phase = "closing"]
      BY <1>1 DEF setFilename
    <3>2. ASSUME NEW n, conn' = [conn EXCEPT ![c].phase = "idle", ![c].name = n]
          PROVE  conn' = [conn EXCEPT ![c] = [conn[c] EXCEPT !.phase = "idle", !.name = n]]
      BY <3>2 DEF IInv, TypeOK
    <3>3. ASSUME conn' = [conn EXCEPT ![c].phase = "closing"]
          PROVE  conn' = [conn EXCEPT ![c] =
                            [conn[c] EXCEPT !.phase = "closing", !.name = conn[c].name]]
      <4>1. [conn[c] EXCEPT !.phase = "closing"] =
              [conn[c] EXCEPT !.phase = "closing", !.name = conn[c].name]
        BY <2>2 DEF Connection
      <4> QED
        BY <3>3, <4>1 DEF IInv, TypeOK
    <3> QED
      BY <3>1, <3>2, <3>3
  <2>4. [conn[c] EXCEPT !.phase = phase, !.name = name].pid = conn[c].pid
    BY <2>2 DEF Connection
  <2>5. conn'[c].pid = None
    BY <2>1, <2>3, <2>4 DEF IInv, TypeOK
  <2> QED
    BY <2>1, <2>5, <2>6, FreshKept
<1>2. ASSUME NEW c \in Conns, WaitTimesOut(c) PROVE Fresh'
  <2>1. conn[c].pid \in Pids /\ conn[c].pid # None /\ proc[conn[c].pid] # None
    BY <1>2 DEF WaitTimesOut, IInv, TypeOK, WaitsForOwn, Connection
  <2>2. \E child : proc' = [proc EXCEPT ![conn[c].pid] = child]
    BY <1>2, <2>1 DEF WaitTimesOut, Killed
  <2>3. \E to : Waited(c, to)
    BY <1>2 DEF WaitTimesOut
  <2>4. UNCHANGED <<outFile, uncreated>>
    BY <1>2 DEF WaitTimesOut
  <2> QED
    BY <2>1, <2>2, <2>3, <2>4, WaitedFresh
<1>3. ASSUME NEW c \in Conns, WaitReturns(c) PROVE Fresh'
  <2>1. conn[c].pid \in Pids /\ conn[c].pid # None
    BY <1>3 DEF WaitReturns, IInv, TypeOK, WaitsForOwn, Connection
  <2>2. proc' = [proc EXCEPT ![conn[c].pid] = None]
    BY <1>3 DEF WaitReturns, Reap
  <2>3. \E to : Waited(c, to)
    BY <1>3 DEF WaitReturns
  <2>4. UNCHANGED <<outFile, uncreated>>
    BY <1>3 DEF WaitReturns
  <2> QED
    BY <2>1, <2>2, <2>3, <2>4, WaitedFresh
<1>4. ASSUME NEW p \in Pids, OpenInput(p) PROVE Fresh'
  BY <1>4, GoesFresh DEF OpenInput, Step, Running
<1>5. ASSUME NEW p \in Pids, Exec(p) PROVE Fresh'
  BY <1>5, GoesFresh DEF Exec, Step, Running
<1>6. ASSUME NEW p \in Pids, Terminated(p) PROVE Fresh'
  BY <1>6, GoesFresh DEF Terminated, Running
<1>7. ASSUME NEW p \in Pids, ScriptEnds(p) PROVE Fresh'
  <2>1. CASE proc[p].by = Other
    <3>1. \A c \in Conns : conn[c].pid # p
      <4> SUFFICES ASSUME NEW c \in Conns, conn[c].pid = p PROVE FALSE
        OBVIOUS
      <4>1. proc[p].by = <<c, conn[c].req>> /\ conn[c].req \in 0..MaxRequests
        BY DEF IInv, WaitsForOwn, TypeOK, Connection
      <4> QED
        BY <2>1, <4>1, CgiAssumption
    <3>2. proc' = [proc EXCEPT ![p] = None] /\ UNCHANGED <<conn, outFile, uncreated>>
      BY <1>7, <2>1 DEF ScriptEnds
    <3> QED
      BY <3>1, <3>2, StrangerFresh
  <2>2. CASE proc[p].by # Other
    BY <1>7, <2>2, GoesFresh DEF ScriptEnds, Step, Running
  <2> QED
    BY <2>1, <2>2
<1>8. ASSUME NEW p \in Pids, OtherStarts(p) PROVE Fresh'
  <2>1. /\ \A c \in Conns : conn[c].pid # p
        /\ UNCHANGED <<conn, outFile, uncreated>>
    BY <1>8 DEF OtherStarts, IInv, WaitsForOwn
  <2>2. \E stranger : proc' = [proc EXCEPT ![p] = stranger]
    BY <1>8 DEF OtherStarts
  <2> QED
    BY <2>1, <2>2, StrangerFresh
<1>9. CASE UNCHANGED vars
  BY <1>9 DEF vars, Fresh
<1>10. ASSUME NEW c \in Conns, NotOpened(c) PROVE Fresh'
  <2>1. UNCHANGED <<outFile, proc, uncreated>>
    BY <1>10 DEF NotOpened
  <2>2. /\ \A d \in Conns : conn'[d].pid = conn[d].pid /\ conn'[d].name = conn[d].name
        /\ \A d \in Conns : conn'[d].req = conn[d].req
    BY <1>10 DEF NotOpened, IInv, TypeOK, Connection
  <2> QED
    BY <2>1, <2>2, FreshKept
<1> QED
  BY <1>1, <1>2, <1>3, <1>4, <1>5, <1>6, <1>7, <1>8, <1>9, <1>10, RunFresh, DestroyFresh,
     OpenOutputFresh, ScriptWritesFresh DEF Next

LEMMA PageStep ==
  ASSUME IInv, Fresh, PageIsOwn, ~CatchesTerm, [Next]_vars
  PROVE  PageIsOwn'
<1> USE Constants
<1>1. CASE page' = page
  BY <1>1 DEF PageIsOwn
<1>2. ASSUME NEW c \in Conns, WaitReturns(c), page' # page PROVE PageIsOwn'
  <2>1. /\ conn[c].phase = "waiting"
        /\ page' = [page EXCEPT ![c] =
                      [req |-> conn[c].req, by |-> outFile[conn[c].name],
                       opened |-> proc[conn[c].pid].out # None,
                       made |-> conn[c].name \notin uncreated]]
    BY <1>2 DEF WaitReturns
  <2>2. conn[c].pid # None
    BY <2>1 DEF IInv, WaitsForOwn
  <2>3. proc[conn[c].pid].out # None /\ conn[c].name \notin uncreated =>
          outFile[conn[c].name] \subseteq {<<c, conn[c].req>>}
    BY <2>2 DEF Fresh
  <2>4. /\ page'[c].req = conn[c].req /\ page'[c].by = outFile[conn[c].name]
        /\ page'[c].opened <=> proc[conn[c].pid].out # None
        /\ page'[c].made <=> conn[c].name \notin uncreated
        /\ \A d \in Conns \ {c} : page'[d] = page[d]
    BY <2>1 DEF IInv, TypeOK
  <2> QED
    BY <2>3, <2>4 DEF PageIsOwn
<1> QED
  BY <1>1, <1>2 DEF Next, vars, setFilename, NotOpened, WaitTimesOut, Destroy, Run,
     OpenInput,
     OpenOutput, Exec, ScriptWrites, ScriptEnds, Terminated, OtherStarts

(* Where scripts do not outlive SIGTERM, a page whose child has opened its
   output, on a connection whose temporary file was created, is the work of the script that was run for the request it answers
   and of no other (O_TRUNC in _launch, kill in run and in waitChild). *)
THEOREM PagesAreOwn == Spec => []PageIsOwn
<1>1. Init => PageInv
  BY Constants DEF Init, NoConn, PageInv, Fresh, PageIsOwn
<1>2. IInv /\ PageInv /\ [Next]_vars => PageInv'
  BY FreshStep, PageStep DEF PageInv, PageIsOwn
<1>3. PageInv => PageIsOwn
  BY DEF PageInv
<1> QED
  BY <1>1, <1>2, <1>3, Invariant, PTL DEF Spec
=============================================================================
