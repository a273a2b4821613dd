-------------------------------- MODULE Proxy --------------------------------
(***************************************************************************)
(* The caching web proxy: main accepts connections and starts one detached *)
(* thread for each (proxy.c), the threads share the list of cache.c        *)
(* (CacheSteps), and the kernel's descriptor table is shared by all.       *)
(* Clients and origin servers are the environment.                         *)
(***************************************************************************)
EXTENDS CacheSteps

CONSTANTS
  Clients,     \* each has at most one connection to the proxy at a time
  Asks,        \* [Clients -> SUBSET Uris]: what each client may ask for
  Again,       \* whether a client that was answered may ask again
  MaxActive,   \* how many clients connect at the same time
  Impatient,   \* the clients that may give up before the answer (curl --max-time)
  Slow,        \* the clients that connect first and send their request in pieces
  Cells,       \* the heap blocks Malloc can return to main for a connfd
  Fds,         \* the descriptors a process may open besides the listening one
  Host,        \* [Uris -> hosts]
  Silent,      \* hosts that accept a connection and never answer (nop-server.py)
  Fickle,      \* hosts that may end or reset a connection before the whole answer
  Down,        \* hosts nobody can connect to
  Length,      \* [Uris -> Nat]: the length of the body an origin serves
  MaxObject,   \* MAX_OBJECT_SIZE
  MaxBuf       \* MAXBUF, the size of the buffer a hit is copied to

ASSUME FdsAssumption == Fds \subseteq Nat
ASSUME ClientsAssumption ==
  /\ Impatient \subseteq Clients /\ Slow \subseteq Clients /\ Clients \cap {"free", "origin"} = {}
  /\ Asks \in [Clients -> SUBSET Uris]
ASSUME SizesAssumption == Length \in [Uris -> Nat] /\ MaxObject \in Nat /\ MaxBuf \in Nat

VARIABLES
  mpc,         \* the statement main executes next
  connfdp,     \* main's pointer to the cell it hands to the next thread
  cell,        \* the contents of every cell
  cellLive,    \* the cells that are allocated
  conn,        \* each client's connection, as the client sees it
  want,        \* the uri a client asked for
  reply,       \* what the client received
  fdt,         \* what each descriptor refers to
  arg,         \* vargp of each thread
  connfd,      \* the descriptor each thread answers on
  buf,         \* buf of each thread, when it holds a copy of a cached body
  status,      \* "running", "exited" (unix_error) or "crashed"
  ub           \* the kinds of undefined behaviour that have occurred

mainVars == <<mpc, connfdp, cell, cellLive, arg>>
netVars == <<conn, want, reply>>
vars == <<listVars, pc, localVars, mainVars, netVars, fdt, connfd, buf, status, ub>>

Free == "free"
Origin == "origin"
NoReply == Null
NoFd == -1

FreeFds == {f \in Fds : fdt[f] = Free}
\* The descriptor the kernel returns: the lowest one that is not open.
LowestFree(f) == f \in FreeFds /\ \A g \in FreeFds : f <= g

Client(t) == fdt[connfd[t]]
Accepted == {c \in Clients : conn[c] # "idle"}

Init ==
  /\ NewDll
  /\ pc = [t \in Threads |-> "none"]
  /\ uri = [t \in Threads |-> Null]
  /\ node = [t \in Threads |-> Null]
  /\ now = [t \in Threads |-> Null]
  /\ victim = [t \in Threads |-> Null]
  /\ reg = [t \in Threads |-> 0]
  /\ ret = [t \in Threads |-> "none"]
  /\ mpc = "malloc33" /\ connfdp = Null
  /\ cell = [p \in Cells |-> NoFd] /\ cellLive = {}
  /\ arg = [t \in Threads |-> Null]
  /\ conn = [c \in Clients |-> "idle"]
  /\ want = [c \in Clients |-> Null]
  /\ reply = [c \in Clients |-> NoReply]
  /\ fdt = [f \in Fds |-> Free]
  /\ connfd = [t \in Threads |-> NoFd]
  /\ buf = [t \in Threads |-> Null]
  /\ status = "running" /\ ub = {}

\* unix_error: the whole process stops, with every thread in it.
Exit ==
  /\ status' = "exited"
  /\ UNCHANGED <<listVars, pc, localVars, mainVars, netVars, fdt, connfd, buf, ub>>

-----------------------------------------------------------------------------
(* The clients.  A connection that is open is "mute" until its client has sent the   *)
(* request line, "line" until it has sent the headers too, and then "accepted"; a    *)
(* client that closes its side leaves it "gone", "left" or "reset".                  *)

Sends == [mute |-> "line", line |-> "accepted"]
Leaving == [mute |-> "gone", line |-> "left", accepted |-> "reset"]
Closed == {"gone", "left", "reset"}

\* A slow client sends the next piece of its request.
SendOn(c) ==
  /\ conn[c] \in DOMAIN Sends
  /\ conn' = [conn EXCEPT ![c] = Sends[@]]
  /\ UNCHANGED <<listVars, pc, localVars, mainVars, want, reply, fdt, connfd, buf, status, ub>>

\* A client closes its side before it has the answer.
GiveUp(c) ==
  /\ c \in Impatient /\ conn[c] \in DOMAIN Leaving /\ reply[c] = NoReply
  /\ conn' = [conn EXCEPT ![c] = Leaving[@]]
  /\ UNCHANGED <<listVars, pc, localVars, mainVars, want, reply, fdt, connfd, buf, status, ub>>

-----------------------------------------------------------------------------
(* main *)

\* Variant with a defect: every thread is given the same cell.
Malloc33OneCell ==
  /\ mpc = "malloc33" /\ mpc' = "accept34"
  /\ \E p \in (IF cellLive = {} THEN Cells ELSE cellLive) :
       connfdp' = p /\ cellLive' = cellLive \cup {p}
  /\ UNCHANGED <<listVars, pc, localVars, netVars, cell, arg, fdt, connfd, buf, status, ub>>

Malloc33 ==
  /\ mpc = "malloc33" /\ mpc' = "accept34"
  /\ \E p \in Cells \ cellLive : connfdp' = p /\ cellLive' = cellLive \cup {p}
  /\ UNCHANGED <<listVars, pc, localVars, netVars, cell, arg, fdt, connfd, buf, status, ub>>

\* accept returns the connection of a client that has connected to the
\* listening socket and sent its request for u, or is about to send it.
Accept34(c, u) ==
  /\ mpc = "accept34" /\ mpc' = "create35"
  /\ u \in Asks[c] /\ (Again \/ want[c] = Null)
  /\ conn[c] = "idle" /\ Cardinality(Accepted) < MaxActive
  /\ \E f \in Fds : /\ LowestFree(f)
                     /\ fdt' = [fdt EXCEPT ![f] = c]
                     /\ cell' = [cell EXCEPT ![connfdp] = f]
  /\ conn' = [conn EXCEPT ![c] = IF c \in Slow THEN "mute" ELSE "accepted"]
  /\ want' = [want EXCEPT ![c] = u]
  /\ reply' = [reply EXCEPT ![c] = NoReply]
  /\ UNCHANGED <<listVars, pc, localVars, connfdp, cellLive, arg, connfd, buf, status, ub>>

\* accept fails when the process is out of descriptors.
AcceptError == mpc = "accept34" /\ FreeFds = {} /\ Exit

\* Variant with a defect: an iterative server, one connection after the other.
Create35Iterative(t) ==
  /\ mpc = "create35" /\ mpc' = "malloc33"
  /\ \A u \in Threads : pc[u] = "none"
  /\ Goto(t, "none", "t44")
  /\ arg' = [arg EXCEPT ![t] = connfdp]
  /\ connfdp' = Null
  /\ UNCHANGED <<listVars, localVars, netVars, cell, cellLive, fdt, connfd, buf, status, ub>>

Create35(t) ==
  /\ mpc = "create35" /\ mpc' = "malloc33"
  /\ Goto(t, "none", "t44")
  /\ arg' = [arg EXCEPT ![t] = connfdp]
  /\ connfdp' = Null
  /\ UNCHANGED <<listVars, localVars, netVars, cell, cellLive, fdt, connfd, buf, status, ub>>

-----------------------------------------------------------------------------
(* thread and trans *)

\* Variant with a defect: the pointer itself is taken for the descriptor.
T44Cast(t) ==
  /\ Goto(t, "t44", "t46")
  /\ connfd' = [connfd EXCEPT ![t] = arg[t]]
  /\ UNCHANGED <<listVars, localVars, mainVars, netVars, fdt, buf, status, ub>>

T44(t) ==
  /\ Goto(t, "t44", "t46")
  /\ connfd' = [connfd EXCEPT ![t] = cell[arg[t]]]
  /\ UNCHANGED <<listVars, localVars, mainVars, netVars, fdt, buf, status, ub>>

T46(t) ==
  /\ Goto(t, "t46", "t65")
  /\ cellLive' = cellLive \ {arg[t]}
  /\ arg' = [arg EXCEPT ![t] = Null]
  /\ cell' = [cell EXCEPT ![arg[t]] = NoFd]
  /\ UNCHANGED <<listVars, localVars, mpc, connfdp, netVars, fdt, connfd, buf, status, ub>>

\* Read and parse the request line, once the client has sent it.
T65(t) ==
  /\ Goto(t, "t65", "search56")
  /\ conn[Client(t)] \notin {"mute", "gone"}
  /\ uri' = [uri EXCEPT ![t] = want[Client(t)]]
  /\ UNCHANGED <<listVars, node, now, victim, reg, ret, mainVars, netVars, fdt, connfd, buf, status, ub>>

\* Variant with a defect: a thread that reads no request ends without Close.
T65GoneReturns(t) ==
  /\ Goto(t, "t65", "none")
  /\ conn[Client(t)] = "gone"
  /\ connfd' = [connfd EXCEPT ![t] = NoFd]
  /\ UNCHANGED <<listVars, localVars, mainVars, netVars, fdt, buf, status>>

\* End of file before the request line: trans parses what the stack holds in buf.
T65Gone(t) ==
  /\ Goto(t, "t65", "search56")
  /\ conn[Client(t)] = "gone"
  /\ \E u \in Uris : uri' = [uri EXCEPT ![t] = u]
  /\ UNCHANGED <<listVars, node, now, victim, reg, ret, mainVars, netVars, fdt, connfd, buf, status>>

\* Variant with a defect: a hit does not call moveFront.
Hit97NoMove(t) ==
  /\ Goto(t, "hit97", "hit102")
  /\ UNCHANGED <<listVars, localVars, mainVars, netVars, fdt, connfd, buf, status>>

\* strlen(dll_node->data) for the header of a hit.
Hit97(t) ==
  /\ Goto(t, "hit97", "move83")
  /\ UNCHANGED <<listVars, localVars, mainVars, netVars, fdt, connfd, buf, status>>

\* strcpy(buf, dll_node->data)
Hit102(t) ==
  /\ Goto(t, "hit102", "hit104")
  /\ buf' = [buf EXCEPT ![t] = mem[node[t]].body]
  /\ UNCHANGED <<listVars, localVars, mainVars, netVars, fdt, connfd, status>>

\* Rio_writen to the client: nobody hears it when the client is gone.
Send(t, from, body) ==
  /\ Goto(t, from, "close48")
  /\ reply' = [c \in Clients |-> IF c = Client(t) /\ conn[c] \notin Closed
                                 THEN body ELSE reply[c]]
  /\ UNCHANGED <<listVars, localVars, mainVars, conn, want, fdt, connfd, buf, status>>

\* A hit is sent as a string; bodies are texts, without a zero byte.
Hit104(t) == Send(t, "hit104", buf[t])

Miss108(t) ==
  /\ Goto(t, "miss108", "miss137")
  /\ Host[uri[t]] \notin Down
  /\ \E f \in Fds : LowestFree(f) /\ fdt' = [fdt EXCEPT ![f] = Origin]
  /\ UNCHANGED <<listVars, localVars, mainVars, netVars, connfd, buf, status>>

\* Open_clientfd exits when the origin is down or no descriptor is left.
Miss108Error(t) ==
  /\ pc[t] = "miss108" /\ (Host[uri[t]] \in Down \/ FreeFds = {})
  /\ Exit

\* The rest of the request to the origin, which answers once it has it; the response:
\* its header, then Content-length bytes into a malloc'ed block.
Miss137(t) ==
  /\ Goto(t, "miss137", "miss159")
  /\ conn[Client(t)] \in {"accepted", "reset"} /\ Host[uri[t]] \notin Silent
  /\ \E n \in Nodes \ live :
       /\ node' = [node EXCEPT ![t] = n]
       /\ live' = live \cup {n}
       /\ mem' = [mem EXCEPT ![n].body = uri[t]]
  /\ UNCHANGED <<size, uri, now, victim, reg, ret, mainVars, netVars, fdt, connfd, buf, status>>

\* The origin ends the connection before that: what is missing of the header leaves
\* file_size, and what is missing of the body the block, as they were.
Miss137Short(t) ==
  /\ Goto(t, "miss137", "miss159")
  /\ conn[Client(t)] # "line" /\ Host[uri[t]] \in Fickle
  /\ \E n \in Nodes \ live :
       /\ node' = [node EXCEPT ![t] = n]
       /\ live' = live \cup {n}
       /\ mem' = [mem EXCEPT ![n].body = Null]
  /\ UNCHANGED <<size, uri, now, victim, reg, ret, mainVars, netVars, fdt, connfd, buf, status>>

\* Rio_readlineb and Rio_readnb exit on an error, as when the other side has reset the
\* connection; and so does Open_clientfd when what the stack held names no host.
ReadError(t) ==
  /\ \/ pc[t] \in {"t65", "miss137"} /\ conn[Client(t)] \in Closed
     \/ pc[t] = "miss137" /\ conn[Client(t)] # "line" /\ Host[uri[t]] \in Fickle
  /\ Exit

\* Variant with a defect: the path is not copied into the node.
Miss159NoKey(t) ==
  /\ Goto(t, "miss159", "push16")
  /\ mem[node[t]].body # Null => Length[uri[t]] <= MaxObject
  /\ UNCHANGED <<listVars, localVars, mainVars, netVars, fdt, connfd, buf, status>>

Miss159Small(t) ==
  /\ Goto(t, "miss159", "push16")
  /\ mem[node[t]].body # Null => Length[uri[t]] <= MaxObject
  /\ mem' = [mem EXCEPT ![node[t]].path = Key(t)]
  /\ UNCHANGED <<live, size, localVars, mainVars, netVars, fdt, connfd, buf, status>>

Miss159Large(t) ==
  /\ Goto(t, "miss159", "reply173")
  /\ mem[node[t]].body # Null => Length[uri[t]] > MaxObject
  /\ live' = live \ {node[t]}
  /\ UNCHANGED <<mem, size, localVars, mainVars, netVars, fdt, connfd, buf, status>>

Reply173(t) == Send(t, "reply173", mem[node[t]].body)

\* Close(connfd), and the detached thread ends.
Close48(t) ==
  /\ Goto(t, "close48", "none")
  /\ conn' = [conn EXCEPT ![Client(t)] = "idle"]
  /\ fdt' = [fdt EXCEPT ![connfd[t]] = Free]
  /\ connfd' = [connfd EXCEPT ![t] = NoFd]
  /\ uri' = [uri EXCEPT ![t] = Null]
  /\ node' = [node EXCEPT ![t] = Null]
  /\ ret' = [ret EXCEPT ![t] = "none"]
  /\ buf' = [buf EXCEPT ![t] = Null]
  /\ UNCHANGED <<listVars, now, victim, reg, mainVars, want, reply, status>>

-----------------------------------------------------------------------------
(* Undefined behaviour *)

Derefs(t) ==
  IF pc[t] \in {"hit97", "hit102", "hit104", "miss159", "reply173"}
  THEN {node[t]} ELSE ListDerefs(t)

\* The copy of a hit does not fit buf: strcpy writes Length + 1 bytes.
Overflows(t) ==
  pc[t] = "hit102" /\ mem[node[t]].body # Null /\ Length[mem[node[t]].body] >= MaxBuf

\* buf is read before anything was read into it, or a body that is not all there.
Unwritten(t) ==
  \/ pc[t] = "t65" /\ conn[Client(t)] = "gone"
  \/ pc[t] \in {"hit97", "hit102", "hit104", "miss159", "reply173"} /\ mem[node[t]].body = Null

Illegal(t) == (IF Derefs(t) \subseteq live THEN {} ELSE {"freed"})
              \cup (IF Overflows(t) THEN {"overflow"} ELSE {})
              \cup (IF Unwritten(t) THEN {"unwritten"} ELSE {})

\* SIGPIPE has its default action: main never calls Signal(SIGPIPE, SIG_IGN).
BrokenPipe(t) ==
  \/ pc[t] \in {"hit104", "reply173"} /\ conn[Client(t)] \in Closed
  \/ pc[t] = "miss137" /\ Host[uri[t]] \in Fickle

\* The process dies at a statement that is undefined, or on SIGPIPE.
Crash(t) ==
  /\ Illegal(t) # {} \/ BrokenPipe(t)
  /\ status' = "crashed"
  /\ ub' = ub \cup Illegal(t)
  /\ UNCHANGED <<listVars, pc, localVars, mainVars, netVars, fdt, connfd, buf>>

-----------------------------------------------------------------------------

CacheStep(t) == ListStep(t) /\ UNCHANGED <<mainVars, netVars, fdt, connfd, buf, status>>

TransStep(t) ==
  \/ T65Gone(t) \/ Hit97(t) \/ Hit102(t) \/ Hit104(t)
  \/ Miss108(t) \/ Miss137(t) \/ Miss137Short(t)
  \/ Miss159Small(t) \/ Miss159Large(t) \/ Reply173(t) \/ Close48(t)

\* A statement of thread t that goes on, whatever it read.
Statement(t) ==
  \/ T44(t) \/ T46(t) \/ T65(t)
  \/ Miss108Error(t)
  \/ (CacheStep(t) \/ TransStep(t)) /\ Derefs(t) \subseteq Addr /\ ub' = ub \cup Illegal(t)

Thread(t) == status = "running" /\ Statement(t)

Main == /\ status = "running"
        /\ Malloc33 \/ AcceptError \/ \E t \in Threads : Create35(t)

Environment ==
  /\ status = "running"
  /\ \E c \in Clients : SendOn(c) \/ GiveUp(c) \/ \E u \in Uris : Accept34(c, u)

Next == \/ Main
        \/ Environment
        \/ \E t \in Threads : Thread(t) \/ (status = "running" /\ (ReadError(t) \/ Crash(t)))

Spec == Init /\ [][Next]_vars

\* The scheduler runs main and every thread that can take a step; nobody has
\* to connect, so that accept may block forever, or to send what it said it would.
FairSpec == Spec /\ WF_vars(Main) /\ \A t \in Threads : WF_vars(Thread(t))

-----------------------------------------------------------------------------
(* Properties *)

Labels ==
  {"none", "t44", "t46", "t65", "search56", "search63", "print95", "print101", "print102",
   "hit97", "move83", "move84", "move86", "move87", "move88", "move89", "hit102", "hit104",
   "miss108", "miss137", "miss159", "push16", "push17", "push18", "push19", "push21",
   "push21s", "push24", "push28", "pop33", "pop37", "pop38", "pop40", "pop41", "pop43",
   "pop47", "pop47s", "reply173", "close48"}

ListTypeOK ==
  /\ mem \in [Addr -> [next : Addr \cup {Null}, prev : Addr \cup {Null},
                       path : {Path[u] : u \in Uris} \cup {Null}, body : Uris \cup {Null}]]
  /\ live \subseteq Addr /\ size \in Int
  /\ node \in [Threads -> Addr \cup {Null}]
  /\ now \in [Threads -> Addr \cup {Null}]
  /\ victim \in [Threads -> Addr \cup {Null}]
  /\ reg \in [Threads -> Int]
  /\ ret \in [Threads -> {"none", "search63", "hit102", "push28", "reply173"}]

ProcessTypeOK ==
  /\ pc \in [Threads -> Labels]
  /\ uri \in [Threads -> Uris \cup {Null}]
  /\ buf \in [Threads -> Uris \cup {Null}]
  /\ connfd \in [Threads -> Fds \cup {NoFd}]
  /\ arg \in [Threads -> Cells \cup {Null}]
  /\ mpc \in {"malloc33", "accept34", "create35"}
  /\ connfdp \in Cells \cup {Null}
  /\ cell \in [Cells -> Fds \cup {NoFd}]
  /\ cellLive \subseteq Cells
  /\ conn \in [Clients -> {"idle", "mute", "line", "accepted"} \cup Closed]
  /\ want \in [Clients -> Uris \cup {Null}]
  /\ fdt \in [Fds -> Clients \cup {Free, Origin}]
  /\ status \in {"running", "exited", "crashed"}
  /\ ub \subseteq {"freed", "overflow", "unwritten"}

\* What the variables may hold, and when main and printDll use which locals.
TypeOK == ListTypeOK /\ ProcessTypeOK

Serving == {t \in Threads : pc[t] # "none"}
FdOf(t) == IF pc[t] = "t44" THEN cell[arg[t]] ELSE connfd[t]

(***************************************************************************)
(* A connection main has accepted is open on one descriptor, and that      *)
(* descriptor is held by main or by one thread, until the thread closes    *)
(* it: the descriptor travels through a cell of its own (lines 33-35 and   *)
(* 44-46), no connection is dropped or served twice, and no thread closes, *)
(* or writes to, a descriptor the kernel has given to somebody else.       *)
(***************************************************************************)
HeldByMain(f) == mpc = "create35" /\ cell[connfdp] = f
HeldBy(t, f) == t \in Serving /\ FdOf(t) = f

NoDescriptorShared ==
  \A f \in Fds : /\ \A t, u \in Threads : HeldBy(t, f) /\ HeldBy(u, f) => t = u
                 /\ \A t \in Threads : ~(HeldByMain(f) /\ HeldBy(t, f))
HeldIsOpen ==
  /\ \A t \in Serving : FdOf(t) \in Fds /\ fdt[FdOf(t)] \in Accepted
  /\ mpc = "create35" => cell[connfdp] \in Fds /\ fdt[cell[connfdp]] \in Accepted
OpenIsHeld ==
  \A f \in Fds : fdt[f] \in Clients => HeldByMain(f) \/ \E t \in Threads : HeldBy(t, f)
OneDescriptor ==
  /\ \A c \in Accepted : \E f \in Fds : fdt[f] = c
  /\ \A f, g \in Fds : fdt[f] \in Clients /\ fdt[f] = fdt[g] => f = g

ConnectionOwned == NoDescriptorShared /\ HeldIsOpen /\ OpenIsHeld /\ OneDescriptor

(***************************************************************************)
(* The nodes search reaches: Walk[k] is the k-th node of the next chain.   *)
(***************************************************************************)
Steps == Cardinality(Nodes) + 1
Walk[k \in 0..Steps] ==
  IF k = 0 THEN HeadNode
  ELSE IF Walk[k-1] \in Addr THEN mem[Walk[k-1]].next ELSE Null
Cached == {Walk[k] : k \in 1..Steps} \ {HeadNode}

(***************************************************************************)
(* At every statement, in the middle of an update too, search and printDll *)
(* follow next from the dummy node back to the dummy node, and meet only   *)
(* allocated nodes whose key has been filled in (pushFront sets next of    *)
(* the new node before the dummy node points at it).                       *)
(***************************************************************************)
ForwardChain ==
  \E k \in 1..Steps :
    /\ Walk[k] = HeadNode
    /\ \A j \in 1..k-1 : Walk[j] \in live \ {HeadNode} /\ mem[Walk[j]].path # Null

\* No thread is between the first and the last statement of an update.
Settled == \A t \in Threads :
  pc[t] \in {"none", "t44", "t46", "t65", "search56", "search63", "hit97", "miss108",
             "miss137", "miss159", "hit102", "hit104", "reply173", "close48"}

\* The blocks threads have allocated and not linked.
Private == {node[t] : t \in {u \in Threads : pc[u] = "miss159"}}

(***************************************************************************)
(* Between updates the list is a doubly linked ring, size counts it and    *)
(* respects the capacity, no key is cached twice, and no block is leaked   *)
(* or linked after it was freed.                                           *)
(***************************************************************************)
ListCoherent ==
  Settled =>
    /\ \A n \in Cached \cup {HeadNode} : mem[mem[n].next].prev = n /\ mem[mem[n].prev].next = n
    /\ size = Cardinality(Cached) /\ size <= Capacity
    /\ \A m, n \in Cached : mem[m].path = mem[n].path => m = n
    /\ live = {HeadNode} \cup Cached \cup Private

(***************************************************************************)
(* When the cache is full an entry leaves it (cache.c:23): between updates *)
(* there are never more than Capacity, whatever size says.                 *)
(***************************************************************************)
CacheBounded == Settled => Cardinality(Cached) <= Capacity

(***************************************************************************)
(* A request that is in the cache is answered from it (proxy.c:87): the    *)
(* node search has found is not freed before its data was sent.            *)
(***************************************************************************)
HitKept ==
  [][\A t \in Threads : pc[t] \in {"hit97", "hit102", "hit104"} /\ node[t] \in live
                         => node[t] \in live']_vars

(***************************************************************************)
(* A connection the other side has closed costs the proxy a warning        *)
(* (csapp.c:914) and not its life.                                         *)
(***************************************************************************)
SurvivesResets == status = "crashed" => ub # {}

(***************************************************************************)
(* No thread uses a block after it was freed, frees one twice, follows a   *)
(* pointer nobody has written, copies past the end of buf, or parses or    *)
(* sends what nobody has written.                                          *)
(***************************************************************************)
NoUndefinedBehaviour == ub = {}

(***************************************************************************)
(* What a client receives is the page it asked for: a cached node is never *)
(* answered to a request for another path, whatever was evicted, freed and *)
(* reused between the lookup and the write.                                *)
(***************************************************************************)
RightPage ==
  \A c \in Clients : reply[c] # NoReply => Path[reply[c]] = Path[want[c]]

(***************************************************************************)
(* A page comes from the host the client named.                            *)
(***************************************************************************)
RightOrigin ==
  \A c \in Clients : reply[c] # NoReply => Host[reply[c]] = Host[want[c]]

(***************************************************************************)
(* Every connection whose client has sent its request, for a page of an    *)
(* origin that answers, is closed in the end, unless the process has       *)
(* stopped: no thread waits for another one, or for another's client.      *)
(***************************************************************************)
Answered ==
  \A c \in Clients :
    (conn[c] = "accepted" /\ Host[want[c]] \notin Silent)
      ~> (conn[c] = "idle" \/ status # "running")
=============================================================================
