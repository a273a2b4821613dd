------------------------------- MODULE MCWeek6 -------------------------------
(***************************************************************************)
(* The network programs of week 6 beside the proxy, for TLC: the Rio       *)
(* package and the socket functions of csapp.c, the echo programs, and the *)
(* tiny web server.  They share nothing, and a behaviour is of one of them.*)
(* IsByteStream is that of Rio.                                            *)
(***************************************************************************)
EXTENDS Rio

CONSTANTS
  Structures,                                  \* the programs behaviours may be of
  EchoClients, Texts, MaxLine, Mortal,                               \* of Echo
  TinyClients, Requests, File, Dynamic, Page, PageSizes, Slow, Rude, \* of Tiny
  MaxAddresses                                                       \* of Sockets

\* Two bytes, one of which ends a line; with MaxLine = 3 a line has two at most.
InputLines == {<< >>, <<"a", "nl">>, <<"a", "a", "a", "nl">>, <<"nl", "a">>, <<"a", "a">>}

Get(path, args) == [method |-> "GET", uri |-> [path |-> path, args |-> args]]
TinyRequests ==
  {Get("/page", ""), Get("/dir", ""), Get("/cgi-bin/adder", "a&b"), Get("/cgi-bin/adder", "a"),
   Get("/cgi-bin/script", "a&b"), Get("/none", ""), Get("none", ""),
   [method |-> "POST", uri |-> [path |-> "/page", args |-> ""]]}
TinyFiles ==
  [path \in {"/page", "/dir", "/cgi-bin/adder", "/cgi-bin/script", "/none"} |->
     CASE path = "/page" -> "regular" [] path = "/dir" -> "forbidden" [] path = "/cgi-bin/adder" -> "program"
       [] path = "/cgi-bin/script" -> "broken" [] path = "/none" -> "nothing"]
TinyPageSizes == {-1, 1, 2}

VARIABLES
  structure,   \* the program this behaviour is of
  given, text, cpc, line, printed, echoConn, up, down, echoServing, echoed, echoStatus,
  spc, fds, serving, rio, method, uri, cgiargs, size, got, child, page, conn, peer,
  ask, sent, inbox, stalled, reply, tinyStatus,
  opening, next, left, listp, fd, rc, closeFailed, openStatus

Echo == INSTANCE Echo WITH Clients <- EchoClients, conn <- echoConn, serving <- echoServing, status <- echoStatus
Tiny == INSTANCE Tiny WITH Clients <- TinyClients, status <- tinyStatus
Sockets == INSTANCE Sockets WITH call <- opening, status <- openStatus

ASSUME ProgramsAssumption ==
  Echo!EchoAssumption /\ Tiny!TinyAssumption /\ Sockets!SocketsAssumption

echoVars == <<given, text, cpc, line, printed, echoConn, up, down, echoServing, echoed, echoStatus>>
tinyVars == <<spc, fds, serving, rio, method, uri, cgiargs, size, got, child, page, conn, peer,
              ask, sent, inbox, stalled, reply, tinyStatus>>
openVars == <<opening, next, left, listp, fd, rc, closeFailed, openStatus>>
week6Vars == <<structure, vars, echoVars, tinyVars, openVars>>

\* The programs that do not run keep one of their initial states.
Week6Init ==
  /\ structure \in Structures
  /\ Init /\ (structure # "rio" => buffered /\ tolerant)
  /\ Echo!Init /\ (structure # "echo" => given = [c \in EchoClients |-> << >>])
  /\ Tiny!Init /\ (structure # "tiny" => page = Tiny!Absent /\ ask = [c \in TinyClients |-> CHOOSE r \in Requests : TRUE])
  /\ Sockets!Init /\ (structure # "open" => opening = "client")

RioOnly == structure = "rio" /\ UNCHANGED <<structure, echoVars, tinyVars, openVars>>
EchoOnly == structure = "echo" /\ UNCHANGED <<structure, vars, tinyVars, openVars>>
TinyOnly == structure = "tiny" /\ UNCHANGED <<structure, vars, echoVars, openVars>>
OpenOnly == structure = "open" /\ UNCHANGED <<structure, vars, echoVars, tinyVars>>

Week6Next ==
  \/ RioOnly /\ Next
  \/ EchoOnly /\ Echo!Next
  \/ TinyOnly /\ Tiny!Next
  \/ OpenOnly /\ Sockets!Next

Week6Spec == Week6Init /\ [][Week6Next]_week6Vars

(***************************************************************************)
(* The processes are scheduled: a server, a child or an echo client that   *)
(* can take a step takes one, and a client of tiny sends its request       *)
(* unless it stalls.  Nobody has to hang up, to change a file or to be     *)
(* killed.                                                                 *)
(***************************************************************************)
EchoFair ==
  /\ WF_week6Vars(EchoOnly /\ Echo!Server)
  /\ \A c \in EchoClients : WF_week6Vars(EchoOnly /\ Echo!Client(c))
TinyFair ==
  /\ WF_week6Vars(TinyOnly /\ Tiny!Server) /\ WF_week6Vars(TinyOnly /\ Tiny!Child)
  /\ \A c \in TinyClients : WF_week6Vars(TinyOnly /\ Tiny!Send(c))

FairSpec == Week6Spec /\ EchoFair /\ TinyFair
-----------------------------------------------------------------------------

(***************************************************************************)
(* echo.c, echoserver.c, echoclient.c: no byte is lost, doubled or moved,  *)
(* and every client ends, but for a last line without a newline.           *)
(***************************************************************************)
EchoExact == Echo!EchoExact
EchoServes == structure = "echo" => Echo!EchoServes

(***************************************************************************)
(* tiny.c, adder.c: a well formed request gets the response that belongs   *)
(* to it, in one piece; no client that has sent its request waits for ever *)
(* behind one that ends.                                                   *)
(***************************************************************************)
TinyAnswers == Tiny!TinyAnswers
TinyServes == Tiny!TinyServes

(***************************************************************************)
(* No request leaves tiny with a descriptor or a child too many, and no    *)
(* way out of the socket functions of csapp.c leaves a descriptor open     *)
(* that the program does not get.                                          *)
(***************************************************************************)
NoDescriptorLeft == Tiny!NoDescriptorLeft /\ Sockets!OpenSettles
=============================================================================
