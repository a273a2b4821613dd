--------------------------------- MODULE Echo ---------------------------------
(***************************************************************************)
(* The echo server and its clients (echoserver.c, echo.c, echoclient.c).   *)
(* The server is iterative: it serves one connection until its end, and    *)
(* the others wait in the queue of the listening socket, in an order that  *)
(* is not kept here.  A client sends one line and waits for its echo.      *)
(* Lines are cut at MAXLINE - 1 bytes, by Fgets and by rio_readlineb; a    *)
(* connection keeps the promise of ByteStream (see Rio).                   *)
(***************************************************************************)
EXTENDS Integers, Sequences, SequencesExt

CONSTANTS
  Clients,
  Texts,       \* what the standard input of a client may hold
  Newline,     \* the byte that ends a line
  MaxLine,     \* MAXLINE
  Mortal       \* the clients somebody may kill

None == "none"
Byte == UNION {Range(t) : t \in Texts}

EchoAssumption ==
  /\ MaxLine \in Nat \ {0, 1} /\ Mortal \subseteq Clients /\ None \notin Clients
  /\ Texts \subseteq Seq(Byte)

VARIABLES
  given,       \* the standard input of each client, as it was at the start
  text,        \* what is left of it
  cpc,         \* what each client does next, or how it ended
  line,        \* buf of each client
  printed,     \* what each client has printed
  conn,        \* each connection, as the server's kernel sees it
  up, down,    \* the bytes on their way to the server, and to the client
  serving,     \* the client of connfd; None between two connections
  echoed,      \* buf of the server, between the read and the write
  status       \* of the server: "running", or "exited" through unix_error or SIGPIPE

clientVars == <<given, text, cpc, line, printed>>
serverVars == <<serving, echoed, status>>
vars == <<clientVars, conn, up, down, serverVars>>

Init ==
  /\ given \in [Clients -> Texts] /\ text = given
  /\ cpc = [c \in Clients |-> "open"] /\ conn = [c \in Clients |-> "none"]
  /\ line = [c \in Clients |-> << >>] /\ printed = line /\ up = line /\ down = line
  /\ serving = None /\ echoed = << >> /\ status = "running"

\* Where the next line of s may end; Fgets and rio_readlineb take the first.
Ends(s) == {k \in 1..Len(s) : s[k] = Newline \/ k = MaxLine - 1}
First(S) == CHOOSE k \in S : \A j \in S : k <= j
\* The next line; at the end of the file what is left is one, too.
NextLine(s) == IF Ends(s) = {} THEN s ELSE SubSeq(s, 1, First(Ends(s)))
Drop(s, l) == SubSeq(s, Len(l) + 1, Len(s))
\* The far end closed, in order or not, or was killed.
Gone(c) == cpc[c] \in {"closed", "killed", "exited"}

-----------------------------------------------------------------------------
(* The client *)

\* Open_clientfd: the kernel accepts the connection for a server that is busy.
Open17(c) ==
  /\ cpc[c] = "open"
  /\ IF status = "running"
     THEN cpc' = [cpc EXCEPT ![c] = "fgets"] /\ conn' = [conn EXCEPT ![c] = "queued"]
     ELSE cpc' = [cpc EXCEPT ![c] = "exited"] /\ UNCHANGED conn
  /\ UNCHANGED <<given, text, line, printed, up, down, serverVars>>

\* Fgets and Rio_writen.  When the server is gone, the write goes nowhere or fails.
Fgets23(c) ==
  /\ cpc[c] = "fgets" /\ text[c] # << >>
  /\ LET l == NextLine(text[c])
     IN  /\ line' = [line EXCEPT ![c] = l] /\ text' = [text EXCEPT ![c] = Drop(@, l)]
         /\ \/ /\ cpc' = [cpc EXCEPT ![c] = "read"]
               /\ up' = [up EXCEPT ![c] = IF status = "running" THEN @ \o l ELSE << >>]
            \/ status = "exited" /\ cpc' = [cpc EXCEPT ![c] = "exited"] /\ UNCHANGED up
  /\ UNCHANGED <<given, printed, conn, down, serverVars>>

\* Rio_readlineb and Fputs.
Read28(c) ==
  /\ cpc[c] = "read" /\ Ends(down[c]) # {}
  /\ LET l == NextLine(down[c])
     IN  /\ line' = [line EXCEPT ![c] = l] /\ down' = [down EXCEPT ![c] = Drop(@, l)]
         /\ printed' = [printed EXCEPT ![c] = @ \o l]
  /\ cpc' = [cpc EXCEPT ![c] = "fgets"]
  /\ UNCHANGED <<given, text, conn, up, serverVars>>

\* The server has died.  At the end of the file what came is printed, and when
\* nothing came buf still holds the line the client sent; or the read fails.
Read28Lost(c) ==
  /\ cpc[c] = "read" /\ status = "exited" /\ Ends(down[c]) = {}
  /\ LET l == IF down[c] = << >> THEN line[c] ELSE down[c]
     IN  \/ printed' = [printed EXCEPT ![c] = @ \o l] /\ cpc' = [cpc EXCEPT ![c] = "fgets"]
         \/ cpc' = [cpc EXCEPT ![c] = "exited"] /\ UNCHANGED printed
  /\ down' = [down EXCEPT ![c] = << >>]
  /\ UNCHANGED <<given, text, line, conn, up, serverVars>>

Close35(c) ==
  /\ cpc[c] = "fgets" /\ text[c] = << >>
  /\ cpc' = [cpc EXCEPT ![c] = "closed"]
  /\ UNCHANGED <<given, text, line, printed, conn, up, down, serverVars>>

\* The kernel closes the connection of a process that is killed: in order, or
\* with a reset when bytes were left that nobody has read.
Kill(c) ==
  /\ c \in Mortal /\ cpc[c] \in {"fgets", "read"}
  /\ cpc' = [cpc EXCEPT ![c] = "killed"]
  /\ conn' = [conn EXCEPT ![c] = IF down[c] # << >> THEN "reset" ELSE @]
  /\ UNCHANGED <<given, text, line, printed, up, down, serverVars>>

-----------------------------------------------------------------------------
(* The server *)

Accept20(c) ==
  /\ serving = None /\ conn[c] = "queued"
  /\ serving' = c /\ conn' = [conn EXCEPT ![c] = "accepted"]
  /\ UNCHANGED <<clientVars, up, down, echoed, status>>

\* Variant with a defect: the server waits for one byte more than clients send.
Read10Long ==
  /\ serving # None /\ echoed = << >> /\ conn[serving] # "reset"
  /\ up[serving] # << >>
  /\ Newline \in Range(NextLine(up[serving])) \/ Len(up[serving]) >= MaxLine \/ Gone(serving)
  /\ echoed' = NextLine(up[serving])
  /\ up' = [up EXCEPT ![serving] = Drop(@, NextLine(@))]
  /\ UNCHANGED <<clientVars, conn, down, serving, status>>

\* Rio_readlineb, when it returns a line.
Read10 ==
  /\ serving # None /\ echoed = << >> /\ conn[serving] # "reset"
  /\ up[serving] # << >> /\ (Ends(up[serving]) # {} \/ Gone(serving))
  /\ echoed' = NextLine(up[serving])
  /\ up' = [up EXCEPT ![serving] = Drop(@, NextLine(@))]
  /\ UNCHANGED <<clientVars, conn, down, serving, status>>

\* It returns 0: echo returns, and main closes the connection.
Close24 ==
  /\ serving # None /\ echoed = << >> /\ conn[serving] # "reset"
  /\ up[serving] = << >> /\ Gone(serving)
  /\ conn' = [conn EXCEPT ![serving] = "closed"] /\ serving' = None
  /\ UNCHANGED <<clientVars, up, down, echoed, status>>

\* A client that is gone answers what is written with a reset, which may come too
\* late for the server, when it has read the end of the file by then.
Resets(c) == conn' \in {conn} \cup (IF Gone(c) THEN {[conn EXCEPT ![c] = "reset"]} ELSE {})

\* Variant with a defect: the last byte of a line is not sent back.
Write12Short ==
  /\ echoed # << >> /\ conn[serving] # "reset"
  /\ down' = [down EXCEPT ![serving] = @ \o SubSeq(echoed, 1, Len(echoed) - 1)]
  /\ Resets(serving)
  /\ echoed' = << >>
  /\ UNCHANGED <<clientVars, up, serving, status>>

\* Rio_writen.
Write12 ==
  /\ echoed # << >> /\ conn[serving] # "reset"
  /\ down' = [down EXCEPT ![serving] = @ \o echoed]
  /\ Resets(serving)
  /\ echoed' = << >>
  /\ UNCHANGED <<clientVars, up, serving, status>>

\* Rio_readlineb and Rio_writen exit on any error; SIGPIPE is not ignored.
Die ==
  /\ serving # None /\ conn[serving] = "reset"
  /\ status' = "exited" /\ serving' = None /\ echoed' = << >>
  /\ UNCHANGED <<clientVars, conn, up, down>>

Client(c) == Open17(c) \/ Fgets23(c) \/ Read28(c) \/ Read28Lost(c) \/ Close35(c)
Server ==
  /\ status = "running"
  /\ Read10 \/ Write12 \/ Close24 \/ Die \/ \E c \in Clients : Accept20(c)

Next == Server \/ \E c \in Clients : Client(c) \/ Kill(c)

Spec == Init /\ [][Next]_vars
-----------------------------------------------------------------------------
(* Properties *)

(***************************************************************************)
(* What a client prints is what it was given, from the start, and while    *)
(* the server runs every byte it was given is in exactly one place, in     *)
(* order: printed, on its way back, in the server, on its way there, or    *)
(* not yet read.                                                           *)
(***************************************************************************)
Inside(c) == IF serving = c THEN echoed ELSE << >>
EchoExact ==
  \A c \in Clients :
    /\ IsPrefix(printed[c], given[c])
    /\ status = "running" /\ cpc[c] # "killed" =>
         printed[c] \o down[c] \o Inside(c) \o up[c] \o text[c] = given[c]

(***************************************************************************)
(* Every client comes to its end, whoever else is killed, and whether or   *)
(* not the server survives it, unless some client waits for the echo of a  *)
(* last line without a newline, for which the server waits in turn.        *)
(***************************************************************************)
Stuck(c) ==
  /\ cpc[c] = "read" /\ text[c] = << >>
  /\ line[c][Len(line[c])] # Newline /\ Len(line[c]) < MaxLine - 1
EchoServes == <>(\/ \E c \in Clients : Stuck(c)
                 \/ \A c \in Clients : Gone(c))
=============================================================================
