--------------------------------- MODULE Tiny ---------------------------------
(***************************************************************************)
(* The tiny web server (tiny.c) with its CGI program (adder.c): one        *)
(* connection after the other, static files and dynamic content from a     *)
(* child process.  A client sends a request line, then the headers, in one *)
(* piece or in two, and reads until the end of the file.                   *)
(*                                                                         *)
(* A uri is a path and its arguments.  Most files keep what they are; the  *)
(* page named Page is replaced, cut and removed by others while the server *)
(* runs.  A response is the path it was made from, its code, the           *)
(* Content-length it promises, and what follows.                           *)
(* The calls of sprintf that read the buffer they write (tiny.c:120, :198) *)
(* append, as they do in a libc that is not fortified.                     *)
(***************************************************************************)
EXTENDS Integers, Sequences

CONSTANTS
  Clients,
  Requests,    \* what clients ask for
  File,        \* [paths -> what stat and execve find there]
  Dynamic,     \* the paths with "cgi-bin" in them
  Page,        \* the path of the file that changes
  PageSizes,   \* its sizes; Absent when it has been removed
  Slow,        \* the clients that may never send the rest of their request
  Rude         \* the clients that may hang up or reset their connection

Absent == -1
NoUri == [path |-> "none", args |-> ""]
Junk == "junk"
ErrorLength == 9

TinyAssumption ==
  /\ PageSizes \subseteq Nat \cup {Absent} /\ Page \notin Dynamic /\ File[Page] = "regular"
  /\ \A r \in Requests :
       /\ r.uri = [path |-> r.uri.path, args |-> r.uri.args]
       /\ r.uri = NoUri \/ r.uri.path \in DOMAIN File

VARIABLES
  spc,         \* the line of tiny.c the server executes next
  fds,         \* the descriptors it has open, besides the standard ones
  serving,     \* the client of connfd
  rio,         \* what rio_t holds of the request
  method, uri, \* of doit; both keep what the last request left in them
  cgiargs,
  size,        \* sbuf.st_size
  got,         \* how many bytes of srcp were read from the file
  child,       \* the child process: "none", "forked", "execs", "adds", "ended"
  page,        \* the size of Page
  conn,        \* each connection: how far it is, and how it ended
  peer,        \* whether its client is still there
  ask,         \* what each client asks for
  sent,        \* how many pieces of its request it has sent
  inbox,       \* those the server has not read
  stalled,     \* the clients that will not send any more
  reply,       \* what each client is sent
  status       \* of the server: "running", or "exited" through unix_error

requestVars == <<rio, method, uri, cgiargs>>
fileVars == <<size, got>>
clientVars == <<ask, peer, sent, stalled>>
envVars == <<page, conn, clientVars>>
vars == <<spc, fds, serving, requestVars, fileVars, child, envVars, inbox, reply, status>>

\* body: the bytes after the header; read: those that come from the file or the
\* program that was asked for; log: whether something else comes before them.
Response(path, code, length, body, read) ==
  [path |-> path, code |-> code, length |-> length, body |-> body, read |-> read, log |-> FALSE]
NoReply == Response("none", 0, -1, 0, 0)

\* main, after Open_listenfd; the frame of doit holds whatever was there.
Init ==
  /\ spc = "accept45" /\ fds = {"listenfd"} /\ serving = "none"
  /\ rio = << >> /\ method = Junk /\ uri = [path |-> Junk, args |-> ""] /\ cgiargs = ""
  /\ size = 0 /\ got = 0 /\ child = "none" /\ page \in PageSizes
  /\ conn = [c \in Clients |-> "none"] /\ peer = [c \in Clients |-> "here"]
  /\ ask \in [Clients -> Requests]
  /\ sent = [c \in Clients |-> 0] /\ inbox = [c \in Clients |-> << >>] /\ stalled = {}
  /\ reply = [c \in Clients |-> NoReply] /\ status = "running"

Goto(from, to) == spc = from /\ spc' = to

\* unix_error: the server exits, and the kernel closes what it had open.
Exit ==
  /\ status' = "exited"
  /\ UNCHANGED <<spc, fds, serving, requestVars, fileVars, child, envVars, inbox, reply>>

\* Rio_writen: a reset is ignored, SIGPIPE too, and the server goes on.
Writes(response) == reply' = [reply EXCEPT ![serving] = response]

-----------------------------------------------------------------------------
(* The clients, and whoever changes the page *)

Connect(c) ==
  /\ conn[c] = "none" /\ conn' = [conn EXCEPT ![c] = "queued"]
  /\ UNCHANGED <<spc, fds, serving, requestVars, fileVars, child, page, clientVars, inbox, reply, status>>

\* The request line, then the headers and their empty line.  When the server
\* has closed the connection, it answers with a reset, and the client may not
\* get to read what it was sent.
SendPiece(c) ==
  /\ conn[c] \in {"queued", "open", "closed"} /\ peer[c] = "here"
  /\ sent[c] < 2 /\ c \notin stalled
  /\ sent' = [sent EXCEPT ![c] = @ + 1]
  /\ IF conn[c] = "closed"
     THEN conn' = [conn EXCEPT ![c] = "reset"] /\ UNCHANGED inbox
     ELSE inbox' = [inbox EXCEPT ![c] = Append(@, sent'[c])] /\ UNCHANGED conn
  /\ UNCHANGED <<spc, fds, serving, requestVars, fileVars, child, page, ask, peer, stalled, reply, status>>

Stall(c) ==
  /\ c \in Slow /\ sent[c] < 2 /\ stalled' = stalled \cup {c}
  /\ UNCHANGED <<spc, fds, serving, requestVars, fileVars, child, page, conn, ask, peer, sent, inbox, reply, status>>

\* The client closes its end, in order or with a reset.
Leave(c) ==
  /\ c \in Rude /\ conn[c] \in {"queued", "open"} /\ peer[c] = "here"
  /\ \E how \in {"left", "aborted"} : peer' = [peer EXCEPT ![c] = how]
  /\ UNCHANGED <<spc, fds, serving, requestVars, fileVars, child, page, conn, ask, sent, stalled, inbox, reply, status>>

ChangePage ==
  /\ page' \in PageSizes
  /\ UNCHANGED <<spc, fds, serving, requestVars, fileVars, child, conn, clientVars, inbox, reply, status>>

-----------------------------------------------------------------------------
(* Reading the request *)

\* Rio_readlineb fails on a connection that was reset, and exits.
ReadError ==
  /\ spc \in {"readline72", "headers82"} /\ rio = << >> /\ peer[serving] = "aborted"
  /\ Exit

\* One call to read takes some of the pieces that have arrived.
Arrived(k) ==
  /\ k \in 1..Len(inbox[serving])
  /\ inbox' = [inbox EXCEPT ![serving] = SubSeq(@, k + 1, Len(@))]
AtEnd == inbox[serving] = << >> /\ peer[serving] = "left" /\ UNCHANGED inbox

Accept45(c) ==
  /\ Goto("accept45", "readline72") /\ conn[c] = "queued"
  /\ serving' = c /\ fds' = fds \cup {"connfd"} /\ conn' = [conn EXCEPT ![c] = "open"]
  /\ rio' = << >>
  /\ UNCHANGED <<method, uri, cgiargs, fileVars, child, page, clientVars, inbox, reply, status>>

\* sscanf stores the words it finds; what is missing keeps its old value, or
\* whatever the calls since then have left in the frame.
StaleUris == {uri, [path |-> Junk, args |-> ""]}
Readline72 ==
  /\ Goto("readline72", "method77")
  /\ \/ /\ \E k \in 1..2 : Arrived(k) /\ rio' = SubSeq(inbox[serving], 2, k)
        /\ method' = ask[serving].method
        /\ uri' \in IF ask[serving].uri = NoUri THEN StaleUris ELSE {ask[serving].uri}
     \/ AtEnd /\ UNCHANGED rio /\ method' \in {method, Junk} /\ uri' \in StaleUris
  /\ UNCHANGED <<fds, serving, cgiargs, fileVars, child, envVars, reply, status>>

\* clienterror: four writes.
Clienterror(code) == Writes(Response(uri.path, code, ErrorLength, ErrorLength, ErrorLength))

Method77 ==
  /\ spc = "method77"
  /\ \/ method = "GET" /\ spc' = "headers82" /\ UNCHANGED reply
     \/ method # "GET" /\ spc' = "close51" /\ Clienterror(501)
  /\ UNCHANGED <<fds, serving, requestVars, fileVars, child, envVars, inbox, status>>

\* Variant with a defect: the loop does not look for the end of the file.
Headers82NoEof ==
  /\ Goto("headers82", "stat85") /\ rio' = << >>
  /\ \/ rio # << >> /\ UNCHANGED inbox
     \/ rio = << >> /\ Arrived(1)
  /\ UNCHANGED <<fds, serving, method, uri, cgiargs, fileVars, child, envVars, reply, status>>

\* read_requesthdrs reads until the empty line, which ends the second piece,
\* or the end of the file.
Headers82 ==
  /\ Goto("headers82", "stat85") /\ rio' = << >>
  /\ \/ rio # << >> /\ UNCHANGED inbox
     \/ rio = << >> /\ (Arrived(1) \/ AtEnd)
  /\ UNCHANGED <<fds, serving, method, uri, cgiargs, fileVars, child, envVars, reply, status>>

-----------------------------------------------------------------------------
(* Answering it *)

IsStatic == uri.path \notin Dynamic
Found == IF (uri.path = Page /\ page = Absent) \/ uri.path \notin DOMAIN File
         THEN "nothing" ELSE File[uri.path]

\* parse_uri cuts the arguments off uri.
ParseUri ==
  /\ cgiargs' = IF IsStatic THEN "" ELSE uri.args
  /\ uri' = IF IsStatic THEN uri ELSE [uri EXCEPT !.args = ""]

Stat85 ==
  /\ spc = "stat85" /\ ParseUri
  /\ size' = IF uri.path = Page THEN page ELSE 1
  /\ \/ Found = "nothing" /\ spc' = "close51" /\ Clienterror(404)
     \/ /\ Found = "forbidden" \/ (~IsStatic /\ Found = "regular")
        /\ spc' = "close51" /\ Clienterror(403)
     \/ IsStatic /\ Found \in {"regular", "program", "broken"} /\ spc' = "header202" /\ UNCHANGED reply
     \/ ~IsStatic /\ Found \in {"program", "broken"} /\ spc' = "head248" /\ UNCHANGED reply
  /\ UNCHANGED <<fds, serving, rio, method, got, child, envVars, inbox, status>>

\* serve_static, as far as the end of the response header.
Header202 ==
  /\ Goto("header202", "open206")
  /\ Writes(Response(uri.path, 200, size, 0, 0))
  /\ UNCHANGED <<fds, serving, requestVars, fileVars, child, envVars, inbox, status>>

Open206 ==
  /\ Goto("open206", "read209") /\ Found # "nothing"
  /\ fds' = fds \cup {"srcfd"}
  /\ UNCHANGED <<serving, requestVars, fileVars, child, envVars, inbox, reply, status>>

\* Open exits when the file has been removed since stat.
Open206Error == spc = "open206" /\ Found = "nothing" /\ Exit

\* Rio_readn, which returns less when the file has been cut since; Close.
\* A file that was removed after it was opened can still be read.
Read209 ==
  /\ Goto("read209", "write211")
  /\ got' = IF uri.path = Page /\ page \in 0..size THEN page ELSE size
  /\ fds' = fds \ {"srcfd"}
  /\ UNCHANGED <<serving, requestVars, size, child, envVars, inbox, reply, status>>

\* Variant with a defect: what was read is sent.
Write211Read ==
  /\ Goto("write211", "close51")
  /\ Writes([reply[serving] EXCEPT !.body = got, !.read = got])
  /\ UNCHANGED <<fds, serving, requestVars, fileVars, child, envVars, inbox, status>>

\* filesize bytes are sent, those that were not read included.
Write211 ==
  /\ Goto("write211", "close51")
  /\ Writes([reply[serving] EXCEPT !.body = size, !.read = got])
  /\ UNCHANGED <<fds, serving, requestVars, fileVars, child, envVars, inbox, status>>

\* serve_dynamic: two lines of the header, then a child.
Head248 ==
  /\ Goto("head248", "fork252")
  /\ Writes(Response(uri.path, 200, -1, 0, 0))
  /\ UNCHANGED <<fds, serving, requestVars, fileVars, child, envVars, inbox, status>>

Fork252 ==
  /\ Goto("fork252", "wait257") /\ child' = "forked"
  /\ UNCHANGED <<fds, serving, requestVars, fileVars, envVars, inbox, reply, status>>

Fork252Error == spc = "fork252" /\ Exit

\* Variant with a defect: the parent does not wait.
Wait257Not ==
  /\ Goto("wait257", "close51")
  /\ UNCHANGED <<fds, serving, requestVars, fileVars, child, envVars, inbox, reply, status>>

Wait257 ==
  /\ Goto("wait257", "close51") /\ child = "ended" /\ child' = "none"
  /\ UNCHANGED <<fds, serving, requestVars, fileVars, envVars, inbox, reply, status>>

\* The connection of a client whose request has not been read to the end is
\* reset, and the client may lose what it was sent.
Close51 ==
  /\ Goto("close51", "accept45")
  /\ fds' = fds \ {"connfd"} /\ serving' = "none" /\ rio' = << >>
  /\ conn' = [conn EXCEPT ![serving] = IF inbox[serving] # << >> THEN "reset" ELSE "closed"]
  /\ inbox' = [inbox EXCEPT ![serving] = << >>]
  /\ UNCHANGED <<method, uri, cgiargs, fileVars, child, page, clientVars, reply, status>>

-----------------------------------------------------------------------------
(* The child *)

\* The child writes to the connection of the request it was forked for.
ChildGoes(from, to) ==
  /\ child = from /\ child' = to
  /\ UNCHANGED <<spc, fds, serving, requestVars, fileVars, envVars, inbox, status>>

\* setenv and Dup2.
Dup254 == ChildGoes("forked", "execs") /\ UNCHANGED reply

Execve255 == Found = "program" /\ ChildGoes("execs", "adds") /\ UNCHANGED reply

\* Execve exits, and exit writes what the child's copy of stdout still holds:
\* the messages of the parent, when its stdout is not a terminal.
Execve255Error ==
  /\ Found = "broken" /\ ChildGoes("execs", "ended")
  /\ \/ reply' = [reply EXCEPT ![serving].log = TRUE]
     \/ UNCHANGED reply

\* adder.c: without an ampersand in QUERY_STRING it writes through null.
Adder ==
  /\ ChildGoes("adds", "ended")
  /\ IF cgiargs = "a&b" THEN reply' = [reply EXCEPT ![serving].length = 8, ![serving].body = 8, ![serving].read = 8]
     ELSE UNCHANGED reply

Running == status = "running"
Child == Running /\ (Dup254 \/ Execve255 \/ Execve255Error \/ Adder)

Serve ==
  \/ \E c \in Clients : Accept45(c)
  \/ Readline72 \/ ReadError \/ Method77 \/ Headers82 \/ Stat85
  \/ Header202 \/ Open206 \/ Open206Error \/ Read209 \/ Write211
  \/ Head248 \/ Fork252 \/ Fork252Error \/ Wait257 \/ Close51
Server == Running /\ Serve

Send(c) == Running /\ SendPiece(c)
Client(c) == Connect(c) \/ Stall(c) \/ Leave(c)

Next ==
  \/ Server \/ Child
  \/ \E c \in Clients : Send(c)
  \/ Running /\ (ChangePage \/ \E c \in Clients : Client(c))

Spec == Init /\ [][Next]_vars
-----------------------------------------------------------------------------
(* Properties *)

(***************************************************************************)
(* A client that has sent a well formed GET request gets to read the       *)
(* response to the end, the response is about the path it asked for with   *)
(* the code that fits, and its body is as long as its header promises,     *)
(* whatever happens to the file and to the clients before it.  To another  *)
(* method the answer is 501, unless a reset takes it away.                 *)
(***************************************************************************)
Codes(u) ==
  CASE u.path = Page -> {200, 404}
    [] File[u.path] = "nothing" -> {404}
    [] File[u.path] = "forbidden" \/ (u.path \in Dynamic /\ File[u.path] = "regular") -> {403}
    [] OTHER -> {200}
Framed(r) ==
  /\ r.length # -1 /\ r.body = r.length /\ ~r.log
  /\ r.path # Page => r.read = r.body
Asked(c) == conn[c] \in {"closed", "reset"} /\ peer[c] = "here" /\ ask[c].uri # NoUri
TinyAnswers ==
  \A c \in Clients : Asked(c) =>
    IF ask[c].method = "GET"
    THEN /\ conn[c] = "closed"
         /\ reply[c].path = ask[c].uri.path /\ reply[c].code \in Codes(ask[c].uri)
         /\ (ask[c].uri.path \in Dynamic => ask[c].uri.args = "a&b" /\ File[ask[c].uri.path] # "broken")
            => Framed(reply[c])
    ELSE reply[c].code = 501

(***************************************************************************)
(* Whichever way a request ends, when the server waits for the next one it *)
(* has only the listening socket open, and no child.                       *)
(***************************************************************************)
NoDescriptorLeft == spc = "accept45" => fds = {"listenfd"} /\ child = "none"

(***************************************************************************)
(* A client that has sent its request is served, unless the server has     *)
(* exited or reads from a client that does not send any more.              *)
(***************************************************************************)
Blocked == spc \in {"readline72", "headers82"} /\ serving \in stalled /\ inbox[serving] = << >>
TinyServes ==
  \A c \in Clients :
    (conn[c] \in {"queued", "open"} /\ sent[c] = 2)
      ~> (conn[c] \notin {"queued", "open"} \/ status = "exited" \/ Blocked)
=============================================================================
