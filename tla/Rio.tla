---------------------------------- MODULE Rio ----------------------------------
(***************************************************************************)
(* The Rio package of csapp.c on one connection, one system call a step.   *)
(* The program reads a line or a count of bytes, as often as it likes, and *)
(* writes back what it got, as echo.c does; it reads the connection either *)
(* through the buffer of rio_t or without one.                             *)
(*                                                                         *)
(* Of rio_t the bytes from rio_bufptr on are kept, rio_cnt is their number *)
(* (0 and -1 both lead to a refill).  read and write return fewer bytes    *)
(* than they are asked for whenever they like.  One that is interrupted is *)
(* called again and changes nothing, so that it has no action.             *)
(***************************************************************************)
EXTENDS Integers, Sequences

CONSTANTS
  Bytes, Newline, LineSizes, Counts,   \* as in ByteStream
  BufSize,     \* RIO_BUFSIZE
  MaxStream    \* how many bytes a behaviour holds at most

ASSUME RioAssumption ==
  /\ Newline \in Bytes /\ LineSizes \subseteq Nat \ {0, 1} /\ Counts \subseteq Nat \ {0}
  /\ BufSize \in Nat \ {0} /\ MaxStream \in Nat

VARIABLES
  socket,      \* received by the kernel and not yet read
  ended,       \* the peer has closed its end
  buffered,    \* whether the program reads through rio_t
  tolerant,    \* whether its copy of csapp.c ignores a reset in Rio_writen
  unread,      \* what rio_buf still holds
  call,        \* the call under way: its kind and its argument
  usrbuf,      \* what the call has put into the program's buffer, or still has to write
  answer,      \* what the last call to read was, and what it returned
  wire,        \* what has been written to the connection
  status       \* "running", or "exited" through unix_error

program == <<buffered, tolerant>>
vars == <<socket, ended, program, unread, call, usrbuf, answer, wire, status>>

Call(op, n) == [op |-> op, n |-> n]
Idle == Call("none", 0)
Answer(op, n, data) == [op |-> op, n |-> n, data |-> data]
Rest(s, k) == SubSeq(s, k + 1, Len(s))
Least(a, b) == IF a < b THEN a ELSE b
Reading == status = "running" /\ call.op \in {"line", "readnb", "readn"}
Unwritten == IF call.op = "write" THEN usrbuf ELSE << >>
Got == IF call.op = "write" THEN << >> ELSE usrbuf
Seen == Len(wire) + Len(Unwritten) + Len(answer.data) + Len(Got) + Len(unread) + Len(socket)

Init ==
  /\ socket = << >> /\ ended = FALSE /\ buffered \in BOOLEAN /\ tolerant \in BOOLEAN
  /\ unread = << >> /\ call = Idle /\ usrbuf = << >>
  /\ answer = Answer("none", 0, << >>) /\ wire = << >> /\ status = "running"

Arrive ==
  /\ ~ended /\ Seen < MaxStream
  /\ \E b \in Bytes : socket' = Append(socket, b)
  /\ UNCHANGED <<ended, program, unread, call, usrbuf, answer, wire, status>>

PeerCloses ==
  /\ ~ended /\ ended' = TRUE
  /\ UNCHANGED <<socket, program, unread, call, usrbuf, answer, wire, status>>

Begin ==
  /\ status = "running" /\ call = Idle
  /\ \/ buffered /\ \E m \in LineSizes : call' = Call("line", m)
     \/ \E n \in Counts : call' = Call(IF buffered THEN "readnb" ELSE "readn", n)
  /\ UNCHANGED <<socket, ended, program, unread, usrbuf, answer, wire, status>>

\* The call goes on with data in usrbuf, or returns it.
Continue(data, done) ==
  /\ usrbuf' = IF done THEN << >> ELSE data
  /\ call' = IF done THEN Idle ELSE call
  /\ answer' = IF done THEN Answer(call.op, call.n, data) ELSE answer
  /\ UNCHANGED <<ended, program, wire, status>>

\* rio_read with an empty buffer: read returns some bytes.
Refill ==
  /\ Reading /\ buffered /\ unread = << >>
  /\ \E k \in 1..Least(BufSize, Len(socket)) :
       unread' = SubSeq(socket, 1, k) /\ socket' = Rest(socket, k)
  /\ UNCHANGED <<ended, program, call, usrbuf, answer, wire, status>>

\* Variant with a defect: the newline is looked for before the byte is stored.
TakeByteLate ==
  /\ Reading /\ call.op = "line" /\ unread # << >>
  /\ unread' = Tail(unread) /\ UNCHANGED socket
  /\ LET line == Append(usrbuf, Head(unread))
     IN  Continue(line, (usrbuf # << >> /\ usrbuf[Len(usrbuf)] = Newline) \/ Len(line) = call.n - 1)

\* rio_readlineb: the next byte of the line.
TakeByte ==
  /\ Reading /\ call.op = "line" /\ unread # << >>
  /\ unread' = Tail(unread) /\ UNCHANGED socket
  /\ LET line == Append(usrbuf, Head(unread))
     IN  Continue(line, Head(unread) = Newline \/ Len(line) = call.n - 1)

\* rio_readnb: as much of the buffer as it still wants.
TakeBytes ==
  /\ Reading /\ call.op = "readnb" /\ unread # << >>
  /\ LET k == Least(call.n - Len(usrbuf), Len(unread))
     IN  /\ unread' = Rest(unread, k) /\ UNCHANGED socket
         /\ Continue(usrbuf \o SubSeq(unread, 1, k), Len(usrbuf) + k = call.n)

\* rio_readn: read returns some of the bytes it still wants.
ReadDirect ==
  /\ Reading /\ call.op = "readn"
  /\ \E k \in 1..Least(call.n - Len(usrbuf), Len(socket)) :
       /\ socket' = Rest(socket, k) /\ UNCHANGED unread
       /\ Continue(usrbuf \o SubSeq(socket, 1, k), Len(usrbuf) + k = call.n)

\* read returns 0: the call returns what it has, nothing included.
ReadEof ==
  /\ Reading /\ unread = << >> /\ socket = << >> /\ ended
  /\ Continue(usrbuf, TRUE) /\ UNCHANGED <<socket, unread>>

\* read fails: the call returns -1, what it has read is lost, the wrapper exits.
ReadError ==
  /\ Reading /\ unread = << >>
  /\ status' = "exited" /\ call' = Idle /\ usrbuf' = << >>
  /\ UNCHANGED <<socket, ended, program, unread, answer, wire>>

BeginWrite ==
  /\ status = "running" /\ call = Idle /\ answer.data # << >>
  /\ call' = Call("write", Len(answer.data)) /\ usrbuf' = answer.data
  /\ answer' = [answer EXCEPT !.data = << >>]
  /\ UNCHANGED <<socket, ended, program, unread, wire, status>>

WriteSome ==
  /\ status = "running" /\ call.op = "write"
  /\ \E k \in 1..Len(usrbuf) :
       /\ wire' = wire \o SubSeq(usrbuf, 1, k) /\ usrbuf' = Rest(usrbuf, k)
       /\ call' = IF k = Len(usrbuf) THEN Idle ELSE call
  /\ UNCHANGED <<socket, ended, program, unread, answer, status>>

\* write fails, and Rio_writen exits.
WriteError ==
  /\ status = "running" /\ call.op = "write"
  /\ call' = Idle /\ usrbuf' = << >> /\ status' = "exited"
  /\ UNCHANGED <<socket, ended, program, unread, answer, wire>>

\* The connection was reset, and Rio_writen returns as if it had written everything.
WriteReset ==
  /\ status = "running" /\ call.op = "write" /\ tolerant
  /\ call' = Idle /\ usrbuf' = << >>
  /\ UNCHANGED <<socket, ended, program, unread, answer, wire, status>>

Next ==
  \/ Arrive \/ PeerCloses
  \/ Begin \/ Refill \/ TakeByte \/ TakeBytes \/ ReadDirect \/ ReadEof \/ ReadError
  \/ BeginWrite \/ WriteSome \/ WriteError \/ WriteReset

Spec == Init /\ [][Next]_vars
-----------------------------------------------------------------------------

(***************************************************************************)
(* However the kernel cuts the stream, a program that reads lines and      *)
(* counts of bytes in any order gets every byte once and in order, a line  *)
(* ends where it should, a count is short only at the end of the file, and *)
(* what it writes arrives as it was written.                               *)
(***************************************************************************)
Stream == INSTANCE ByteStream WITH pending <- Got \o unread \o socket, out <- wire \o Unwritten
IsByteStream == Stream!Spec
=============================================================================
