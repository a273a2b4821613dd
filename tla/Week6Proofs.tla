------------------------------ MODULE Week6Proofs ------------------------------
(***************************************************************************)
(* What is proved about the network programs of week 6: that the Rio       *)
(* package keeps the promise of ByteStream, the socket functions settle,   *)
(* the echo programs lose no byte, and tiny answers what it is asked and   *)
(* leaves no descriptor open and no child waiting.                         *)
(*                                                                         *)
(* What a step of Rio does to the stream is in how the sequences it cuts   *)
(* and joins concatenate; beside them the argument needs only that a call  *)
(* under way has not yet what it wants.  The invariant of the socket       *)
(* functions says, for each system call, what the descriptor is when it    *)
(* comes next.  An echo connection is in lockstep: of the line a client    *)
(* waits for, one copy is somewhere between it and the server.  Each line  *)
(* of tiny.c has the descriptors it runs with, and only the line that      *)
(* waits has a child; and at each line the request that is served has been *)
(* read so far, is known by uri, method and cgiargs, and has so much of    *)
(* its answer.                                                             *)
(***************************************************************************)
EXTENDS MCWeek6, SequenceFacts, WellFoundedInduction

-----------------------------------------------------------------------------
(* The Rio package: a call under way has not yet what it wants. *)

Ops == {"none", "line", "readnb", "readn", "write"}
Types ==
  /\ socket \in Seq(Bytes) /\ unread \in Seq(Bytes) /\ usrbuf \in Seq(Bytes) /\ wire \in Seq(Bytes)
  /\ answer \in [op : Ops, n : Nat, data : Seq(Bytes)] /\ call \in [op : Ops, n : Nat]
CallUnfinished ==
  /\ call.op = "none" => usrbuf = << >>
  /\ call.op = "line" =>
       /\ call.n \in LineSizes /\ Len(usrbuf) < call.n - 1
       /\ \A i \in 1..Len(usrbuf) : usrbuf[i] # Newline
  /\ call.op \in {"readnb", "readn"} => call.n \in Counts /\ Len(usrbuf) < call.n
BufferUsed ==
  /\ ~buffered => unread = << >> /\ call.op \notin {"line", "readnb"}
  /\ buffered => call.op # "readn"
IInv == Types /\ CallUnfinished /\ BufferUsed

LEMMA InitIInv == Init => IInv
<1>1. << >> \in Seq(Bytes)
  BY EmptySeq
<1> SUFFICES ASSUME Init PROVE IInv
  OBVIOUS
<1>2. call = [op |-> "none", n |-> 0] /\ answer = [op |-> "none", n |-> 0, data |-> << >>]
  BY DEF Init, Idle, Call, Answer
<1>3. Types
  <2>1. call \in [op : Ops, n : Nat]
    BY <1>2 DEF Ops
  <2>2. answer \in [op : Ops, n : Nat, data : Seq(Bytes)]
    BY <1>1, <1>2 DEF Ops
  <2>3. socket \in Seq(Bytes) /\ unread \in Seq(Bytes) /\ usrbuf \in Seq(Bytes) /\ wire \in Seq(Bytes)
    BY <1>1 DEF Init
  <2> QED BY <2>1, <2>2, <2>3 DEF Types
<1>4. CallUnfinished
  BY <1>2 DEF Init, CallUnfinished
<1>5. BufferUsed
  BY <1>2 DEF Init, BufferUsed
<1> QED BY <1>3, <1>4, <1>5 DEF IInv

-----------------------------------------------------------------------------
\* Steps that put data into usrbuf.

\* A call with data in usrbuf has to go on; it may return.
Short(data) ==
  /\ call.op = "line" => Len(data) < call.n - 1 /\ \A i \in 1..Len(data) : data[i] # Newline
  /\ call.op \in {"readnb", "readn"} => Len(data) < call.n
NothingLeft == ended /\ unread' = << >> /\ socket' = << >>
EndsWell(data) ==
  /\ call.op = "line" =>
       \/ data = << >> /\ NothingLeft
       \/ /\ Len(data) \in 1..call.n - 1 /\ \A i \in 1..Len(data) - 1 : data[i] # Newline
          /\ data[Len(data)] = Newline \/ Len(data) = call.n - 1 \/ NothingLeft
  /\ call.op \in {"readnb", "readn"} => Len(data) = call.n \/ (Len(data) < call.n /\ NothingLeft)

LEMMA ContinueIInv ==
  ASSUME IInv, Reading, unread' \in Seq(Bytes), socket' \in Seq(Bytes), ~buffered => unread' = << >>,
         NEW data \in Seq(Bytes), NEW done \in BOOLEAN, Continue(data, done), ~done => Short(data)
  PROVE  IInv'
<1> USE DEF IInv, Types, CallUnfinished, BufferUsed, Ops, Reading, Continue, Idle, Call, Answer, program, Short
<1>1. << >> \in Seq(Bytes)
  BY EmptySeq
<1>2. CASE done
  BY <1>1, <1>2
<1>3. CASE ~done
  BY <1>3
<1> QED BY <1>2, <1>3

\* A call that returns what belongs to it is a step of ByteStream.
LEMMA ReturnIsLine ==
  ASSUME IInv, call.op = "line", unread' \in Seq(Bytes), socket' \in Seq(Bytes),
         NEW data \in Seq(Bytes), EndsWell(data),
         Got \o unread \o socket = data \o (unread' \o socket'),
         Stream!Return("line", call.n, Len(data))
  PROVE  Stream!ReadLine(call.n)
<1> DEFINE rest == unread' \o socket'
           pending == Got \o unread \o socket
           k == Len(data)
<1>1. /\ rest \in Seq(Bytes) /\ Len(pending) = k + Len(rest) /\ k \in Nat /\ Len(rest) \in Nat
      /\ \A i \in 1..k : pending[i] = data[i]
  BY ConcatProperties, LenProperties
<1>2. CASE data = << >> /\ NothingLeft
  <2>1. pending = << >> /\ k = 0
    BY <1>2, Joined, EmptySeq DEF NothingLeft
  <2> QED BY <1>2, <2>1 DEF Stream!ReadLine, NothingLeft
<1>3. CASE /\ k \in 1..call.n - 1 /\ \A i \in 1..k - 1 : data[i] # Newline
           /\ data[k] = Newline \/ k = call.n - 1 \/ NothingLeft
  <2>1. NothingLeft => Len(rest) = 0 /\ ended
    BY Joined, EmptySeq DEF NothingLeft
  <2>2. call.n \in Nat
    BY DEF IInv, Types
  <2> HIDE DEF rest, pending, k
  <2>3. k \in 1..Len(pending) /\ (pending[k] = Newline \/ k = call.n - 1 \/ (ended /\ k = Len(pending)))
    BY <1>1, <1>3, <2>1, <2>2
  <2>4. ASSUME NEW j \in 1..Len(pending), pending[j] = Newline \/ j = call.n - 1 \/ (ended /\ j = Len(pending))
        PROVE  k <= j
    BY <1>1, <1>3, <2>2, <2>4, SMTT(30)
  <2> QED BY <2>3, <2>4 DEF Stream!ReadLine, Stream!LineEnds, pending, k
<1> QED BY <1>2, <1>3 DEF EndsWell

LEMMA ReturnIsCount ==
  ASSUME IInv, call.op \in {"readnb", "readn"}, unread' \in Seq(Bytes), socket' \in Seq(Bytes),
         NEW data \in Seq(Bytes), EndsWell(data),
         Got \o unread \o socket = data \o (unread' \o socket'),
         Stream!Return(call.op, call.n, Len(data))
  PROVE  Stream!ReadCount(call.op, call.n)
<1> DEFINE rest == unread' \o socket'
           pending == Got \o unread \o socket
<1>1. Len(pending) = Len(data) + Len(rest) /\ Len(data) \in Nat /\ Len(rest) \in Nat /\ call.n \in Nat
  BY ConcatProperties, LenProperties DEF IInv, Types
<1>2. NothingLeft => Len(rest) = 0 /\ ended
  BY Joined, EmptySeq DEF NothingLeft
<1> HIDE DEF rest, pending
<1>3. Len(data) = call.n \/ (Len(data) < call.n /\ ended /\ Len(data) = Len(pending))
  BY <1>1, <1>2 DEF EndsWell
<1>4. call.n <= Len(pending) \/ call.n > Len(pending)
  BY <1>1
<1> QED BY <1>1, <1>3, <1>4 DEF Stream!ReadCount, pending

\* What each step of a read has to show.
LEMMA Continues ==
  ASSUME IInv, Reading, unread' \in Seq(Bytes), socket' \in Seq(Bytes), ~buffered => unread' = << >>,
         NEW data \in Seq(Bytes), NEW done \in BOOLEAN, Continue(data, done),
         Got \o unread \o socket = data \o (unread' \o socket'),
         ~done => Short(data), done => EndsWell(data)
  PROVE  IInv' /\ [Stream!Next]_(Stream!vars)
<1>1. IInv'
  BY ContinueIInv
<1>2. Unwritten = << >> /\ Unwritten' = << >> /\ wire' = wire /\ ended' = ended
  BY DEF Reading, Continue, Unwritten, Idle, Call
<1>3. CASE ~done
  <2>1. Got' = data /\ answer' = answer
    BY <1>3 DEF Reading, Continue, Got
  <2>2. (Got \o unread \o socket)' = Got \o unread \o socket
    BY <2>1, Joined
  <2> QED BY <1>1, <1>2, <2>1, <2>2 DEF Stream!vars
<1>4. CASE done
  <2>1. Got' = << >> /\ answer' = Answer(call.op, call.n, data)
    BY <1>4 DEF Reading, Continue, Got, Idle, Call
  <2>2. (Got \o unread \o socket)' = unread' \o socket' /\ unread' \o socket' \in Seq(Bytes)
    BY <2>1, Joined
  <2>3. Stream!Return(call.op, call.n, Len(data))
    <3> DEFINE pending == Got \o unread \o socket
               rest == unread' \o socket'
    <3>1. pending = data \o rest /\ rest \in Seq(Bytes) /\ data \in Seq(Bytes)
      BY <2>2
    <3>2. pending' = rest
      BY <2>2
    <3> HIDE DEF pending, rest
    <3>3. SubSeq(pending, 1, Len(data)) = data /\ SubSeq(pending, Len(data) + 1, Len(pending)) = rest
      BY <3>1, Taken
    <3>4. answer' = Stream!Answer(call.op, call.n, SubSeq(pending, 1, Len(data)))
      BY <2>1, <3>3 DEF Answer, Stream!Answer
    <3>5. pending' = SubSeq(pending, Len(data) + 1, Len(pending))
      BY <3>2, <3>3
    <3>6. (wire \o Unwritten)' = wire \o Unwritten
      BY <1>2
    <3> QED BY <1>2, <3>4, <3>5, <3>6 DEF Stream!Return, pending
  <2>4. CASE call.op = "line"
    <3>1. Stream!ReadLine(call.n)
      BY <1>4, <2>3, <2>4, ReturnIsLine
    <3> QED BY <1>1, <2>4, <3>1 DEF Stream!Next, IInv, CallUnfinished
  <2>5. CASE call.op \in {"readnb", "readn"}
    <3>1. Stream!ReadCount(call.op, call.n)
      BY <1>4, <2>3, <2>5, ReturnIsCount
    <3> QED BY <1>1, <2>5, <3>1 DEF Stream!Next, IInv, CallUnfinished
  <2> QED BY <2>4, <2>5 DEF Reading
<1> QED BY <1>3, <1>4

LEMMA TakeByteStep == IInv /\ TakeByte => IInv' /\ [Stream!Next]_(Stream!vars)
<1> SUFFICES ASSUME IInv, TakeByte PROVE IInv' /\ [Stream!Next]_(Stream!vars)
  OBVIOUS
<1> DEFINE taken == Append(usrbuf, Head(unread))
           done == Head(unread) = Newline \/ Len(taken) = call.n - 1
<1>1. /\ Reading /\ call.op = "line" /\ Got = usrbuf /\ Continue(taken, done)
      /\ unread' = Tail(unread) /\ socket' = socket /\ unread # << >> /\ buffered
      /\ usrbuf \in Seq(Bytes) /\ unread \in Seq(Bytes) /\ socket \in Seq(Bytes) /\ call.n \in Nat
      /\ Len(usrbuf) < call.n - 1 /\ \A i \in 1..Len(usrbuf) : usrbuf[i] # Newline
  BY DEF TakeByte, IInv, Types, CallUnfinished, BufferUsed, Got
<1>2. /\ Head(unread) \in Bytes /\ Tail(unread) \in Seq(Bytes) /\ << Head(unread) >> \in Seq(Bytes)
      /\ << Head(unread) >> \o Tail(unread) = unread
  BY <1>1, Split
<1>3. /\ taken \in Seq(Bytes) /\ taken = usrbuf \o << Head(unread) >> /\ Len(taken) = Len(usrbuf) + 1
      /\ \A i \in 1..Len(usrbuf) : taken[i] = usrbuf[i]
      /\ taken[Len(taken)] = Head(unread) /\ Len(usrbuf) \in Nat
  BY <1>1, <1>2, AppendProperties, AppendIsConcat, LenProperties
<1> HIDE DEF taken
<1>4. Got \o unread \o socket = taken \o (unread' \o socket')
  <2>1. taken \o Tail(unread) = usrbuf \o unread
    <3>1. (usrbuf \o << Head(unread) >>) \o Tail(unread) = usrbuf \o (<< Head(unread) >> \o Tail(unread))
      BY <1>1, <1>2, ConcatAssociative, SMTT(30)
    <3> QED BY <1>2, <1>3, <3>1
  <2>2. (taken \o Tail(unread)) \o socket = taken \o (Tail(unread) \o socket)
    <3>1. taken \in Seq(Bytes) /\ Tail(unread) \in Seq(Bytes) /\ socket \in Seq(Bytes)
      BY <1>1, <1>2, <1>3
    <3> QED BY <3>1, ConcatAssociative
  <2> QED BY <1>1, <2>1, <2>2
<1>5. done => EndsWell(taken)
  BY <1>1, <1>3 DEF EndsWell
<1>6. ~done => Short(taken)
  BY <1>1, <1>3 DEF Short
<1>7. done \in BOOLEAN
  OBVIOUS
<1> HIDE DEF done
<1> QED BY <1>1, <1>2, <1>3, <1>4, <1>5, <1>6, <1>7, Continues

LEMMA TakeBytesStep == IInv /\ TakeBytes => IInv' /\ [Stream!Next]_(Stream!vars)
<1> SUFFICES ASSUME IInv, TakeBytes PROVE IInv' /\ [Stream!Next]_(Stream!vars)
  OBVIOUS
<1> DEFINE k == Least(call.n - Len(usrbuf), Len(unread))
           piece == SubSeq(unread, 1, k)
           data == usrbuf \o piece
           done == Len(usrbuf) + k = call.n
<1>1. /\ Reading /\ call.op = "readnb" /\ Got = usrbuf /\ Continue(data, done)
      /\ unread' = Rest(unread, k) /\ socket' = socket /\ unread # << >> /\ buffered
      /\ usrbuf \in Seq(Bytes) /\ unread \in Seq(Bytes) /\ socket \in Seq(Bytes) /\ call.n \in Nat
      /\ Len(usrbuf) < call.n
  BY DEF TakeBytes, IInv, Types, CallUnfinished, BufferUsed, Got
<1>2. k \in 0..Len(unread) /\ Len(usrbuf) + k <= call.n /\ Len(usrbuf) \in Nat
  BY <1>1, LenProperties DEF Least
<1> HIDE DEF k
<1>3. piece \in Seq(Bytes) /\ Len(piece) = k /\ Rest(unread, k) \in Seq(Bytes) /\ piece \o Rest(unread, k) = unread
  <2>1. unread \in Seq(Bytes) /\ k \in 0..Len(unread)
    BY <1>1, <1>2
  <2>2. /\ SubSeq(unread, 1, k) \in Seq(Bytes) /\ SubSeq(unread, k + 1, Len(unread)) \in Seq(Bytes)
        /\ Len(SubSeq(unread, 1, k)) = k
        /\ SubSeq(unread, 1, k) \o SubSeq(unread, k + 1, Len(unread)) = unread
    BY <2>1, Cut
  <2> QED BY <2>2 DEF Rest
<1> HIDE DEF piece
<1>4. data \in Seq(Bytes) /\ Len(data) = Len(usrbuf) + k
  BY <1>1, <1>3, ConcatProperties
<1>5. Got \o unread \o socket = data \o (unread' \o socket')
  <2>1. usrbuf \o piece \o Rest(unread, k) = usrbuf \o (piece \o Rest(unread, k))
    <3>1. usrbuf \in Seq(Bytes) /\ piece \in Seq(Bytes) /\ Rest(unread, k) \in Seq(Bytes)
      BY <1>1, <1>3
    <3> QED BY <3>1, ConcatAssociative
  <2>2. data \o Rest(unread, k) \o socket = data \o (Rest(unread, k) \o socket)
    <3>1. data \in Seq(Bytes) /\ Rest(unread, k) \in Seq(Bytes) /\ socket \in Seq(Bytes)
      BY <1>1, <1>3, <1>4
    <3> HIDE DEF data
    <3> QED BY <3>1, ConcatAssociative
  <2> QED BY <1>1, <1>3, <2>1, <2>2
<1> HIDE DEF data
<1>6. done => EndsWell(data)
  <2> SUFFICES ASSUME done PROVE EndsWell(data)
    OBVIOUS
  <2>1. Len(data) = call.n
    BY <1>1, <1>2, <1>4
  <2>2. call.op # "line"
    BY <1>1
  <2> QED BY <2>1, <2>2 DEF EndsWell
<1>7. ~done => Short(data)
  BY <1>1, <1>2, <1>4 DEF Short
<1>8. done \in BOOLEAN
  OBVIOUS
<1> HIDE DEF done
<1> QED BY <1>1, <1>3, <1>4, <1>5, <1>6, <1>7, <1>8, Continues

LEMMA ReadDirectStep == IInv /\ ReadDirect => IInv' /\ [Stream!Next]_(Stream!vars)
<1> SUFFICES ASSUME IInv, ReadDirect PROVE IInv' /\ [Stream!Next]_(Stream!vars)
  OBVIOUS
<1>1. PICK k \in 1..Least(call.n - Len(usrbuf), Len(socket)) :
        /\ socket' = Rest(socket, k) /\ UNCHANGED unread
        /\ Continue(usrbuf \o SubSeq(socket, 1, k), Len(usrbuf) + k = call.n)
  BY DEF ReadDirect
<1> DEFINE piece == SubSeq(socket, 1, k)
           data == usrbuf \o piece
           done == Len(usrbuf) + k = call.n
<1>2. /\ Reading /\ call.op = "readn" /\ Got = usrbuf /\ unread = << >> /\ unread' = << >>
      /\ usrbuf \in Seq(Bytes) /\ socket \in Seq(Bytes) /\ call.n \in Nat /\ Len(usrbuf) < call.n
  BY <1>1 DEF ReadDirect, IInv, Types, CallUnfinished, BufferUsed, Got
<1>3. k \in 0..Len(socket) /\ Len(usrbuf) + k <= call.n /\ Len(usrbuf) \in Nat
  BY <1>1, <1>2, LenProperties DEF Least
<1>4. piece \in Seq(Bytes) /\ Len(piece) = k /\ Rest(socket, k) \in Seq(Bytes) /\ piece \o Rest(socket, k) = socket
  BY <1>2, <1>3, Cut DEF Rest
<1>5. Continue(data, done) /\ socket' = Rest(socket, k)
  BY <1>1
<1> HIDE DEF piece
<1>6. data \in Seq(Bytes) /\ Len(data) = Len(usrbuf) + k
  BY <1>2, <1>4, ConcatProperties
<1>7. Got \o unread \o socket = data \o (unread' \o socket')
  <2>1. usrbuf \o << >> = usrbuf /\ << >> \o Rest(socket, k) = Rest(socket, k)
    BY <1>2, <1>4, Joined
  <2>2. usrbuf \o piece \o Rest(socket, k) = usrbuf \o (piece \o Rest(socket, k))
    <3>1. usrbuf \in Seq(Bytes) /\ piece \in Seq(Bytes) /\ Rest(socket, k) \in Seq(Bytes)
      BY <1>2, <1>4
    <3> QED BY <3>1, ConcatAssociative
  <2> QED BY <1>2, <1>4, <1>5, <2>1, <2>2
<1> HIDE DEF data
<1>8. done => EndsWell(data)
  <2> SUFFICES ASSUME done PROVE EndsWell(data)
    OBVIOUS
  <2>1. Len(data) = call.n
    BY <1>2, <1>3, <1>6
  <2>2. call.op # "line"
    BY <1>2
  <2> QED BY <2>1, <2>2 DEF EndsWell
<1>9. ~done => Short(data)
  BY <1>2, <1>3, <1>6, SMTT(30) DEF Short
<1>10. done \in BOOLEAN /\ << >> \in Seq(Bytes)
  BY EmptySeq
<1> HIDE DEF done
<1> QED BY <1>2, <1>4, <1>5, <1>6, <1>7, <1>8, <1>9, <1>10, Continues

LEMMA ReadEofStep == IInv /\ ReadEof => IInv' /\ [Stream!Next]_(Stream!vars)
<1> SUFFICES ASSUME IInv, ReadEof PROVE IInv' /\ [Stream!Next]_(Stream!vars)
  OBVIOUS
<1>1. /\ Reading /\ Got = usrbuf /\ Continue(usrbuf, TRUE) /\ ended
      /\ unread = << >> /\ socket = << >> /\ unread' = << >> /\ socket' = << >>
      /\ usrbuf \in Seq(Bytes) /\ call.n \in Nat
  BY DEF ReadEof, Reading, IInv, Types, Got
<1>2. << >> \in Seq(Bytes) /\ Got \o unread \o socket = usrbuf \o (unread' \o socket')
  BY <1>1, EmptySeq, Joined
<1>3. NothingLeft
  BY <1>1 DEF NothingLeft
<1>4. EndsWell(usrbuf)
  <2>1. CASE call.op = "line"
    <3>1. CASE usrbuf = << >>
      BY <1>3, <2>1, <3>1 DEF EndsWell
    <3>2. CASE usrbuf # << >>
      <4>1. Len(usrbuf) \in Nat \ {0} /\ Len(usrbuf) < call.n - 1 /\ \A i \in 1..Len(usrbuf) : usrbuf[i] # Newline
        BY <1>1, <2>1, <3>2, EmptySeq DEF IInv, CallUnfinished
      <4> QED BY <1>1, <1>3, <2>1, <4>1 DEF EndsWell
    <3> QED BY <3>1, <3>2
  <2>2. CASE call.op \in {"readnb", "readn"}
    BY <1>3, <2>2 DEF EndsWell, IInv, CallUnfinished
  <2> QED BY <1>1, <2>1, <2>2 DEF Reading
<1> QED BY <1>1, <1>2, <1>4, Continues

-----------------------------------------------------------------------------
\* The other steps.

LEMMA ArriveStep == IInv /\ Arrive => IInv' /\ [Stream!Next]_(Stream!vars)
<1> SUFFICES ASSUME IInv, Arrive PROVE IInv' /\ [Stream!Next]_(Stream!vars)
  OBVIOUS
<1>1. PICK b \in Bytes : socket' = Append(socket, b)
  BY DEF Arrive
<1>2. UNCHANGED <<ended, program, unread, call, usrbuf, answer, wire, status>>
  BY DEF Arrive
<1>3. /\ socket \in Seq(Bytes) /\ << b >> \in Seq(Bytes)
      /\ Append(socket, b) \in Seq(Bytes) /\ Append(socket, b) = socket \o << b >>
  BY AppendProperties, AppendIsConcat DEF IInv, Types
<1>4. IInv'
  BY <1>1, <1>2, <1>3 DEF IInv, Types, CallUnfinished, BufferUsed, program
<1>5. Got \in Seq(Bytes) /\ unread \in Seq(Bytes)
  BY EmptySeq DEF IInv, Types, Got
<1>6. Got' = Got /\ Unwritten' = Unwritten
  BY <1>2 DEF Got, Unwritten
<1>7. (Got \o unread) \o socket' = Append((Got \o unread) \o socket, b)
  <2> DEFINE front == Got \o unread
  <2>1. front \in Seq(Bytes)
    BY <1>5, Joined
  <2> HIDE DEF front
  <2>2. front \o (socket \o << b >>) = (front \o socket) \o << b >> /\ front \o socket \in Seq(Bytes)
    BY <1>3, <2>1, Joined
  <2>3. (front \o socket) \o << b >> = Append(front \o socket, b)
    BY <2>2, AppendIsConcat
  <2>4. front \o socket' = Append(front \o socket, b)
    BY <1>1, <1>3, <2>2, <2>3
  <2> QED BY <2>4 DEF front
<1>8. Stream!Arrive
  BY <1>2, <1>6, <1>7 DEF Stream!Arrive, Arrive
<1> QED BY <1>4, <1>8 DEF Stream!Next

LEMMA RefillStep == IInv /\ Refill => IInv' /\ [Stream!Next]_(Stream!vars)
<1> SUFFICES ASSUME IInv, Refill PROVE IInv' /\ [Stream!Next]_(Stream!vars)
  OBVIOUS
<1>1. PICK k \in 1..Least(BufSize, Len(socket)) : unread' = SubSeq(socket, 1, k) /\ socket' = Rest(socket, k)
  BY DEF Refill
<1>2. /\ socket \in Seq(Bytes) /\ unread = << >> /\ buffered /\ Got \in Seq(Bytes)
      /\ UNCHANGED <<ended, program, call, usrbuf, answer, wire, status>>
  BY EmptySeq DEF Refill, IInv, Types, Got
<1>3. k \in 0..Len(socket)
  BY <1>1, <1>2, LenProperties, RioAssumption DEF Least
<1>4. /\ unread' \in Seq(Bytes) /\ socket' \in Seq(Bytes) /\ unread' \o socket' = socket
  BY <1>1, <1>2, <1>3, Cut DEF Rest
<1>5. IInv'
  BY <1>2, <1>4 DEF IInv, Types, CallUnfinished, BufferUsed, program
<1>6. (Got \o unread') \o socket' = (Got \o unread) \o socket
  <2>1. (Got \o unread') \o socket' = Got \o (unread' \o socket')
    <3>1. Got \in Seq(Bytes) /\ unread' \in Seq(Bytes) /\ socket' \in Seq(Bytes)
      BY <1>2, <1>4
    <3> QED BY <3>1, ConcatAssociative, SMTT(30)
  <2>2. Got \o unread = Got
    BY <1>2, Joined
  <2> QED BY <1>4, <2>1, <2>2
<1>7. Got' = Got /\ Unwritten' = Unwritten
  BY <1>2 DEF Got, Unwritten
<1> QED BY <1>2, <1>5, <1>6, <1>7 DEF Stream!vars

LEMMA BeginStep == IInv /\ Begin => IInv' /\ [Stream!Next]_(Stream!vars)
<1> SUFFICES ASSUME IInv, Begin PROVE IInv' /\ [Stream!Next]_(Stream!vars)
  OBVIOUS
<1>1. call = [op |-> "none", n |-> 0] /\ usrbuf = << >> /\ Len(usrbuf) = 0
  BY EmptySeq DEF Begin, Idle, Call, IInv, CallUnfinished
<1>2. UNCHANGED <<socket, ended, program, unread, usrbuf, answer, wire, status>>
  BY DEF Begin
<1>3. \/ buffered /\ \E m \in LineSizes : call' = [op |-> "line", n |-> m]
      \/ buffered /\ \E n \in Counts : call' = [op |-> "readnb", n |-> n]
      \/ ~buffered /\ \E n \in Counts : call' = [op |-> "readn", n |-> n]
  BY DEF Begin, Call
<1>4. IInv' /\ call'.op # "write"
  BY <1>1, <1>2, <1>3, RioAssumption DEF IInv, Types, CallUnfinished, BufferUsed, Ops, program
<1>5. Got' = Got /\ Unwritten' = Unwritten
  BY <1>1, <1>2, <1>4 DEF Got, Unwritten
<1> QED BY <1>2, <1>4, <1>5 DEF Stream!vars

\* A call that fails drops what it has in usrbuf.
LEMMA BreakStep ==
  IInv /\ (ReadError \/ WriteError \/ WriteReset) => IInv' /\ [Stream!Next]_(Stream!vars)
<1> SUFFICES ASSUME IInv, ReadError \/ WriteError \/ WriteReset PROVE IInv' /\ [Stream!Next]_(Stream!vars)
  OBVIOUS
<1>1. /\ call' = [op |-> "none", n |-> 0] /\ usrbuf' = << >>
      /\ UNCHANGED <<socket, ended, program, unread, answer, wire>>
  BY DEF ReadError, WriteError, WriteReset, Idle, Call
<1>2. << >> \in Seq(Bytes)
  BY EmptySeq
<1>3. IInv'
  BY <1>1, <1>2 DEF IInv, Types, CallUnfinished, BufferUsed, Ops, program
<1>4. Got' = << >> /\ Unwritten' = << >> /\ Got \in Seq(Bytes) /\ Unwritten \in Seq(Bytes)
  BY <1>1, <1>2 DEF Got, Unwritten, IInv, Types
<1> DEFINE pending == Got \o unread \o socket
           out == wire \o Unwritten
<1>5. \E k \in 0..Len(out) : out' = SubSeq(out, 1, k)
  <2>1. wire \in Seq(Bytes) /\ wire' = wire
    BY <1>1 DEF IInv, Types
  <2>2. out' = wire
    BY <1>4, <2>1, Joined
  <2>3. Len(wire) \in 0..Len(out)
    BY <1>4, <2>1, ConcatProperties, LenProperties
  <2>4. SubSeq(out, 1, Len(wire)) = wire
    BY <1>4, <2>1, Taken
  <2> QED BY <2>2, <2>3, <2>4
<1>6. \E k \in 0..Len(pending) : pending' = SubSeq(pending, k + 1, Len(pending))
  <2> DEFINE rest == unread \o socket
  <2>1. /\ unread \in Seq(Bytes) /\ socket \in Seq(Bytes) /\ rest \in Seq(Bytes)
        /\ unread' = unread /\ socket' = socket
    BY <1>1, Joined DEF IInv, Types
  <2>2. pending = Got \o rest
    BY <1>4, <2>1, Joined
  <2>3. pending' = rest
    BY <1>4, <2>1, Joined
  <2> HIDE DEF pending, rest
  <2>4. Len(Got) \in 0..Len(pending)
    BY <1>4, <2>1, <2>2, ConcatProperties, LenProperties
  <2>5. SubSeq(pending, Len(Got) + 1, Len(pending)) = rest
    BY <1>4, <2>1, <2>2, Taken
  <2> QED BY <2>3, <2>4, <2>5
<1>7. Stream!Break
  BY <1>1, <1>5, <1>6 DEF Stream!Break
<1> QED BY <1>3, <1>7 DEF Stream!Next

LEMMA BeginWriteStep == IInv /\ BeginWrite => IInv' /\ [Stream!Next]_(Stream!vars)
<1> SUFFICES ASSUME IInv, BeginWrite PROVE IInv' /\ [Stream!Next]_(Stream!vars)
  OBVIOUS
<1>1. /\ call = [op |-> "none", n |-> 0] /\ usrbuf = << >> /\ answer.data # << >>
      /\ call' = [op |-> "write", n |-> Len(answer.data)] /\ usrbuf' = answer.data
      /\ answer' = [answer EXCEPT !.data = << >>]
      /\ UNCHANGED <<socket, ended, program, unread, wire, status>>
  BY DEF BeginWrite, Idle, Call, IInv, CallUnfinished
<1>2. << >> \in Seq(Bytes) /\ answer.data \in Seq(Bytes) /\ Len(answer.data) \in Nat /\ wire \in Seq(Bytes)
  BY EmptySeq, LenProperties DEF IInv, Types
<1>3. IInv'
  BY <1>1, <1>2 DEF IInv, Types, CallUnfinished, BufferUsed, Ops, program
<1>4. Got = << >> /\ Got' = << >> /\ Unwritten = << >> /\ Unwritten' = answer.data
  BY <1>1 DEF Got, Unwritten
<1>5. wire' \o Unwritten' = (wire \o Unwritten) \o answer.data
  BY <1>1, <1>2, <1>4, Joined
<1>6. Stream!Write
  BY <1>1, <1>4, <1>5 DEF Stream!Write
<1> QED BY <1>3, <1>6 DEF Stream!Next

LEMMA WriteSomeStep == IInv /\ WriteSome => IInv' /\ [Stream!Next]_(Stream!vars)
<1> SUFFICES ASSUME IInv, WriteSome PROVE IInv' /\ [Stream!Next]_(Stream!vars)
  OBVIOUS
<1>1. PICK k \in 1..Len(usrbuf) :
        /\ wire' = wire \o SubSeq(usrbuf, 1, k) /\ usrbuf' = Rest(usrbuf, k)
        /\ call' = IF k = Len(usrbuf) THEN [op |-> "none", n |-> 0] ELSE call
  BY DEF WriteSome, Idle, Call
<1>2. call.op = "write" /\ UNCHANGED <<socket, ended, program, unread, answer, status>>
  BY DEF WriteSome
<1>3. wire \in Seq(Bytes) /\ usrbuf \in Seq(Bytes) /\ k \in 0..Len(usrbuf) /\ Len(usrbuf) \in Nat
  BY <1>1, LenProperties DEF IInv, Types
<1> DEFINE piece == SubSeq(usrbuf, 1, k)
           rest == Rest(usrbuf, k)
<1>4. /\ piece \in Seq(Bytes) /\ rest \in Seq(Bytes)
      /\ Len(rest) = Len(usrbuf) - k /\ piece \o rest = usrbuf
  BY <1>3, Cut DEF Rest
<1>5. wire' = wire \o piece /\ usrbuf' = rest
  BY <1>1
<1> HIDE DEF piece, rest
<1>6. wire \o piece \in Seq(Bytes)
  BY <1>3, <1>4, Joined
<1>7. k = Len(usrbuf) => rest = << >>
  BY <1>3, <1>4, EmptySeq
<1>8. IInv'
  BY <1>1, <1>2, <1>4, <1>5, <1>6, <1>7 DEF IInv, Types, CallUnfinished, BufferUsed, Ops, program
<1>9. Got = << >> /\ Got' = << >> /\ Unwritten = usrbuf /\ Unwritten' = rest
  BY <1>1, <1>2, <1>5, <1>7 DEF Got, Unwritten
<1>10. wire' \o Unwritten' = wire \o Unwritten
  <2>1. (wire \o piece) \o rest = wire \o (piece \o rest)
    <3>1. wire \in Seq(Bytes) /\ piece \in Seq(Bytes) /\ rest \in Seq(Bytes)
      BY <1>3, <1>4
    <3> QED BY <3>1, ConcatAssociative
  <2> QED BY <1>4, <1>5, <1>9, <2>1
<1> QED BY <1>2, <1>8, <1>9, <1>10 DEF Stream!vars

LEMMA NextStep == IInv /\ [Next]_vars => IInv' /\ [Stream!Next]_(Stream!vars)
<1> SUFFICES ASSUME IInv, [Next]_vars PROVE IInv' /\ [Stream!Next]_(Stream!vars)
  OBVIOUS
<1>1. CASE PeerCloses
  <2>1. IInv'
    BY <1>1 DEF PeerCloses, IInv, Types, CallUnfinished, BufferUsed, program
  <2>2. Stream!PeerCloses
    BY <1>1 DEF PeerCloses, Stream!PeerCloses, Got, Unwritten
  <2> QED BY <2>1, <2>2 DEF Stream!Next
<1>2. CASE UNCHANGED vars
  BY <1>2 DEF vars, program, IInv, Types, CallUnfinished, BufferUsed, Got, Unwritten, Stream!vars
<1> QED
  BY <1>1, <1>2, ArriveStep, BeginStep, RefillStep, TakeByteStep, TakeBytesStep, ReadDirectStep, ReadEofStep,
     BreakStep, BeginWriteStep, WriteSomeStep DEF Next

LEMMA InitStream == Init => Stream!Init
<1>1. << >> \o << >> \o << >> = << >>
  BY EmptySeq, Joined
<1> QED BY <1>1 DEF Init, Idle, Call, Answer, Got, Unwritten, Stream!Init, Stream!NoAnswer, Stream!Answer

(***************************************************************************)
(* The Rio package implements ByteStream: for any bytes and any sizes of   *)
(* lines, counts and buffer, however the kernel cuts the stream and        *)
(* whichever calls fail.                                                   *)
(***************************************************************************)
THEOREM RioKeepsTheStream == Spec => IsByteStream
<1>1. Init => Stream!Init
  BY InitStream
<1> QED BY InitIInv, NextStep, <1>1, PTL DEF Spec, IsByteStream, Stream!Spec

-----------------------------------------------------------------------------
(* The socket functions, for any number of addresses and whichever calls fail *)

Calls ==
  {"getaddrinfo", "socket", "connect", "bind", "close", "freeaddrinfo", "listen", "returned"}

\* The loop is left with p at the address that worked, or at the end of the list.
Worked == IF opening = "client" THEN "connected" ELSE "bound"
FdBefore ==
  CASE next \in {"getaddrinfo", "socket"} -> "none"
    [] next \in {"connect", "bind", "close"} -> "open"
    [] next = "freeaddrinfo" -> IF left = 0 THEN "none" ELSE Worked
    [] next = "listen" -> "bound"
    [] next = "returned" -> IF rc # "fd" THEN "none" ELSE IF opening = "client" THEN "connected" ELSE "listening"

SettleInv ==
  /\ opening \in {"client", "listen"} /\ next \in Calls /\ left \in Nat
  /\ fd = FdBefore
  /\ next \in {"connect", "bind", "listen"} => (opening = "client" <=> next = "connect")
  /\ next \in {"socket", "connect", "bind", "close"} => left > 0
  /\ listp => next \in {"socket", "connect", "bind", "close", "freeaddrinfo"} \/ closeFailed

LEMMA InitSettles == Sockets!Init => SettleInv
BY DEF Sockets!Init, SettleInv, Calls, FdBefore, Worked

LEMMA ImpliesOpenSettles == SettleInv => Sockets!OpenSettles
BY DEF SettleInv, Sockets!OpenSettles, FdBefore

LEMMA NextSettles == SettleInv /\ [Sockets!Next]_openVars => SettleInv'
<1> SUFFICES ASSUME SettleInv, [Sockets!Next]_openVars PROVE SettleInv'
  OBVIOUS
<1> USE DEF SettleInv, Calls, FdBefore, Worked
<1>1. CASE Sockets!Getaddrinfo
  BY <1>1 DEF Sockets!Getaddrinfo, Sockets!Return
<1>2. CASE Sockets!Socket
  BY <1>2 DEF Sockets!Socket, Sockets!NextAddress
<1>3. CASE Sockets!Connect
  BY <1>3 DEF Sockets!Connect
<1>4. CASE Sockets!Bind
  BY <1>4 DEF Sockets!Bind
<1>5. CASE Sockets!Close
  BY <1>5 DEF Sockets!Close, Sockets!NextAddress, Sockets!Return
<1>6. CASE Sockets!Freeaddrinfo
  BY <1>6 DEF Sockets!Freeaddrinfo, Sockets!Return
<1>7. CASE Sockets!Listen
  BY <1>7 DEF Sockets!Listen, Sockets!Return
<1>8. CASE Sockets!OpenError
  BY <1>8 DEF Sockets!OpenError
<1>9. CASE UNCHANGED openVars
  BY <1>9 DEF openVars
<1> QED BY <1>1, <1>2, <1>3, <1>4, <1>5, <1>6, <1>7, <1>8, <1>9 DEF Sockets!Next

-----------------------------------------------------------------------------
(* The echo programs: lines. *)

\* Echo!First is the least of a set of positions.
LEMMA FirstIsLeast ==
  ASSUME NEW S \in SUBSET Nat, S # {}
  PROVE  Echo!First(S) \in S /\ \A j \in S : Echo!First(S) <= j
<1> DEFINE R == {ss \in Nat \X Nat : ss[1] < ss[2]}
<1>1. IsWellFoundedOn(R, Nat)
  BY NatLessThanWellFounded, Zenon DEF OpToRel
<1>2. \E k \in S : \A j \in S : k <= j
  <2>1. PICK k \in S : \A j \in S : <<j, k>> \notin R
    <3> HIDE DEF R
    <3> QED BY <1>1, WFMin
  <2>2. \A j \in S : j \in Nat /\ k \in Nat /\ ~(j < k)
    BY <2>1
  <2> QED BY <2>2
<1> QED BY <1>2 DEF Echo!First

\* What the server reads of a line it was sent is that line.
LEMMA LineFacts ==
  ASSUME Echo!EchoAssumption, NEW s \in Seq(Echo!Byte), s # << >>
  PROVE  /\ Echo!NextLine(s) \in Seq(Echo!Byte) /\ Echo!NextLine(s) # << >>
         /\ Echo!Drop(s, Echo!NextLine(s)) \in Seq(Echo!Byte) /\ Echo!NextLine(s) \o Echo!Drop(s, Echo!NextLine(s)) = s
         /\ Echo!NextLine(Echo!NextLine(s)) = Echo!NextLine(s)
<1>1. Len(s) \in Nat \ {0} /\ MaxLine \in Nat
  BY EmptySeq DEF Echo!EchoAssumption
<1>2. CASE Echo!Ends(s) = {}
  <2>1. Echo!NextLine(s) = s
    BY <1>2 DEF Echo!NextLine
  <2>2. SubSeq(s, Len(s) + 1, Len(s)) = << >>
    BY <1>1, SubSeqEmpty
  <2> QED BY <2>1, <2>2, EmptySeq, ConcatEmptySeq DEF Echo!Drop
<1>3. CASE Echo!Ends(s) # {}
  <2> DEFINE k == Echo!First(Echo!Ends(s))
             l == SubSeq(s, 1, k)
  <2>1. k \in Echo!Ends(s) /\ \A j \in Echo!Ends(s) : k <= j
    <3>1. Echo!Ends(s) \in SUBSET Nat
      BY <1>1 DEF Echo!Ends
    <3> QED BY <1>3, <3>1, FirstIsLeast
  <2>2. k \in 1..Len(s) /\ (s[k] = Newline \/ k = MaxLine - 1)
    BY <2>1 DEF Echo!Ends
  <2>3. Echo!NextLine(s) = l
    BY <1>3 DEF Echo!NextLine
  <2> HIDE DEF k
  <2>4. /\ l \in Seq(Echo!Byte) /\ SubSeq(s, k + 1, Len(s)) \in Seq(Echo!Byte) /\ Len(l) = k
        /\ l \o SubSeq(s, k + 1, Len(s)) = s /\ \A i \in 1..k : l[i] = s[i]
    BY <1>1, <2>2, Cut
  <2> HIDE DEF l
  <2>5. l # << >>
    BY <2>2, <2>4, EmptySeq
  <2>6. Echo!Ends(l) # {} /\ Echo!First(Echo!Ends(l)) = k
    <3>1. k \in Echo!Ends(l)
      BY <1>1, <2>2, <2>4 DEF Echo!Ends
    <3>2. \A j \in Echo!Ends(l) : j = k
      <4> SUFFICES ASSUME NEW j \in Echo!Ends(l) PROVE j = k
        OBVIOUS
      <4>1. j \in 1..k /\ (l[j] = Newline \/ j = MaxLine - 1)
        BY <2>4 DEF Echo!Ends
      <4>2. j \in Echo!Ends(s)
        BY <1>1, <2>2, <2>4, <4>1 DEF Echo!Ends
      <4> QED BY <2>1, <2>2, <4>1, <4>2
    <3>3. Echo!Ends(l) \in SUBSET Nat
      BY <1>1, <2>2, <2>4 DEF Echo!Ends
    <3> QED BY <3>1, <3>2, <3>3, FirstIsLeast
  <2>7. Echo!NextLine(l) = l
    BY <2>4, <2>6, SubSeqFull DEF Echo!NextLine
  <2> QED BY <2>3, <2>4, <2>5, <2>7 DEF Echo!Drop
<1> QED BY <1>2, <1>3

\* A line that is read whole leaves nothing.
LEMMA DropAll ==
  ASSUME NEW l \in Seq(Echo!Byte)
  PROVE  Echo!Drop(l, l) = << >>
BY LenProperties, SubSeqEmpty DEF Echo!Drop

LEMMA PrefixOfJoined ==
  ASSUME NEW a \in Seq(Echo!Byte), NEW b \in Seq(Echo!Byte)
  PROVE  Echo!IsPrefix(a, a \o b)
<1>1. Len(a) <= Len(a \o b)
  BY ConcatProperties, LenProperties
<1> QED BY <1>1, Taken, SubSeqFull DEF Echo!IsPrefix

-----------------------------------------------------------------------------
\* The invariant.

ClientStates == {"open", "fgets", "read", "closed", "killed", "exited"}
EchoTypes ==
  /\ given \in [EchoClients -> Seq(Echo!Byte)] /\ text \in [EchoClients -> Seq(Echo!Byte)]
  /\ line \in [EchoClients -> Seq(Echo!Byte)] /\ printed \in [EchoClients -> Seq(Echo!Byte)]
  /\ up \in [EchoClients -> Seq(Echo!Byte)] /\ down \in [EchoClients -> Seq(Echo!Byte)]
  /\ cpc \in [EchoClients -> ClientStates] /\ echoed \in Seq(Echo!Byte)
  /\ echoServing \in EchoClients \cup {Echo!None} /\ (echoServing = Echo!None => echoed = << >>)
  /\ echoStatus \in {"running", "exited"}

\* Between two lines nothing is on its way.
Resting(c) ==
  /\ printed[c] \o text[c] = given[c] /\ down[c] = << >>
  /\ echoStatus = "running" => Echo!Inside(c) = << >> /\ up[c] = << >>
\* A client waits for the line it sent, of which there is one copy.
Waiting(c) ==
  /\ line[c] # << >> /\ Echo!NextLine(line[c]) = line[c]
  /\ printed[c] \o line[c] \o text[c] = given[c] /\ down[c] \in {<< >>, line[c]}
  /\ echoStatus = "running" =>
       \/ down[c] = line[c] /\ Echo!Inside(c) = << >> /\ up[c] = << >>
       \/ down[c] = << >> /\ Echo!Inside(c) = line[c] /\ up[c] = << >>
       \/ down[c] = << >> /\ Echo!Inside(c) = << >> /\ up[c] = line[c]
InLockstep(c) ==
  /\ Echo!IsPrefix(printed[c], given[c])
  /\ cpc[c] \in {"open", "fgets", "closed"} => Resting(c)
  /\ cpc[c] = "read" => Waiting(c)
  /\ cpc[c] = "exited" => echoStatus = "exited"
EchoIInv == EchoTypes /\ \A c \in EchoClients : InLockstep(c)

LEMMA InitEchoIInv == Echo!EchoAssumption /\ Echo!Init => EchoIInv
<1> SUFFICES ASSUME Echo!EchoAssumption, Echo!Init PROVE EchoIInv
  OBVIOUS
<1>1. << >> \in Seq(Echo!Byte)
  BY EmptySeq
<1>2. EchoTypes
  BY <1>1 DEF Echo!Init, EchoTypes, ClientStates, Echo!EchoAssumption
<1>3. ASSUME NEW c \in EchoClients PROVE InLockstep(c)
  <2>1. /\ printed[c] = << >> /\ down[c] = << >> /\ up[c] = << >> /\ Echo!Inside(c) = << >>
        /\ text[c] = given[c] /\ given[c] \in Seq(Echo!Byte) /\ cpc[c] = "open"
    BY <1>2 DEF Echo!Init, Echo!Inside, EchoTypes
  <2>2. << >> \o given[c] = given[c]
    BY <2>1, ConcatEmptySeq
  <2>3. Echo!IsPrefix(printed[c], given[c])
    BY <1>1, <2>1, <2>2, PrefixOfJoined
  <2> QED BY <2>1, <2>2, <2>3 DEF InLockstep, Resting
<1> QED BY <1>2, <1>3 DEF EchoIInv

LEMMA ImpliesEchoExact == EchoIInv => Echo!EchoExact
<1> SUFFICES ASSUME EchoIInv, NEW c \in EchoClients, echoStatus = "running", cpc[c] # "killed"
             PROVE  printed[c] \o down[c] \o Echo!Inside(c) \o up[c] \o text[c] = given[c]
  BY DEF Echo!EchoExact, EchoIInv, InLockstep
<1>1. /\ InLockstep(c) /\ cpc[c] \in ClientStates
      /\ printed[c] \in Seq(Echo!Byte) /\ line[c] \in Seq(Echo!Byte) /\ text[c] \in Seq(Echo!Byte)
  BY DEF EchoIInv, EchoTypes
<1>2. CASE cpc[c] = "read"
  <2>1. printed[c] \o line[c] \in Seq(Echo!Byte)
    BY <1>1, Joined
  <2>2. /\ printed[c] \o << >> = printed[c] /\ printed[c] \o line[c] \o << >> = printed[c] \o line[c]
    BY <1>1, <2>1, ConcatEmptySeq
  <2> QED BY <1>1, <1>2, <2>2 DEF InLockstep, Waiting
<1>3. CASE cpc[c] # "read"
  <2>1. Resting(c)
    BY <1>1, <1>3 DEF InLockstep, ClientStates
  <2>2. printed[c] \o << >> = printed[c]
    BY <1>1, ConcatEmptySeq
  <2> QED BY <2>1, <2>2 DEF Resting
<1> QED BY <1>2, <1>3

\* What does not concern a client leaves it as it is.
LEMMA Untouched ==
  ASSUME NEW d \in EchoClients, InLockstep(d),
         given'[d] = given[d], text'[d] = text[d], line'[d] = line[d], printed'[d] = printed[d],
         up'[d] = up[d], down'[d] = down[d], cpc'[d] = cpc[d],
         echoStatus' = "running" => echoStatus = "running" /\ Echo!Inside(d)' = Echo!Inside(d),
         echoStatus = "exited" => echoStatus' = "exited"
  PROVE  InLockstep(d)'
BY DEF InLockstep, Resting, Waiting

-----------------------------------------------------------------------------
\* The steps of a client.

LEMMA Open17IInv ==
  ASSUME EchoIInv, NEW c \in EchoClients, Echo!Open17(c)
  PROVE  EchoIInv'
<1>1. /\ cpc[c] = "open" /\ cpc' = [cpc EXCEPT ![c] = IF echoStatus = "running" THEN "fgets" ELSE "exited"]
      /\ UNCHANGED <<given, text, line, printed, up, down, Echo!serverVars>>
  BY DEF Echo!Open17
<1>2. EchoTypes'
  BY <1>1 DEF EchoIInv, EchoTypes, ClientStates, Echo!serverVars
<1>3. ASSUME NEW d \in EchoClients PROVE InLockstep(d)'
  <2>1. Echo!Inside(d)' = Echo!Inside(d) /\ echoStatus' = echoStatus
    BY <1>1 DEF Echo!Inside, Echo!serverVars
  <2>2. CASE d = c
    BY <1>1, <2>1, <2>2 DEF EchoIInv, EchoTypes, InLockstep, Resting
  <2>3. CASE d # c
    BY <1>1, <2>1, <2>3, Untouched DEF EchoIInv, EchoTypes
  <2> QED BY <2>2, <2>3
<1> QED BY <1>2, <1>3 DEF EchoIInv

LEMMA Fgets23IInv ==
  ASSUME Echo!EchoAssumption, EchoIInv, NEW c \in EchoClients, Echo!Fgets23(c)
  PROVE  EchoIInv'
<1> DEFINE l == Echo!NextLine(text[c])
<1>1. /\ cpc[c] = "fgets" /\ text[c] # << >> /\ text[c] \in Seq(Echo!Byte) /\ printed[c] \in Seq(Echo!Byte)
      /\ line' = [line EXCEPT ![c] = l] /\ text' = [text EXCEPT ![c] = Echo!Drop(text[c], l)]
      /\ \/ /\ cpc' = [cpc EXCEPT ![c] = "read"]
            /\ up' = [up EXCEPT ![c] = IF echoStatus = "running" THEN up[c] \o l ELSE << >>]
         \/ echoStatus = "exited" /\ cpc' = [cpc EXCEPT ![c] = "exited"] /\ up' = up
      /\ UNCHANGED <<given, printed, echoConn, down, Echo!serverVars>>
  BY DEF Echo!Fgets23, EchoIInv, EchoTypes
<1>2. /\ l \in Seq(Echo!Byte) /\ l # << >> /\ Echo!Drop(text[c], l) \in Seq(Echo!Byte)
      /\ l \o Echo!Drop(text[c], l) = text[c] /\ Echo!NextLine(l) = l
  BY <1>1, LineFacts
<1> HIDE DEF l
<1>3. printed[c] \o text[c] = given[c] /\ down[c] = << >> /\ (echoStatus = "running" => Echo!Inside(c) = << >> /\ up[c] = << >>)
  BY <1>1 DEF EchoIInv, InLockstep, Resting
<1>4. echoStatus = "running" => up[c] \o l = l
  BY <1>2, <1>3, ConcatEmptySeq
<1>5. EchoTypes'
  <2>1. << >> \in Seq(Echo!Byte)
    BY EmptySeq
  <2>2. line' \in [EchoClients -> Seq(Echo!Byte)] /\ text' \in [EchoClients -> Seq(Echo!Byte)]
    BY <1>1, <1>2 DEF EchoIInv, EchoTypes
  <2>3. up' \in [EchoClients -> Seq(Echo!Byte)]
    BY <1>1, <1>2, <1>4, <2>1 DEF EchoIInv, EchoTypes
  <2>4. cpc' \in [EchoClients -> ClientStates]
    BY <1>1 DEF EchoIInv, EchoTypes, ClientStates
  <2> QED BY <1>1, <2>2, <2>3, <2>4 DEF EchoIInv, EchoTypes, Echo!serverVars
<1>6. ASSUME NEW d \in EchoClients PROVE InLockstep(d)'
  <2>1. Echo!Inside(d)' = Echo!Inside(d) /\ echoStatus' = echoStatus
    BY <1>1 DEF Echo!Inside, Echo!serverVars
  <2>2. CASE d = c
    <3>1. printed[c] \o l \o Echo!Drop(text[c], l) = given[c]
      <4>1. printed[c] \o l \o Echo!Drop(text[c], l) = printed[c] \o (l \o Echo!Drop(text[c], l))
        <5>1. printed[c] \in Seq(Echo!Byte) /\ l \in Seq(Echo!Byte) /\ Echo!Drop(text[c], l) \in Seq(Echo!Byte)
          BY <1>1, <1>2
        <5>2. \A x, y, z \in Seq(Echo!Byte) : x \o y \o z = x \o (y \o z)
          BY ConcatAssociative
        <5> QED BY <5>1, <5>2
      <4> QED BY <1>2, <1>3, <4>1
    <3>2. /\ line'[c] = l /\ text'[c] = Echo!Drop(text[c], l) /\ printed'[c] = printed[c] /\ given'[c] = given[c]
          /\ down'[c] = << >> /\ Echo!IsPrefix(printed[c], given[c])
      BY <1>1, <1>3 DEF EchoIInv, EchoTypes, InLockstep
    <3>3. CASE cpc'[c] = "read" /\ (echoStatus = "running" => up'[c] = l)
      <4>1. Waiting(c)'
        BY <1>2, <1>3, <2>1, <2>2, <3>1, <3>2, <3>3 DEF Waiting
      <4> QED BY <2>2, <3>2, <3>3, <4>1 DEF InLockstep
    <3>4. CASE cpc'[c] = "exited" /\ echoStatus = "exited"
      BY <2>1, <2>2, <3>2, <3>4 DEF InLockstep
    <3> QED BY <1>1, <1>4, <3>3, <3>4 DEF EchoIInv, EchoTypes
  <2>3. CASE d # c
    BY <1>1, <2>1, <2>3, Untouched DEF EchoIInv, EchoTypes
  <2> QED BY <2>2, <2>3
<1> QED BY <1>5, <1>6 DEF EchoIInv

\* A line that comes back is the one that was sent.
LEMMA Read28IInv ==
  ASSUME EchoIInv, NEW c \in EchoClients, Echo!Read28(c)
  PROVE  EchoIInv'
<1> DEFINE l == Echo!NextLine(down[c])
<1>1. /\ cpc[c] = "read" /\ Echo!Ends(down[c]) # {}
      /\ line' = [line EXCEPT ![c] = l] /\ down' = [down EXCEPT ![c] = Echo!Drop(down[c], l)]
      /\ printed' = [printed EXCEPT ![c] = printed[c] \o l] /\ cpc' = [cpc EXCEPT ![c] = "fgets"]
      /\ UNCHANGED <<given, text, echoConn, up, Echo!serverVars>>
  BY DEF Echo!Read28
<1>2. /\ Waiting(c) /\ line[c] \in Seq(Echo!Byte) /\ printed[c] \in Seq(Echo!Byte) /\ text[c] \in Seq(Echo!Byte)
      /\ << >> \in Seq(Echo!Byte)
  BY <1>1, EmptySeq DEF EchoIInv, EchoTypes, InLockstep
<1>3. down[c] = line[c] /\ l = line[c] /\ Echo!Drop(down[c], l) = << >>
  <2>1. Echo!Ends(<< >>) = {}
    BY EmptySeq DEF Echo!Ends
  <2>2. down[c] = line[c]
    BY <1>1, <1>2, <2>1 DEF Waiting
  <2> QED BY <1>2, <2>2, DropAll DEF Waiting
<1> HIDE DEF l
<1>4. printed[c] \o line[c] \in Seq(Echo!Byte)
  BY <1>2, ConcatProperties
<1>5. EchoTypes'
  BY <1>1, <1>2, <1>3, <1>4 DEF EchoIInv, EchoTypes, ClientStates, Echo!serverVars
<1>6. ASSUME NEW d \in EchoClients PROVE InLockstep(d)'
  <2>1. Echo!Inside(d)' = Echo!Inside(d) /\ echoStatus' = echoStatus
    BY <1>1 DEF Echo!Inside, Echo!serverVars
  <2>2. CASE d = c
    <3>1. /\ printed'[c] = printed[c] \o line[c] /\ text'[c] = text[c] /\ given'[c] = given[c]
          /\ down'[c] = << >> /\ up'[c] = up[c] /\ cpc'[c] = "fgets"
      BY <1>1, <1>3 DEF EchoIInv, EchoTypes
    <3>2. printed'[c] \o text'[c] = given'[c] /\ Echo!IsPrefix(printed'[c], given'[c])
      <4>1. printed[c] \o line[c] \o text[c] = given[c]
        BY <1>2 DEF Waiting
      <4> QED BY <1>2, <1>4, <3>1, <4>1, PrefixOfJoined
    <3>3. Resting(c)'
      BY <1>2, <1>3, <2>1, <2>2, <3>1, <3>2 DEF Resting, Waiting
    <3> QED BY <2>2, <3>1, <3>2, <3>3 DEF InLockstep
  <2>3. CASE d # c
    BY <1>1, <2>1, <2>3, Untouched DEF EchoIInv, EchoTypes
  <2> QED BY <2>2, <2>3
<1> QED BY <1>5, <1>6 DEF EchoIInv

\* Without a server the client prints what it sent, when nothing of it came back.
LEMMA Read28LostIInv ==
  ASSUME EchoIInv, NEW c \in EchoClients, Echo!Read28Lost(c)
  PROVE  EchoIInv'
<1> DEFINE l == IF down[c] = << >> THEN line[c] ELSE down[c]
<1>1. /\ cpc[c] = "read" /\ echoStatus = "exited"
      /\ \/ printed' = [printed EXCEPT ![c] = printed[c] \o l] /\ cpc' = [cpc EXCEPT ![c] = "fgets"]
         \/ cpc' = [cpc EXCEPT ![c] = "exited"] /\ printed' = printed
      /\ down' = [down EXCEPT ![c] = << >>]
      /\ UNCHANGED <<given, text, line, echoConn, up, Echo!serverVars>>
  BY DEF Echo!Read28Lost
<1>2. /\ Waiting(c) /\ line[c] \in Seq(Echo!Byte) /\ printed[c] \in Seq(Echo!Byte) /\ text[c] \in Seq(Echo!Byte)
      /\ << >> \in Seq(Echo!Byte) /\ l = line[c]
  BY <1>1, EmptySeq DEF EchoIInv, EchoTypes, InLockstep, Waiting
<1> HIDE DEF l
<1>3. printed[c] \o line[c] \in Seq(Echo!Byte)
  BY <1>2, ConcatProperties
<1>4. EchoTypes'
  BY <1>1, <1>2, <1>3 DEF EchoIInv, EchoTypes, ClientStates, Echo!serverVars
<1>5. ASSUME NEW d \in EchoClients PROVE InLockstep(d)'
  <2>1. Echo!Inside(d)' = Echo!Inside(d) /\ echoStatus' = echoStatus
    BY <1>1 DEF Echo!Inside, Echo!serverVars
  <2>2. CASE d = c
    <3>1. text'[c] = text[c] /\ given'[c] = given[c] /\ down'[c] = << >>
      BY <1>1 DEF EchoIInv, EchoTypes
    <3>2. CASE printed'[c] = printed[c] \o line[c] /\ cpc'[c] = "fgets"
      <4>1. printed'[c] \o text'[c] = given'[c]
        BY <1>2, <3>1, <3>2 DEF Waiting
      <4>2. Echo!IsPrefix(printed'[c], given'[c])
        BY <1>2, <1>3, <3>1, <3>2, <4>1, PrefixOfJoined
      <4>3. Resting(c)'
        BY <1>1, <2>1, <2>2, <3>1, <4>1 DEF Resting
      <4> QED BY <2>2, <3>2, <4>2, <4>3 DEF InLockstep
    <3>3. CASE printed'[c] = printed[c] /\ cpc'[c] = "exited"
      BY <1>1, <2>1, <2>2, <3>1, <3>3 DEF EchoIInv, InLockstep
    <3> QED BY <1>1, <1>2, <3>2, <3>3 DEF EchoIInv, EchoTypes
  <2>3. CASE d # c
    BY <1>1, <2>1, <2>3, Untouched DEF EchoIInv, EchoTypes
  <2> QED BY <2>2, <2>3
<1> QED BY <1>4, <1>5 DEF EchoIInv

LEMMA EndsIInv ==
  ASSUME EchoIInv, NEW c \in EchoClients, Echo!Close35(c) \/ Echo!Kill(c)
  PROVE  EchoIInv'
<1>1. /\ \/ cpc[c] = "fgets" /\ cpc' = [cpc EXCEPT ![c] = "closed"]
         \/ cpc' = [cpc EXCEPT ![c] = "killed"]
      /\ UNCHANGED <<given, text, line, printed, up, down, Echo!serverVars>>
  BY DEF Echo!Close35, Echo!Kill
<1>2. EchoTypes'
  BY <1>1 DEF EchoIInv, EchoTypes, ClientStates, Echo!serverVars
<1>3. ASSUME NEW d \in EchoClients PROVE InLockstep(d)'
  <2>1. Echo!Inside(d)' = Echo!Inside(d) /\ echoStatus' = echoStatus
    BY <1>1 DEF Echo!Inside, Echo!serverVars
  <2>2. CASE d = c
    BY <1>1, <2>1, <2>2 DEF EchoIInv, EchoTypes, InLockstep, Resting
  <2>3. CASE d # c
    BY <1>1, <2>1, <2>3, Untouched DEF EchoIInv, EchoTypes
  <2> QED BY <2>2, <2>3
<1> QED BY <1>2, <1>3 DEF EchoIInv

-----------------------------------------------------------------------------
\* The steps of the server.

LEMMA ConnectionIInv ==
  ASSUME Echo!EchoAssumption, EchoIInv, echoStatus = "running",
         Echo!Close24 \/ Echo!Die \/ \E c \in EchoClients : Echo!Accept20(c)
  PROVE  EchoIInv'
<1>1. /\ UNCHANGED <<Echo!clientVars, up, down>> /\ << >> \in Seq(Echo!Byte)
      /\ \/ echoServing' = Echo!None /\ echoed = << >> /\ echoed' = << >> /\ echoStatus' = "running"
         \/ echoServing' = Echo!None /\ echoed' = << >> /\ echoStatus' = "exited"
         \/ echoServing' \in EchoClients /\ echoed = << >> /\ echoed' = << >> /\ echoStatus' = "running"
  BY EmptySeq DEF Echo!Close24, Echo!Die, Echo!Accept20, EchoIInv, EchoTypes
<1>2. EchoTypes'
  BY <1>1 DEF EchoIInv, EchoTypes, Echo!clientVars
<1>3. ASSUME NEW d \in EchoClients PROVE InLockstep(d)'
  <2>1. echoStatus' = "running" => Echo!Inside(d)' = Echo!Inside(d)
    BY <1>1 DEF Echo!Inside
  <2> QED BY <1>1, <2>1, Untouched DEF EchoIInv, Echo!clientVars
<1> QED BY <1>2, <1>3 DEF EchoIInv

LEMMA Read10IInv ==
  ASSUME Echo!EchoAssumption, EchoIInv, echoStatus = "running", Echo!Read10
  PROVE  EchoIInv'
<1> DEFINE c == echoServing
           l == Echo!NextLine(up[c])
<1>1. /\ c \in EchoClients /\ echoed = << >> /\ up[c] # << >> /\ up[c] \in Seq(Echo!Byte)
      /\ echoed' = l /\ up' = [up EXCEPT ![c] = Echo!Drop(up[c], l)]
      /\ UNCHANGED <<Echo!clientVars, echoConn, down, echoServing, echoStatus>>
  BY DEF Echo!Read10, EchoIInv, EchoTypes
<1>2. l \in Seq(Echo!Byte) /\ Echo!Drop(up[c], l) \in Seq(Echo!Byte)
  BY <1>1, LineFacts
<1> HIDE DEF l
<1>3. EchoTypes'
  BY <1>1, <1>2 DEF EchoIInv, EchoTypes, Echo!clientVars, Echo!EchoAssumption
<1>4. ASSUME NEW d \in EchoClients PROVE InLockstep(d)'
  <2>1. /\ given'[d] = given[d] /\ text'[d] = text[d] /\ line'[d] = line[d] /\ printed'[d] = printed[d]
        /\ down'[d] = down[d] /\ cpc'[d] = cpc[d] /\ echoStatus' = echoStatus /\ InLockstep(d)
    BY <1>1 DEF Echo!clientVars, EchoIInv
  <2>2. CASE d = c
    <3>1. Echo!Inside(d) = << >> /\ Echo!Inside(d)' = l /\ up'[d] = Echo!Drop(up[d], l)
      BY <1>1, <2>2 DEF Echo!Inside, EchoIInv, EchoTypes
    <3>2. cpc[d] \notin {"open", "fgets", "closed"}
      BY <1>1, <2>1, <2>2 DEF InLockstep, Resting
    <3>3. CASE cpc[d] = "read"
      <4>1. down[d] = << >> /\ up[d] = line[d] /\ line[d] \in Seq(Echo!Byte)
        BY <1>1, <2>1, <2>2, <3>1, <3>3 DEF InLockstep, Waiting, EchoIInv, EchoTypes
      <4>2. l = line[d]
        BY <2>1, <2>2, <3>3, <4>1 DEF InLockstep, Waiting, l
      <4>3. up'[d] = << >>
        BY <3>1, <4>1, <4>2, DropAll
      <4>4. Waiting(d)'
        BY <2>1, <3>1, <3>3, <4>1, <4>2, <4>3 DEF InLockstep, Waiting
      <4> QED BY <2>1, <3>3, <4>4 DEF InLockstep
    <3>4. CASE cpc[d] # "read"
      BY <2>1, <3>2, <3>4 DEF InLockstep
    <3> QED BY <3>3, <3>4
  <2>3. CASE d # c
    <3>1. up'[d] = up[d] /\ Echo!Inside(d)' = Echo!Inside(d)
      BY <1>1, <2>3 DEF Echo!Inside, EchoIInv, EchoTypes
    <3> QED BY <2>1, <3>1, Untouched
  <2> QED BY <2>2, <2>3
<1> QED BY <1>3, <1>4 DEF EchoIInv

LEMMA Write12IInv ==
  ASSUME Echo!EchoAssumption, EchoIInv, echoStatus = "running", Echo!Write12
  PROVE  EchoIInv'
<1> DEFINE c == echoServing
<1>1. /\ c \in EchoClients /\ echoed # << >> /\ echoed' = << >> /\ echoed \in Seq(Echo!Byte) /\ << >> \in Seq(Echo!Byte)
      /\ down' = [down EXCEPT ![c] = down[c] \o echoed]
      /\ UNCHANGED <<Echo!clientVars, up, echoServing, echoStatus>>
  BY EmptySeq DEF Echo!Write12, EchoIInv, EchoTypes
<1>2. down[c] \o echoed \in Seq(Echo!Byte) /\ << >> \o echoed = echoed
  BY <1>1, ConcatProperties, ConcatEmptySeq DEF EchoIInv, EchoTypes
<1>3. EchoTypes'
  BY <1>1, <1>2 DEF EchoIInv, EchoTypes, Echo!clientVars
<1>4. ASSUME NEW d \in EchoClients PROVE InLockstep(d)'
  <2>1. /\ given'[d] = given[d] /\ text'[d] = text[d] /\ line'[d] = line[d] /\ printed'[d] = printed[d]
        /\ up'[d] = up[d] /\ cpc'[d] = cpc[d] /\ echoStatus' = echoStatus /\ InLockstep(d)
    BY <1>1 DEF Echo!clientVars, EchoIInv
  <2>2. CASE d = c
    <3>1. Echo!Inside(d) = echoed /\ Echo!Inside(d)' = << >> /\ down'[d] = down[d] \o echoed
      BY <1>1, <2>2 DEF Echo!Inside, EchoIInv, EchoTypes
    <3>2. cpc[d] \notin {"open", "fgets", "closed"}
      BY <1>1, <2>1, <3>1 DEF InLockstep, Resting
    <3>3. CASE cpc[d] = "read"
      <4>1. down[d] = << >> /\ up[d] = << >> /\ echoed = line[d]
        BY <1>1, <2>1, <3>1, <3>3 DEF InLockstep, Waiting
      <4>2. Waiting(d)'
        BY <1>2, <2>1, <3>1, <3>3, <4>1 DEF InLockstep, Waiting
      <4> QED BY <2>1, <3>3, <4>2 DEF InLockstep
    <3>4. CASE cpc[d] # "read"
      BY <2>1, <3>2, <3>4 DEF InLockstep
    <3> QED BY <3>3, <3>4
  <2>3. CASE d # c
    <3>1. down'[d] = down[d] /\ Echo!Inside(d)' = Echo!Inside(d)
      BY <1>1, <2>3 DEF Echo!Inside, EchoIInv, EchoTypes
    <3> QED BY <2>1, <3>1, Untouched
  <2> QED BY <2>2, <2>3
<1> QED BY <1>3, <1>4 DEF EchoIInv

LEMMA NextEchoIInv == Echo!EchoAssumption /\ EchoIInv /\ [Echo!Next]_echoVars => EchoIInv'
<1> SUFFICES ASSUME Echo!EchoAssumption, EchoIInv, [Echo!Next]_echoVars PROVE EchoIInv'
  OBVIOUS
<1>1. CASE Echo!Server
  BY <1>1, ConnectionIInv, Read10IInv, Write12IInv DEF Echo!Server
<1>2. CASE \E c \in EchoClients : Echo!Client(c) \/ Echo!Kill(c)
  BY <1>2, Open17IInv, Fgets23IInv, Read28IInv, Read28LostIInv, EndsIInv DEF Echo!Client
<1>3. CASE UNCHANGED echoVars
  BY <1>3 DEF echoVars, Echo!clientVars, Echo!serverVars, EchoIInv, EchoTypes, InLockstep, Resting, Waiting, Echo!Inside
<1> QED BY <1>1, <1>2, <1>3 DEF Echo!Next

(***************************************************************************)
(* What a client prints is the beginning of what it was given, for any     *)
(* number of clients, any inputs and any MAXLINE, and while the server     *)
(* runs no byte is lost, doubled or moved.                                 *)
(***************************************************************************)
THEOREM EchoLosesNothing ==
  ASSUME Echo!EchoAssumption
  PROVE  Echo!Spec => []Echo!EchoExact
<1>1. Echo!Init => EchoIInv
  BY InitEchoIInv
<1>2. EchoIInv /\ [Echo!Next]_(Echo!vars) => EchoIInv'
  BY NextEchoIInv DEF Echo!vars, Echo!clientVars, Echo!serverVars, echoVars
<1>3. EchoIInv => Echo!EchoExact
  BY ImpliesEchoExact
<1> QED BY <1>1, <1>2, <1>3, PTL DEF Echo!Spec

-----------------------------------------------------------------------------
(* Tiny: each line has its descriptors, and so much of the answer. *)

Lines ==
  {"accept45", "readline72", "method77", "headers82", "stat85", "header202", "open206", "read209",
   "write211", "head248", "fork252", "wait257", "close51"}

\* The descriptors at each line of doit, and the child at line 257.
FdsAt(l) ==
  {"listenfd"} \cup (IF l = "accept45" THEN {} ELSE {"connfd"})
               \cup (IF l = "read209" THEN {"srcfd"} ELSE {})
ChildAt(l) == IF l = "wait257" THEN {"forked", "execs", "adds", "ended"} ELSE {"none"}

TinyIInv == spc \in Lines /\ fds = FdsAt(spc) /\ child \in ChildAt(spc)

LEMMA InitTinyIInv == Tiny!Init => TinyIInv
BY DEF Tiny!Init, TinyIInv, Lines, FdsAt, ChildAt

LEMMA ImpliesNoDescriptorLeft == TinyIInv => Tiny!NoDescriptorLeft
BY DEF TinyIInv, Tiny!NoDescriptorLeft, FdsAt, ChildAt

\* Reading the request, down to the line where it is answered.
LEMMA ReadingIInv ==
  ASSUME TinyIInv,
         (\E c \in TinyClients : Tiny!Accept45(c)) \/ Tiny!Readline72 \/ Tiny!ReadError \/ Tiny!Method77 \/ Tiny!Headers82 \/ Tiny!Stat85
  PROVE  TinyIInv'
<1>1. CASE \E c \in TinyClients : Tiny!Accept45(c)
  BY <1>1 DEF Tiny!Accept45, Tiny!Goto, TinyIInv, Lines, FdsAt, ChildAt
<1>2. CASE Tiny!Readline72
  BY <1>2 DEF Tiny!Readline72, Tiny!Goto, TinyIInv, Lines, FdsAt, ChildAt, Tiny!envVars, Tiny!fileVars
<1>3. CASE Tiny!ReadError
  BY <1>3 DEF Tiny!ReadError, Tiny!Exit, TinyIInv
<1>4. CASE Tiny!Method77
  BY <1>4 DEF Tiny!Method77, TinyIInv, Lines, FdsAt, ChildAt
<1>5. CASE Tiny!Headers82
  BY <1>5 DEF Tiny!Headers82, Tiny!Goto, TinyIInv, Lines, FdsAt, ChildAt
<1>6. CASE Tiny!Stat85
  BY <1>6 DEF Tiny!Stat85, TinyIInv, Lines, FdsAt, ChildAt
<1> QED BY <1>1, <1>2, <1>3, <1>4, <1>5, <1>6

\* serve_static opens and closes the file.
LEMMA StaticIInv ==
  ASSUME TinyIInv, Tiny!Header202 \/ Tiny!Open206 \/ Tiny!Open206Error \/ Tiny!Read209 \/ Tiny!Write211
  PROVE  TinyIInv'
<1>1. CASE Tiny!Header202
  BY <1>1 DEF Tiny!Header202, Tiny!Goto, TinyIInv, Lines, FdsAt, ChildAt
<1>2. CASE Tiny!Open206
  BY <1>2 DEF Tiny!Open206, Tiny!Goto, TinyIInv, Lines, FdsAt, ChildAt
<1>3. CASE Tiny!Open206Error
  BY <1>3 DEF Tiny!Open206Error, Tiny!Exit, TinyIInv
<1>4. CASE Tiny!Read209
  BY <1>4 DEF Tiny!Read209, Tiny!Goto, TinyIInv, Lines, FdsAt, ChildAt
<1>5. CASE Tiny!Write211
  BY <1>5 DEF Tiny!Write211, Tiny!Goto, TinyIInv, Lines, FdsAt, ChildAt
<1> QED BY <1>1, <1>2, <1>3, <1>4, <1>5

\* serve_dynamic has a child from the fork to the wait; Close51 ends a request.
LEMMA DynamicIInv ==
  ASSUME TinyIInv, Tiny!Head248 \/ Tiny!Fork252 \/ Tiny!Fork252Error \/ Tiny!Wait257 \/ Tiny!Close51
  PROVE  TinyIInv'
<1>1. CASE Tiny!Head248
  BY <1>1 DEF Tiny!Head248, Tiny!Goto, TinyIInv, Lines, FdsAt, ChildAt
<1>2. CASE Tiny!Fork252
  BY <1>2 DEF Tiny!Fork252, Tiny!Goto, TinyIInv, Lines, FdsAt, ChildAt
<1>3. CASE Tiny!Fork252Error
  BY <1>3 DEF Tiny!Fork252Error, Tiny!Exit, TinyIInv
<1>4. CASE Tiny!Wait257
  BY <1>4 DEF Tiny!Wait257, Tiny!Goto, TinyIInv, Lines, FdsAt, ChildAt
<1>5. CASE Tiny!Close51
  BY <1>5 DEF Tiny!Close51, Tiny!Goto, TinyIInv, Lines, FdsAt, ChildAt
<1> QED BY <1>1, <1>2, <1>3, <1>4, <1>5

\* The child goes on while the server waits, and has its own descriptors.
LEMMA ChildIInv ==
  ASSUME TinyIInv, Tiny!Child
  PROVE  TinyIInv'
<1>1. ASSUME NEW from \in {"forked", "execs", "adds"}, NEW to \in {"execs", "adds", "ended"}, Tiny!ChildGoes(from, to)
      PROVE  TinyIInv'
  BY <1>1 DEF Tiny!ChildGoes, TinyIInv, Lines, FdsAt, ChildAt
<1> QED BY <1>1 DEF Tiny!Child, Tiny!Dup254, Tiny!Execve255, Tiny!Execve255Error, Tiny!Adder

\* What the clients do, and whoever changes the page, is outside the server.
LEMMA OutsideIInv ==
  ASSUME TinyIInv, Tiny!ChangePage \/ \E c \in TinyClients : Tiny!Send(c) \/ Tiny!Client(c)
  PROVE  TinyIInv'
BY DEF Tiny!ChangePage, Tiny!Send, Tiny!SendPiece, Tiny!Client, Tiny!Connect, Tiny!Stall, Tiny!Leave, TinyIInv

LEMMA NextTinyIInv == TinyIInv /\ [Tiny!Next]_tinyVars => TinyIInv'
<1> SUFFICES ASSUME TinyIInv, [Tiny!Next]_tinyVars PROVE TinyIInv'
  OBVIOUS
<1>1. CASE Tiny!Server
  BY <1>1, ReadingIInv, StaticIInv, DynamicIInv DEF Tiny!Server, Tiny!Serve
<1>2. CASE Tiny!Child
  BY <1>2, ChildIInv
<1>3. CASE Tiny!ChangePage \/ \E c \in TinyClients : Tiny!Send(c) \/ Tiny!Client(c)
  BY <1>3, OutsideIInv
<1>4. CASE UNCHANGED tinyVars
  BY <1>4 DEF tinyVars, TinyIInv
<1> QED BY <1>1, <1>2, <1>3, <1>4 DEF Tiny!Next

-----------------------------------------------------------------------------
\* What tiny answers.

TinyTypes ==
  /\ conn \in [TinyClients -> {"none", "queued", "open", "closed", "reset"}]
  /\ peer \in [TinyClients -> {"here", "left", "aborted"}]
  /\ ask \in [TinyClients -> Requests] /\ sent \in [TinyClients -> 0..2]
  /\ inbox \in [TinyClients -> Seq(1..2)] /\ rio \in Seq(1..2)
  /\ DOMAIN reply = TinyClients /\ page \in PageSizes
  /\ spc # "accept45" => serving \in TinyClients /\ conn[serving] = "open"

\* The client still waits for the answer to a request that can be answered.
Waits(c) == peer[c] = "here" /\ ask[c].uri # Tiny!NoUri
\* All of the request has been read.
Read(c) == sent[c] = 2 /\ Len(inbox[c]) = 0
\* The answer TinyAnswers speaks of.
Answered(c) ==
  IF ask[c].method = "GET"
  THEN /\ reply[c].path = ask[c].uri.path /\ reply[c].code \in Tiny!Codes(ask[c].uri)
       /\ (ask[c].uri.path \in Dynamic => ask[c].uri.args = "a&b" /\ File[ask[c].uri.path] # "broken")
          => Tiny!Framed(reply[c])
  ELSE reply[c].code = 501

\* The file of the request was found by stat, and is served.
StaticFound(c) ==
  /\ Tiny!IsStatic /\ 200 \in Tiny!Codes(ask[c].uri)
  /\ size \in Nat /\ (uri.path # Page => size = 1)
DynamicFound(c) ==
  /\ ~Tiny!IsStatic /\ 200 \in Tiny!Codes(ask[c].uri) /\ cgiargs = ask[c].uri.args
Header(c, length) == reply[c] = Tiny!Response(uri.path, 200, length, 0, 0)
ChildWrote(c) ==
  CASE child = "adds"  -> Header(c, -1) /\ File[uri.path] = "program"
    [] child = "ended" -> Answered(c)
    [] OTHER           -> Header(c, -1)

\* What is true of the request that is served, line by line.
AtLine(c) ==
  CASE spc = "readline72" -> Len(inbox[c]) = sent[c]
    [] spc = "method77"   -> ask[c].method = method /\ uri = ask[c].uri /\ 1 + Len(rio) + Len(inbox[c]) = sent[c]
    [] spc = "headers82"  -> ask[c].method = "GET" /\ uri = ask[c].uri /\ 1 + Len(rio) + Len(inbox[c]) = sent[c]
    [] spc = "close51"    -> Answered(c) /\ (ask[c].method = "GET" => Read(c))
    [] OTHER ->
         /\ ask[c].method = "GET" /\ Read(c) /\ uri.path = ask[c].uri.path
         /\ spc = "stat85" => uri = ask[c].uri
         /\ spc \in {"header202", "open206", "read209", "write211"} => StaticFound(c)
         /\ spc \in {"open206", "read209", "write211"} => Header(c, size)
         /\ spc = "write211" => (uri.path # Page => got = size)
         /\ spc \in {"head248", "fork252", "wait257"} => DynamicFound(c)
         /\ spc = "fork252" => Header(c, -1)
         /\ spc = "wait257" => ChildWrote(c)

Follows(c) ==
  /\ conn[c] \in {"none", "queued"} => Len(inbox[c]) = sent[c]
  /\ Waits(c) /\ spc # "accept45" /\ c = serving => AtLine(c)
  /\ Waits(c) /\ conn[c] \in {"closed", "reset"} =>
       Answered(c) /\ (ask[c].method = "GET" => conn[c] = "closed" /\ sent[c] = 2)
AnswersInv == TinyIInv /\ TinyTypes /\ \A c \in TinyClients : Follows(c)

\* What follows from the types of the sequences.
LEMMA Lengths ==
  ASSUME TinyTypes, NEW c \in TinyClients
  PROVE  /\ Len(inbox[c]) \in Nat /\ Len(rio) \in Nat
         /\ inbox[c] = << >> <=> Len(inbox[c]) = 0
         /\ rio = << >> <=> Len(rio) = 0
BY EmptySeq, LenProperties DEF TinyTypes

\* A step of doit is about the request that is served.
LEMMA StepOfDoit ==
  ASSUME AnswersInv, spc # "accept45", spc' # "accept45", UNCHANGED <<serving, Tiny!envVars>>,
         \A c \in TinyClients \ {serving} : inbox'[c] = inbox[c] /\ reply'[c] = reply[c],
         Waits(serving) => AtLine(serving)'
  PROVE  \A c \in TinyClients : Follows(c)'
<1> SUFFICES ASSUME NEW c \in TinyClients PROVE Follows(c)'
  OBVIOUS
<1>1. Follows(c) /\ conn[serving] = "open" /\ UNCHANGED <<conn, ask, peer, sent>>
  BY DEF AnswersInv, TinyTypes, Tiny!envVars, Tiny!clientVars
<1>2. Waits(c)' <=> Waits(c)
  BY <1>1 DEF Waits
<1>3. CASE c = serving
  BY <1>1, <1>2, <1>3 DEF Follows
<1>4. CASE c # serving
  BY <1>1, <1>2, <1>4 DEF Follows, Answered, Tiny!Framed
<1> QED BY <1>3, <1>4

\* Reading takes some of the pieces that have arrived.
LEMMA PiecesRead ==
  ASSUME AnswersInv, spc # "accept45", NEW k, Tiny!Arrived(k)
  PROVE  /\ k \in Nat /\ 1 <= k /\ k <= Len(inbox[serving]) /\ SubSeq(inbox[serving], 2, k) \in Seq(1..2)
         /\ Len(SubSeq(inbox[serving], 2, k)) = k - 1
         /\ inbox' \in [TinyClients -> Seq(1..2)] /\ Len(inbox'[serving]) = Len(inbox[serving]) - k
         /\ \A c \in TinyClients \ {serving} : inbox'[c] = inbox[c]
<1> DEFINE b == inbox[serving]
<1>1. /\ serving \in TinyClients /\ b \in Seq(1..2) /\ Len(b) \in Nat
      /\ inbox' = [inbox EXCEPT ![serving] = SubSeq(b, k + 1, Len(b))] /\ k \in 1..Len(b)
  BY LenProperties DEF AnswersInv, TinyTypes, Tiny!Arrived
<1>2. \A i \in 1..Len(b) : b[i] \in 1..2
  BY <1>1, ElementOfSeq
<1>3. /\ SubSeq(b, k + 1, Len(b)) \in Seq(1..2)
      /\ Len(SubSeq(b, k + 1, Len(b))) = Len(b) - k
  BY <1>1, Cut
<1>4. SubSeq(b, 2, k) \in Seq(1..2) /\ Len(SubSeq(b, 2, k)) = IF 2 <= k THEN k - 2 + 1 ELSE 0
  <2>1. \A i \in 2..k : b[i] \in 1..2
    BY <1>1, <1>2
  <2> QED BY <1>1, <2>1, SubSeqProperties
<1> QED BY <1>1, <1>3, <1>4 DEF AnswersInv, TinyTypes

\* The server waits, and nobody is served but the one it accepts.
LEMMA AcceptFollows ==
  ASSUME AnswersInv, NEW c \in TinyClients, Tiny!Accept45(c)
  PROVE  TinyTypes' /\ \A d \in TinyClients : Follows(d)'
<1>1. /\ spc = "accept45" /\ spc' = "readline72" /\ conn[c] = "queued" /\ serving' = c
      /\ conn' = [conn EXCEPT ![c] = "open"] /\ rio' = << >>
      /\ UNCHANGED <<ask, peer, sent, inbox, reply, page>>
  BY DEF Tiny!Accept45, Tiny!Goto, Tiny!clientVars
<1>2. TinyTypes'
  BY <1>1, EmptySeq DEF AnswersInv, TinyTypes
<1>3. ASSUME NEW d \in TinyClients PROVE Follows(d)'
  <2>1. Follows(d)
    BY DEF AnswersInv
  <2>2. conn' \in [TinyClients -> {"none", "queued", "open", "closed", "reset"}] /\ conn'[c] = "open" /\ (d # c => conn'[d] = conn[d])
    BY <1>1, <1>2 DEF AnswersInv, TinyTypes
  <2>3. CASE d = c
    BY <1>1, <2>1, <2>2, <2>3 DEF Follows, AtLine
  <2>4. CASE d # c
    BY <1>1, <2>1, <2>2, <2>4 DEF Follows, Waits, Answered, Tiny!Framed
  <2> QED BY <2>3, <2>4
<1> QED BY <1>2, <1>3

\* Reading the request line.
LEMMA Readline72Follows ==
  ASSUME AnswersInv, Tiny!Readline72
  PROVE  TinyTypes' /\ \A c \in TinyClients : Follows(c)'
<1>1. /\ spc = "readline72" /\ spc' = "method77" /\ UNCHANGED <<serving, Tiny!envVars, reply>>
  BY DEF Tiny!Readline72, Tiny!Goto
<1>2. serving \in TinyClients /\ conn[serving] = "open" /\ Follows(serving)
  BY <1>1 DEF AnswersInv, TinyTypes
<1>3. /\ inbox' \in [TinyClients -> Seq(1..2)] /\ rio' \in Seq(1..2)
      /\ \A d \in TinyClients \ {serving} : inbox'[d] = inbox[d]
      /\ Waits(serving) => /\ method' = ask[serving].method /\ uri' = ask[serving].uri
                           /\ 1 + Len(rio') + Len(inbox'[serving]) = Len(inbox[serving])
  <2>1. CASE Tiny!AtEnd /\ UNCHANGED rio
    BY <2>1 DEF Tiny!AtEnd, AnswersInv, TinyTypes, Waits
  <2>2. CASE /\ \E k \in 1..2 : Tiny!Arrived(k) /\ rio' = SubSeq(inbox[serving], 2, k)
             /\ method' = ask[serving].method
             /\ uri' \in IF ask[serving].uri = Tiny!NoUri THEN Tiny!StaleUris ELSE {ask[serving].uri}
    <3>1. PICK k \in 1..2 : Tiny!Arrived(k) /\ rio' = SubSeq(inbox[serving], 2, k)
      BY <2>2
    <3>2. /\ rio' \in Seq(1..2) /\ Len(rio') = k - 1 /\ Len(inbox[serving]) \in Nat
          /\ inbox' \in [TinyClients -> Seq(1..2)] /\ Len(inbox'[serving]) = Len(inbox[serving]) - k
          /\ \A d \in TinyClients \ {serving} : inbox'[d] = inbox[d]
      BY <1>1, <1>2, <3>1, PiecesRead, Lengths DEF AnswersInv
    <3>3. Waits(serving) => method' = ask[serving].method /\ uri' = ask[serving].uri
      BY <2>2 DEF Waits
    <3>4. 1 + Len(rio') + Len(inbox'[serving]) = Len(inbox[serving])
      BY <3>2
    <3> QED BY <3>2, <3>3, <3>4
  <2> QED BY <2>1, <2>2 DEF Tiny!Readline72
<1>4. TinyTypes'
  BY <1>1, <1>2, <1>3 DEF AnswersInv, TinyTypes, Tiny!envVars, Tiny!clientVars
<1>5. Waits(serving) => AtLine(serving)'
  BY <1>1, <1>2, <1>3 DEF Follows, AtLine, Tiny!envVars, Tiny!clientVars
<1> QED BY <1>1, <1>3, <1>4, <1>5, StepOfDoit

\* The method is looked at; clienterror answers another one.
LEMMA Method77Follows ==
  ASSUME AnswersInv, Tiny!Method77
  PROVE  TinyTypes' /\ \A c \in TinyClients : Follows(c)'
<1>1. /\ spc = "method77" /\ spc' \in {"headers82", "close51"}
      /\ UNCHANGED <<serving, rio, method, uri, Tiny!envVars, inbox>>
      /\ DOMAIN reply' = DOMAIN reply /\ \A d \in TinyClients \ {serving} : reply'[d] = reply[d]
  BY DEF Tiny!Method77, Tiny!Clienterror, Tiny!Writes, Tiny!requestVars, AnswersInv, TinyTypes
<1>2. serving \in TinyClients /\ Follows(serving) /\ DOMAIN reply = TinyClients
  BY <1>1 DEF AnswersInv, TinyTypes
<1>3. TinyTypes'
  BY <1>1 DEF AnswersInv, TinyTypes, Tiny!envVars, Tiny!clientVars
<1>4. ASSUME Waits(serving) PROVE AtLine(serving)'
  <2>1. ask[serving].method = method /\ uri = ask[serving].uri /\ 1 + Len(rio) + Len(inbox[serving]) = sent[serving]
    BY <1>1, <1>2, <1>4 DEF Follows, AtLine
  <2>2. CASE spc' = "headers82"
    BY <1>1, <2>1, <2>2 DEF AtLine, Tiny!Method77, Tiny!envVars, Tiny!clientVars
  <2>3. CASE spc' = "close51"
    <3>1. method # "GET" /\ reply'[serving].code = 501
      BY <1>2, <2>3 DEF Tiny!Method77, Tiny!Clienterror, Tiny!Writes, Tiny!Response
    <3> QED BY <1>1, <2>1, <2>3, <3>1 DEF AtLine, Answered, Tiny!envVars, Tiny!clientVars
  <2> QED BY <1>1, <2>2, <2>3
<1> QED BY <1>1, <1>3, <1>4, StepOfDoit

\* The headers are read to their end.
LEMMA Headers82Follows ==
  ASSUME AnswersInv, Tiny!Headers82
  PROVE  TinyTypes' /\ \A c \in TinyClients : Follows(c)'
<1>1. /\ spc = "headers82" /\ spc' = "stat85" /\ rio' = << >>
      /\ UNCHANGED <<serving, method, uri, Tiny!envVars, reply>>
  BY DEF Tiny!Headers82, Tiny!Goto
<1>2. serving \in TinyClients /\ Follows(serving) /\ Len(inbox[serving]) \in Nat /\ Len(rio) \in Nat
      /\ sent[serving] \in 0..2 /\ (rio = << >> <=> Len(rio) = 0)
  BY <1>1, Lengths DEF AnswersInv, TinyTypes
<1>3. /\ inbox' \in [TinyClients -> Seq(1..2)] /\ \A d \in TinyClients \ {serving} : inbox'[d] = inbox[d]
      /\ Waits(serving) => Read(serving)'
  <2>0. Waits(serving) => 1 + Len(rio) + Len(inbox[serving]) = sent[serving]
    BY <1>1, <1>2 DEF Follows, AtLine
  <2>1. CASE rio # << >> /\ UNCHANGED inbox
    BY <1>1, <1>2, <2>0, <2>1 DEF AnswersInv, TinyTypes, Read, Tiny!envVars, Tiny!clientVars
  <2>2. CASE rio = << >> /\ Tiny!Arrived(1)
    <3>1. /\ 1 <= Len(inbox[serving]) /\ inbox' \in [TinyClients -> Seq(1..2)]
          /\ Len(inbox'[serving]) = Len(inbox[serving]) - 1
          /\ \A d \in TinyClients \ {serving} : inbox'[d] = inbox[d]
      BY <1>1, <2>2, PiecesRead
    <3>2. ASSUME Waits(serving) PROVE Read(serving)'
      <4>1. Len(rio) = 0
        BY <1>2, <2>2
      <4>2. 1 + Len(rio) + Len(inbox[serving]) = sent[serving]
        BY <2>0, <3>2
      <4>3. Len(inbox[serving]) = 1 /\ sent[serving] = 2
        <5>1. \A n \in Nat, m \in 0..2 : 1 <= n /\ 1 + 0 + n = m => n = 1 /\ m = 2
          OBVIOUS
        <5>2. Len(inbox[serving]) \in Nat /\ sent[serving] \in 0..2 /\ 1 <= Len(inbox[serving])
          BY <1>2, <3>1
        <5> QED BY <4>1, <4>2, <5>1, <5>2
      <4> QED BY <1>1, <3>1, <4>3 DEF Read, Tiny!envVars, Tiny!clientVars
    <3> QED BY <3>1, <3>2
  <2>3. CASE rio = << >> /\ Tiny!AtEnd
    BY <2>3 DEF Tiny!AtEnd, AnswersInv, TinyTypes, Waits
  <2> QED BY <2>1, <2>2, <2>3 DEF Tiny!Headers82
<1>4. TinyTypes'
  BY <1>1, <1>3, EmptySeq DEF AnswersInv, TinyTypes, Tiny!envVars, Tiny!clientVars
<1>5. Waits(serving) => AtLine(serving)'
  BY <1>1, <1>2, <1>3 DEF Follows, AtLine, Tiny!envVars, Tiny!clientVars
<1> QED BY <1>1, <1>3, <1>4, <1>5, StepOfDoit

-----------------------------------------------------------------------------
\* Answering.

\* What stat finds decides the code, for a file that exists and one that may change.
LEMMA Stat85Follows ==
  ASSUME Tiny!TinyAssumption, AnswersInv, Tiny!Stat85
  PROVE  TinyTypes' /\ \A c \in TinyClients : Follows(c)'
<1>1. /\ spc = "stat85" /\ spc' \in {"close51", "header202", "head248"}
      /\ UNCHANGED <<serving, rio, Tiny!envVars, inbox>>
      /\ DOMAIN reply' = DOMAIN reply /\ \A d \in TinyClients \ {serving} : reply'[d] = reply[d]
  BY DEF Tiny!Stat85, Tiny!Clienterror, Tiny!Writes, AnswersInv, TinyTypes
<1>2. serving \in TinyClients /\ Follows(serving) /\ DOMAIN reply = TinyClients /\ ask[serving] \in Requests /\ page \in PageSizes
  BY <1>1 DEF AnswersInv, TinyTypes
<1>3. TinyTypes'
  BY <1>1 DEF AnswersInv, TinyTypes, Tiny!envVars, Tiny!clientVars
<1>4. ASSUME Waits(serving) PROVE AtLine(serving)'
  <2>1. ask[serving].method = "GET" /\ Read(serving) /\ uri = ask[serving].uri
    BY <1>1, <1>2, <1>4 DEF Follows, AtLine
  <2>2. /\ uri = [path |-> uri.path, args |-> uri.args] /\ uri.path \in DOMAIN File /\ Page \notin Dynamic /\ File[Page] = "regular"
        /\ PageSizes \subseteq Nat \cup {-1}
    BY <1>2, <1>4, <2>1 DEF Tiny!TinyAssumption, Waits, Tiny!Absent
  <2>3. uri'.path = uri.path /\ (~Tiny!IsStatic => cgiargs' = uri.args) /\ (Tiny!IsStatic <=> Tiny!IsStatic')
    BY <2>2 DEF Tiny!Stat85, Tiny!ParseUri, Tiny!IsStatic
  <2>4. /\ (uri.path # Page => size' = 1) /\ (Tiny!Found # "nothing" => size' \in Nat)
    BY <1>2, <2>2 DEF Tiny!Stat85, Tiny!Found, Tiny!Absent
  <2>5. CASE spc' = "close51"
    <3>1. PICK code \in {404, 403} :
             /\ reply' = [reply EXCEPT ![serving] = Tiny!Response(uri.path, code, Tiny!ErrorLength, Tiny!ErrorLength, Tiny!ErrorLength)]
             /\ code = 404 <=> Tiny!Found = "nothing"
             /\ code = 403 => Tiny!Found = "forbidden" \/ (~Tiny!IsStatic /\ Tiny!Found = "regular")
      BY <2>5 DEF Tiny!Stat85, Tiny!Clienterror, Tiny!Writes
    <3>2. reply'[serving] = Tiny!Response(uri.path, code, 9, 9, 9)
      BY <1>2, <3>1 DEF Tiny!ErrorLength
    <3>3. code \in Tiny!Codes(uri)
      BY <2>2, <3>1 DEF Tiny!Codes, Tiny!Found, Tiny!IsStatic
    <3>4. Tiny!Framed(reply'[serving])
      BY <3>2 DEF Tiny!Framed, Tiny!Response
    <3>5. Answered(serving)'
      BY <1>1, <2>1, <3>2, <3>3, <3>4 DEF Answered, Tiny!Framed, Tiny!Codes, Tiny!Response, Tiny!envVars, Tiny!clientVars
    <3> QED BY <1>1, <2>1, <2>5, <3>5 DEF AtLine, Read, Tiny!envVars, Tiny!clientVars
  <2>6. CASE spc' = "header202"
    <3>1. Tiny!IsStatic /\ Tiny!Found \in {"regular", "program", "broken"}
      BY <2>6 DEF Tiny!Stat85
    <3>2. 200 \in Tiny!Codes(uri)
      BY <2>2, <3>1 DEF Tiny!Codes, Tiny!Found, Tiny!IsStatic
    <3> QED BY <1>1, <2>1, <2>3, <2>4, <2>6, <3>1, <3>2 DEF AtLine, Read, StaticFound, Tiny!Codes, Tiny!envVars, Tiny!clientVars
  <2>7. CASE spc' = "head248"
    <3>1. ~Tiny!IsStatic /\ Tiny!Found \in {"program", "broken"}
      BY <2>7 DEF Tiny!Stat85
    <3>2. 200 \in Tiny!Codes(uri)
      BY <2>2, <3>1 DEF Tiny!Codes, Tiny!Found, Tiny!IsStatic
    <3> QED BY <1>1, <2>1, <2>3, <2>7, <3>1, <3>2 DEF AtLine, Read, DynamicFound, Tiny!Codes, Tiny!envVars, Tiny!clientVars
  <2> QED BY <1>1, <2>5, <2>6, <2>7
<1> QED BY <1>1, <1>3, <1>4, StepOfDoit

\* serve_static, whatever happens to the file meanwhile.
LEMMA StaticFollows ==
  ASSUME AnswersInv, Tiny!Header202 \/ Tiny!Open206 \/ Tiny!Read209 \/ Tiny!Write211
  PROVE  TinyTypes' /\ \A c \in TinyClients : Follows(c)'
<1>1. /\ spc \in {"header202", "open206", "read209", "write211"} /\ spc' \in {"open206", "read209", "write211", "close51"}
      /\ UNCHANGED <<serving, rio, uri, size, Tiny!envVars, inbox>>
      /\ DOMAIN reply' = DOMAIN reply /\ \A d \in TinyClients \ {serving} : reply'[d] = reply[d]
  BY DEF Tiny!Header202, Tiny!Open206, Tiny!Read209, Tiny!Write211, Tiny!Goto, Tiny!Writes, Tiny!requestVars, Tiny!fileVars, Tiny!envVars, Tiny!clientVars, AnswersInv, TinyTypes
<1>2. serving \in TinyClients /\ Follows(serving) /\ DOMAIN reply = TinyClients
  BY <1>1 DEF AnswersInv, TinyTypes
<1>3. TinyTypes'
  BY <1>1 DEF AnswersInv, TinyTypes, Tiny!envVars, Tiny!clientVars
<1>4. ASSUME Waits(serving) PROVE AtLine(serving)'
  <2>1. ask[serving].method = "GET" /\ Read(serving) /\ uri.path = ask[serving].uri.path /\ StaticFound(serving)
    BY <1>1, <1>2, <1>4 DEF Follows, AtLine
  <2>2. (ask[serving].method = "GET" /\ Read(serving) /\ uri.path = ask[serving].uri.path /\ StaticFound(serving))'
    BY <1>1, <2>1 DEF Read, StaticFound, Tiny!IsStatic, Tiny!Codes, Tiny!envVars, Tiny!clientVars
  <2>3. CASE Tiny!Header202
    <3>1. Header(serving, size)'
      BY <1>1, <1>2, <2>3 DEF Tiny!Header202, Tiny!Writes, Header, Tiny!Response
    <3> QED BY <2>2, <2>3, <3>1 DEF Tiny!Header202, Tiny!Goto, AtLine
  <2>4. CASE Tiny!Open206
    BY <1>1, <1>2, <1>4, <2>2, <2>4 DEF Tiny!Open206, Tiny!Goto, Follows, AtLine, Header
  <2>5. CASE Tiny!Read209
    BY <1>1, <1>2, <1>4, <2>2, <2>5 DEF Tiny!Read209, Tiny!Goto, Follows, AtLine, Header
  <2>6. CASE Tiny!Write211
    <3>1. Header(serving, size) /\ (uri.path # Page => got = size) /\ size # -1
      BY <1>2, <1>4, <2>1, <2>6 DEF Tiny!Write211, Tiny!Goto, Follows, AtLine, StaticFound
    <3>2. /\ reply'[serving].path = uri.path /\ reply'[serving].code = 200 /\ reply'[serving].length = size
          /\ reply'[serving].body = size /\ reply'[serving].read = got /\ ~reply'[serving].log
      BY <1>2, <2>6, <3>1 DEF Tiny!Write211, Tiny!Writes, Header, Tiny!Response
    <3>3. Tiny!Framed(reply'[serving])
      BY <3>1, <3>2 DEF Tiny!Framed
    <3>4. Answered(serving)'
      BY <1>1, <2>1, <2>2, <3>2, <3>3 DEF Answered, Tiny!Framed, Tiny!Codes, StaticFound, Tiny!envVars, Tiny!clientVars
    <3> QED BY <2>2, <2>6, <3>4 DEF Tiny!Write211, Tiny!Goto, AtLine
  <2> QED BY <2>3, <2>4, <2>5, <2>6
<1> QED BY <1>1, <1>3, <1>4, StepOfDoit

\* serve_dynamic writes two lines of the header, and waits for its child.
LEMMA DynamicFollows ==
  ASSUME AnswersInv, Tiny!Head248 \/ Tiny!Fork252 \/ Tiny!Wait257
  PROVE  TinyTypes' /\ \A c \in TinyClients : Follows(c)'
<1>1. /\ spc \in {"head248", "fork252", "wait257"} /\ spc' \in {"fork252", "wait257", "close51"}
      /\ UNCHANGED <<serving, rio, uri, cgiargs, Tiny!envVars, inbox>>
      /\ DOMAIN reply' = DOMAIN reply /\ \A d \in TinyClients \ {serving} : reply'[d] = reply[d]
  BY DEF Tiny!Head248, Tiny!Fork252, Tiny!Wait257, Tiny!Goto, Tiny!Writes, Tiny!requestVars, AnswersInv, TinyTypes
<1>2. serving \in TinyClients /\ Follows(serving) /\ DOMAIN reply = TinyClients
  BY <1>1 DEF AnswersInv, TinyTypes
<1>3. TinyTypes'
  BY <1>1 DEF AnswersInv, TinyTypes, Tiny!envVars, Tiny!clientVars
<1>4. ASSUME Waits(serving) PROVE AtLine(serving)'
  <2>1. ask[serving].method = "GET" /\ Read(serving) /\ uri.path = ask[serving].uri.path /\ DynamicFound(serving)
    BY <1>1, <1>2, <1>4 DEF Follows, AtLine
  <2>2. (ask[serving].method = "GET" /\ Read(serving) /\ uri.path = ask[serving].uri.path /\ DynamicFound(serving))'
    BY <1>1, <2>1 DEF Read, DynamicFound, Tiny!IsStatic, Tiny!Codes, Tiny!envVars, Tiny!clientVars
  <2>3. CASE Tiny!Head248
    <3>1. Header(serving, -1)'
      BY <1>1, <1>2, <2>3 DEF Tiny!Head248, Tiny!Writes, Header, Tiny!Response
    <3> QED BY <2>2, <2>3, <3>1 DEF Tiny!Head248, Tiny!Goto, AtLine
  <2>4. CASE Tiny!Fork252
    BY <1>1, <1>2, <1>4, <2>2, <2>4 DEF Tiny!Fork252, Tiny!Goto, Follows, AtLine, ChildWrote, Header
  <2>5. CASE Tiny!Wait257
    <3>1. Answered(serving) /\ UNCHANGED reply
      BY <1>2, <1>4, <2>5 DEF Tiny!Wait257, Tiny!Goto, Follows, AtLine, ChildWrote
    <3> QED BY <1>1, <2>2, <2>5, <3>1 DEF Tiny!Wait257, Tiny!Goto, AtLine, Answered, Tiny!Framed, Tiny!Codes, Tiny!envVars, Tiny!clientVars
  <2> QED BY <2>3, <2>4, <2>5
<1> QED BY <1>1, <1>3, <1>4, StepOfDoit

\* The child writes the rest of the response, or what stdout still held.
LEMMA ChildFollows ==
  ASSUME AnswersInv, Tiny!Child
  PROVE  TinyTypes' /\ \A c \in TinyClients : Follows(c)'
<1>1. /\ spc = "wait257" /\ spc' = "wait257" /\ UNCHANGED <<serving, Tiny!requestVars, Tiny!fileVars, Tiny!envVars, inbox>>
  BY DEF Tiny!Child, Tiny!Dup254, Tiny!Execve255, Tiny!Execve255Error, Tiny!Adder, Tiny!ChildGoes, AnswersInv, TinyIInv, ChildAt, Lines
<1>2. serving \in TinyClients /\ Follows(serving) /\ DOMAIN reply = TinyClients
  BY <1>1 DEF AnswersInv, TinyTypes
<1>3. DOMAIN reply' = TinyClients /\ \A d \in TinyClients \ {serving} : reply'[d] = reply[d]
  BY <1>2 DEF Tiny!Child, Tiny!Dup254, Tiny!Execve255, Tiny!Execve255Error, Tiny!Adder
<1>4. TinyTypes'
  BY <1>1, <1>3 DEF AnswersInv, TinyTypes, Tiny!requestVars, Tiny!envVars, Tiny!clientVars
<1>5. ASSUME Waits(serving) PROVE AtLine(serving)'
  <2>1. /\ ask[serving].method = "GET" /\ Read(serving) /\ uri.path = ask[serving].uri.path
        /\ DynamicFound(serving) /\ ChildWrote(serving)
    BY <1>1, <1>2, <1>5 DEF Follows, AtLine
  <2>2. (ask[serving].method = "GET" /\ Read(serving) /\ uri.path = ask[serving].uri.path /\ DynamicFound(serving))'
    BY <1>1, <2>1 DEF Read, DynamicFound, Tiny!IsStatic, Tiny!Codes, Tiny!requestVars, Tiny!envVars, Tiny!clientVars
  <2>3. ChildWrote(serving)'
    <3>1. CASE Tiny!Dup254
      BY <1>1, <2>1, <3>1 DEF Tiny!Dup254, Tiny!ChildGoes, ChildWrote, Header, Tiny!requestVars
    <3>2. CASE Tiny!Execve255
      <4>1. File[uri.path] = "program"
        BY <3>2 DEF Tiny!Execve255, Tiny!Found
      <4> QED BY <1>1, <2>1, <3>2, <4>1 DEF Tiny!Execve255, Tiny!ChildGoes, ChildWrote, Header, Tiny!requestVars
    <3>3. CASE Tiny!Execve255Error
      <4>1. File[uri.path] = "broken" /\ child' = "ended" /\ child = "execs"
        BY <3>3 DEF Tiny!Execve255Error, Tiny!Found, Tiny!ChildGoes
      <4>2. Header(serving, -1)
        BY <2>1, <4>1 DEF ChildWrote
      <4>3. reply'[serving].path = uri.path /\ reply'[serving].code = 200
        BY <1>2, <3>3, <4>2 DEF Tiny!Execve255Error, Header, Tiny!Response
      <4>4. Answered(serving)'
        BY <1>1, <2>1, <2>2, <4>1, <4>3 DEF Answered, DynamicFound, Tiny!IsStatic, Tiny!envVars, Tiny!clientVars
      <4> QED BY <4>1, <4>4 DEF ChildWrote
    <3>4. CASE Tiny!Adder
      <4>1. Header(serving, -1) /\ File[uri.path] = "program" /\ child' = "ended"
        BY <2>1, <3>4 DEF Tiny!Adder, Tiny!ChildGoes, ChildWrote
      <4>2. reply'[serving].path = uri.path /\ reply'[serving].code = 200
        BY <1>2, <3>4, <4>1 DEF Tiny!Adder, Header, Tiny!Response
      <4>3. cgiargs = "a&b" => Tiny!Framed(reply'[serving])
        BY <1>2, <3>4, <4>1 DEF Tiny!Adder, Header, Tiny!Response, Tiny!Framed
      <4>4. Answered(serving)'
        BY <1>1, <2>1, <4>2, <4>3 DEF Answered, Tiny!Framed, Tiny!Codes, DynamicFound, Tiny!IsStatic, Tiny!envVars, Tiny!clientVars
      <4> QED BY <4>1, <4>4 DEF ChildWrote
    <3> QED BY <3>1, <3>2, <3>3, <3>4 DEF Tiny!Child
  <2> QED BY <1>1, <2>2, <2>3 DEF AtLine
<1> QED BY <1>1, <1>3, <1>4, <1>5, StepOfDoit

\* What has been read to the end is not reset.
LEMMA Close51Follows ==
  ASSUME AnswersInv, Tiny!Close51
  PROVE  TinyTypes' /\ \A c \in TinyClients : Follows(c)'
<1>1. /\ spc = "close51" /\ spc' = "accept45" /\ rio' = << >> /\ UNCHANGED <<ask, peer, sent, page, reply>>
      /\ conn' = [conn EXCEPT ![serving] = IF inbox[serving] # << >> THEN "reset" ELSE "closed"]
      /\ inbox' = [inbox EXCEPT ![serving] = << >>]
  BY DEF Tiny!Close51, Tiny!Goto, Tiny!clientVars
<1>2. serving \in TinyClients /\ Follows(serving) /\ (inbox[serving] = << >> <=> Len(inbox[serving]) = 0)
      /\ conn \in [TinyClients -> {"none", "queued", "open", "closed", "reset"}]
      /\ inbox \in [TinyClients -> Seq(1..2)] /\ << >> \in Seq(1..2)
  BY <1>1, Lengths, EmptySeq DEF AnswersInv, TinyTypes
<1>3. TinyTypes'
  BY <1>1, <1>2 DEF AnswersInv, TinyTypes
<1>4. ASSUME NEW c \in TinyClients PROVE Follows(c)'
  <2>1. CASE c = serving
    <3>1. Waits(serving) => Answered(serving) /\ (ask[serving].method = "GET" => Read(serving))
      BY <1>1, <1>2 DEF Follows, AtLine
    <3> QED BY <1>1, <1>2, <2>1, <3>1 DEF Follows, Waits, Answered, Tiny!Framed, Read
  <2>2. CASE c # serving
    <3>1. Follows(c) /\ conn'[c] = conn[c] /\ inbox'[c] = inbox[c]
      BY <1>1, <1>2, <2>2 DEF AnswersInv
    <3> QED BY <1>1, <3>1 DEF Follows, Waits, Answered, Tiny!Framed
  <2> QED BY <2>1, <2>2
<1> QED BY <1>3, <1>4

-----------------------------------------------------------------------------
\* Outside the server.

\* What others do does not touch the request that is served.
LEMMA AtLineStays ==
  ASSUME NEW c, AtLine(c), UNCHANGED <<spc, rio, method, uri, cgiargs, size, got, child, ask[c], reply[c], inbox[c], sent[c]>>
  PROVE  AtLine(c)'
<1>1. (Tiny!IsStatic <=> Tiny!IsStatic') /\ Tiny!Codes(ask[c].uri)' = Tiny!Codes(ask[c].uri)
  BY DEF Tiny!IsStatic, Tiny!Codes
<1>2. Answered(c)' <=> Answered(c)
  BY <1>1 DEF Answered, Tiny!Framed
<1>3. (Read(c) <=> Read(c)') /\ (StaticFound(c) <=> StaticFound(c)') /\ (DynamicFound(c) <=> DynamicFound(c)')
  BY <1>1 DEF Read, StaticFound, DynamicFound
<1>4. (Header(c, size) <=> Header(c, size)') /\ (Header(c, -1) <=> Header(c, -1)')
  BY DEF Header
<1>5. ChildWrote(c)' <=> ChildWrote(c)
  BY <1>2, <1>4 DEF ChildWrote
<1> QED BY <1>2, <1>3, <1>4, <1>5 DEF AtLine

\* A client that waits has sent all of a request that was answered, so that
\* nothing it sends can be answered with a reset.
LEMMA SendFollows ==
  ASSUME AnswersInv, NEW c \in TinyClients, Tiny!Send(c)
  PROVE  TinyTypes' /\ \A d \in TinyClients : Follows(d)'
<1>1. /\ conn[c] \in {"queued", "open", "closed"} /\ peer[c] = "here" /\ sent[c] < 2
      /\ sent' = [sent EXCEPT ![c] = sent[c] + 1]
      /\ UNCHANGED <<spc, fds, serving, Tiny!requestVars, Tiny!fileVars, child, page, ask, peer, stalled, reply>>
  BY DEF Tiny!Send, Tiny!SendPiece
<1>2. /\ sent[c] \in 0..2 /\ sent'[c] = sent[c] + 1 /\ sent' \in [TinyClients -> 0..2] /\ Follows(c)
      /\ conn \in [TinyClients -> {"none", "queued", "open", "closed", "reset"}]
      /\ inbox \in [TinyClients -> Seq(1..2)] /\ inbox[c] \in Seq(1..2)
  BY <1>1 DEF AnswersInv, TinyTypes
<1>3. /\ conn' \in [TinyClients -> {"none", "queued", "open", "closed", "reset"}] /\ inbox' \in [TinyClients -> Seq(1..2)]
      /\ \A d \in TinyClients \ {c} : conn'[d] = conn[d] /\ inbox'[d] = inbox[d] /\ sent'[d] = sent[d]
      /\ \/ conn[c] = "closed" /\ conn'[c] = "reset" /\ inbox'[c] = inbox[c]
         \/ conn[c] # "closed" /\ conn'[c] = conn[c] /\ Len(inbox'[c]) = Len(inbox[c]) + 1
  <2>1. CASE conn[c] = "closed"
    BY <1>1, <1>2, <2>1 DEF Tiny!Send, Tiny!SendPiece
  <2>2. CASE conn[c] # "closed"
    <3>1. inbox' = [inbox EXCEPT ![c] = Append(inbox[c], sent'[c])] /\ UNCHANGED conn /\ sent'[c] \in 1..2
      BY <1>1, <1>2, <2>2 DEF Tiny!Send, Tiny!SendPiece
    <3>2. Append(inbox[c], sent'[c]) \in Seq(1..2) /\ Len(Append(inbox[c], sent'[c])) = Len(inbox[c]) + 1
      BY <1>2, <3>1, AppendProperties
    <3> QED BY <1>1, <1>2, <2>2, <3>1, <3>2
  <2> QED BY <2>1, <2>2
<1>4. TinyTypes'
  BY <1>1, <1>2, <1>3 DEF AnswersInv, TinyTypes, Tiny!requestVars
<1>5. ASSUME NEW d \in TinyClients PROVE Follows(d)'
  <2>1. Follows(d) /\ Len(inbox[d]) \in Nat /\ Len(rio) \in Nat /\ (Waits(d) <=> Waits(d)') /\ (Answered(d) <=> Answered(d)')
    BY <1>1, Lengths DEF AnswersInv, Waits, Answered, Tiny!Framed
  <2>2. CASE d # c
    <3>1. conn'[d] = conn[d] /\ inbox'[d] = inbox[d] /\ sent'[d] = sent[d]
      BY <1>3, <2>2
    <3>2. UNCHANGED <<spc, serving, rio, method, uri, cgiargs, size, got, child, ask[d], reply[d], inbox[d], sent[d]>>
      BY <1>1, <3>1 DEF Tiny!requestVars, Tiny!fileVars
    <3>3. AtLine(d) => AtLine(d)'
      BY <3>2, AtLineStays
    <3> QED BY <1>1, <2>1, <3>1, <3>3 DEF Follows
  <2>3. CASE d = c /\ conn[c] = "closed"
    <3>1. Waits(c) => Answered(c) /\ ask[c].method # "GET"
      BY <1>1, <1>2, <2>3 DEF Follows
    <3>2. conn'[c] = "reset" /\ ask' = ask
      BY <1>1, <1>3, <2>3
    <3>3. spc # "accept45" => c # serving
      BY <2>3 DEF AnswersInv, TinyTypes
    <3> QED BY <1>1, <2>1, <2>3, <3>1, <3>2, <3>3 DEF Follows
  <2>4. CASE d = c /\ conn[c] = "queued"
    <3>1. Len(inbox'[c]) = sent'[c] /\ conn'[c] = "queued"
      BY <1>2, <1>3, <2>1, <2>4 DEF Follows
    <3>2. spc # "accept45" => c # serving
      BY <2>4 DEF AnswersInv, TinyTypes
    <3> QED BY <1>1, <2>4, <3>1, <3>2 DEF Follows
  <2>5. CASE d = c /\ conn[c] = "open"
    <3>1. ASSUME Waits(c), spc # "accept45", c = serving PROVE AtLine(c)'
      <4>1. AtLine(c)
        BY <1>2, <3>1 DEF Follows
      <4>2. sent[c] # 2 /\ Len(inbox'[c]) = Len(inbox[c]) + 1 /\ sent'[c] = sent[c] + 1
        BY <1>1, <1>2, <1>3, <2>5
      <4>3. CASE spc \in {"readline72", "method77", "headers82"}
        <5>1. UNCHANGED <<spc, ask, rio, method, uri>>
          BY <1>1 DEF Tiny!requestVars
        <5>2. CASE spc = "readline72"
          BY <1>2, <4>1, <4>2, <5>1, <5>2 DEF AtLine
        <5>3. CASE spc \in {"method77", "headers82"}
          <6>1. 1 + Len(rio) + Len(inbox'[c]) = sent'[c]
            BY <1>2, <2>1, <2>5, <4>1, <4>2, <5>3 DEF AtLine
          <6> QED BY <4>1, <5>1, <5>3, <6>1 DEF AtLine
        <5> QED BY <4>3, <5>2, <5>3
      <4>4. CASE spc = "close51"
        BY <1>1, <2>1, <2>5, <4>1, <4>2, <4>4 DEF AtLine, Read
      <4>5. CASE spc \notin {"readline72", "method77", "headers82", "close51"}
        BY <4>1, <4>2, <4>5 DEF AtLine, Read
      <4> QED BY <4>3, <4>4, <4>5
    <3>2. conn'[c] = "open"
      BY <1>3, <2>5
    <3> QED BY <1>1, <2>1, <2>5, <3>1, <3>2 DEF Follows
  <2> QED BY <1>1, <2>2, <2>3, <2>4, <2>5
<1> QED BY <1>4, <1>5

\* A client that connects, stalls or leaves, and whoever changes the page.
LEMMA OthersFollow ==
  ASSUME AnswersInv, Tiny!ChangePage \/ \E c \in TinyClients : Tiny!Client(c)
  PROVE  TinyTypes' /\ \A d \in TinyClients : Follows(d)'
<1>1. UNCHANGED <<spc, serving, Tiny!requestVars, Tiny!fileVars, child, ask, sent, inbox, reply>>
  BY DEF Tiny!ChangePage, Tiny!Client, Tiny!Connect, Tiny!Stall, Tiny!Leave, Tiny!clientVars, Tiny!envVars
<1>2. /\ conn' \in [TinyClients -> {"none", "queued", "open", "closed", "reset"}]
      /\ peer' \in [TinyClients -> {"here", "left", "aborted"}]
      /\ \A d \in TinyClients : /\ conn'[d] = conn[d] \/ (conn[d] = "none" /\ conn'[d] = "queued")
                                /\ peer'[d] = "here" => peer[d] = "here"
  <2>1. /\ conn \in [TinyClients -> {"none", "queued", "open", "closed", "reset"}]
        /\ peer \in [TinyClients -> {"here", "left", "aborted"}]
    BY DEF AnswersInv, TinyTypes
  <2>2. CASE Tiny!ChangePage
    BY <2>1, <2>2 DEF Tiny!ChangePage, Tiny!clientVars
  <2>3. ASSUME NEW c \in TinyClients, Tiny!Connect(c)
        PROVE  conn[c] = "none" /\ conn' = [conn EXCEPT ![c] = "queued"] /\ peer' = peer
    BY <2>3 DEF Tiny!Connect, Tiny!clientVars
  <2>4. ASSUME NEW c \in TinyClients, Tiny!Stall(c) PROVE conn' = conn /\ peer' = peer
    BY <2>4 DEF Tiny!Stall
  <2>5. ASSUME NEW c \in TinyClients, Tiny!Leave(c)
        PROVE  conn' = conn /\ \E how \in {"left", "aborted"} : peer' = [peer EXCEPT ![c] = how]
    BY <2>5 DEF Tiny!Leave
  <2>6. CASE \E c \in TinyClients : Tiny!Client(c)
    <3>1. PICK c \in TinyClients : Tiny!Connect(c) \/ Tiny!Stall(c) \/ Tiny!Leave(c)
      BY <2>6 DEF Tiny!Client
    <3>2. CASE Tiny!Connect(c)
      BY <2>1, <2>3, <3>2
    <3>3. CASE Tiny!Stall(c)
      BY <2>1, <2>4, <3>3
    <3>4. CASE Tiny!Leave(c)
      BY <2>1, <2>5, <3>4
    <3> QED BY <3>1, <3>2, <3>3, <3>4
  <2> QED BY <2>2, <2>6
<1>3. page' \in PageSizes
  BY DEF Tiny!ChangePage, Tiny!Client, Tiny!Connect, Tiny!Stall, Tiny!Leave, Tiny!clientVars, Tiny!envVars, AnswersInv, TinyTypes
<1>4. TinyTypes'
  <2>1. spc # "accept45" => conn'[serving] = "open"
    BY <1>2 DEF AnswersInv, TinyTypes
  <2> QED BY <1>1, <1>2, <1>3, <2>1 DEF AnswersInv, TinyTypes, Tiny!requestVars
<1>5. ASSUME NEW d \in TinyClients PROVE Follows(d)'
  <2>1. Follows(d) /\ (Waits(d)' => Waits(d)) /\ (Answered(d) <=> Answered(d)')
    BY <1>1, <1>2 DEF AnswersInv, Waits, Answered, Tiny!Framed
  <2>2. UNCHANGED <<spc, serving, rio, method, uri, cgiargs, size, got, child, ask[d], reply[d], inbox[d], sent[d]>>
    BY <1>1 DEF Tiny!requestVars, Tiny!fileVars
  <2>3. AtLine(d) => AtLine(d)'
    BY <2>2, AtLineStays
  <2>4. conn'[d] \in {"none", "queued"} <=> conn[d] \in {"none", "queued"}
    BY <1>2
  <2>5. conn'[d] \in {"closed", "reset"} => conn'[d] = conn[d]
    BY <1>2
  <2> QED BY <1>1, <2>1, <2>2, <2>3, <2>4, <2>5 DEF Follows
<1> QED BY <1>4, <1>5

\* unix_error leaves everything as it is.
LEMMA StutterFollows ==
  ASSUME AnswersInv, UNCHANGED <<spc, serving, Tiny!requestVars, Tiny!fileVars, child, Tiny!envVars, inbox, reply>>
  PROVE  TinyTypes' /\ \A c \in TinyClients : Follows(c)'
<1>1. TinyTypes'
  BY DEF AnswersInv, TinyTypes, Tiny!requestVars, Tiny!envVars, Tiny!clientVars
<1>2. ASSUME NEW c \in TinyClients PROVE Follows(c)'
  <2>1. Follows(c) /\ (Waits(c) <=> Waits(c)') /\ (Answered(c) <=> Answered(c)')
    BY DEF AnswersInv, Waits, Answered, Tiny!Framed, Tiny!envVars, Tiny!clientVars
  <2>2. AtLine(c) => AtLine(c)'
    <3>1. UNCHANGED <<spc, rio, method, uri, cgiargs, size, got, child, ask[c], reply[c], inbox[c], sent[c]>>
      BY DEF Tiny!requestVars, Tiny!fileVars, Tiny!envVars, Tiny!clientVars
    <3> QED BY <3>1, AtLineStays
  <2> QED BY <2>1, <2>2 DEF Follows, Tiny!envVars, Tiny!clientVars
<1> QED BY <1>1, <1>2

LEMMA InitAnswersInv == Tiny!Init => AnswersInv
<1> SUFFICES ASSUME Tiny!Init PROVE AnswersInv
  OBVIOUS
<1>1. << >> \in Seq(1..2)
  BY EmptySeq
<1>2. TinyTypes
  <2>1. inbox \in [TinyClients -> Seq(1..2)] /\ rio \in Seq(1..2)
    BY <1>1 DEF Tiny!Init
  <2>2. sent \in [TinyClients -> 0..2]
    <3>1. 0 \in 0..2
      OBVIOUS
    <3> QED BY <3>1, Zenon DEF Tiny!Init
  <2>3. DOMAIN reply = TinyClients
    BY DEF Tiny!Init
  <2> QED BY <2>1, <2>2, <2>3, Zenon DEF Tiny!Init, TinyTypes
<1>3. ASSUME NEW c \in TinyClients PROVE Follows(c)
  <2>1. inbox[c] = << >> /\ sent[c] = 0 /\ conn[c] = "none" /\ spc = "accept45"
    BY DEF Tiny!Init
  <2> QED BY <2>1 DEF Follows
<1> QED BY <1>2, <1>3, InitTinyIInv DEF AnswersInv

LEMMA NextAnswersInv ==
  ASSUME Tiny!TinyAssumption, AnswersInv, [Tiny!Next]_tinyVars
  PROVE  AnswersInv'
<1>1. TinyIInv'
  BY NextTinyIInv DEF AnswersInv
<1>2. TinyTypes' /\ \A c \in TinyClients : Follows(c)'
  <2>1. CASE Tiny!Exit \/ UNCHANGED tinyVars
    BY <2>1, StutterFollows DEF Tiny!Exit, tinyVars, Tiny!requestVars, Tiny!fileVars, Tiny!envVars, Tiny!clientVars
  <2>2. CASE Tiny!Server
    <3>1. Tiny!ReadError \/ Tiny!Open206Error \/ Tiny!Fork252Error => Tiny!Exit
      BY DEF Tiny!ReadError, Tiny!Open206Error, Tiny!Fork252Error
    <3> QED BY <2>1, <2>2, <3>1, AcceptFollows, Readline72Follows, Method77Follows, Headers82Follows, Stat85Follows,
               StaticFollows, DynamicFollows, Close51Follows DEF Tiny!Server, Tiny!Serve
  <2>3. CASE Tiny!Child
    BY <2>3, ChildFollows
  <2>4. CASE \E c \in TinyClients : Tiny!Send(c)
    BY <2>4, SendFollows
  <2>5. CASE Tiny!ChangePage \/ \E c \in TinyClients : Tiny!Client(c)
    BY <2>5, OthersFollow
  <2> QED BY <2>1, <2>2, <2>3, <2>4, <2>5 DEF Tiny!Next
<1> QED BY <1>1, <1>2 DEF AnswersInv

LEMMA ImpliesTinyAnswers == AnswersInv => Tiny!TinyAnswers
<1> SUFFICES ASSUME AnswersInv, NEW c \in TinyClients, Tiny!Asked(c)
             PROVE  IF ask[c].method = "GET"
                    THEN /\ conn[c] = "closed"
                         /\ reply[c].path = ask[c].uri.path /\ reply[c].code \in Tiny!Codes(ask[c].uri)
                         /\ (ask[c].uri.path \in Dynamic => ask[c].uri.args = "a&b" /\ File[ask[c].uri.path] # "broken")
                            => Tiny!Framed(reply[c])
                    ELSE reply[c].code = 501
  BY DEF Tiny!TinyAnswers
<1>1. Follows(c) /\ Waits(c)
  BY DEF AnswersInv, Tiny!Asked, Waits
<1> QED BY <1>1 DEF Follows, Answered, Tiny!Asked

LEMMA SameTinyVars == UNCHANGED Tiny!vars <=> UNCHANGED tinyVars
BY DEF tinyVars, Tiny!vars, Tiny!requestVars, Tiny!fileVars, Tiny!envVars, Tiny!clientVars

(***************************************************************************)
(* Whichever way a request ends, when tiny waits for the next one it has   *)
(* only the listening socket open and no child, for any clients, requests  *)
(* and files.                                                              *)
(***************************************************************************)
THEOREM TinyClosesAll == Tiny!Spec => []Tiny!NoDescriptorLeft
<1>1. TinyIInv => Tiny!NoDescriptorLeft
  BY ImpliesNoDescriptorLeft
<1>2. TinyIInv /\ [Tiny!Next]_(Tiny!vars) => TinyIInv'
  BY SameTinyVars, NextTinyIInv
<1> QED BY InitTinyIInv, <1>1, <1>2, PTL DEF Tiny!Spec

(***************************************************************************)
(* A client that sends a well formed GET request reads the response to it, *)
(* to the end, with the code that fits and a body as long as its header    *)
(* promises; to another method the answer is 501.                          *)
(***************************************************************************)
THEOREM TinyAnswersRight ==
  ASSUME Tiny!TinyAssumption
  PROVE  Tiny!Spec => []Tiny!TinyAnswers
<1>1. Tiny!Init => AnswersInv
  BY InitAnswersInv
<1>2. AnswersInv /\ [Tiny!Next]_(Tiny!vars) => AnswersInv'
  BY SameTinyVars, NextAnswersInv
<1>3. AnswersInv => Tiny!TinyAnswers
  BY ImpliesTinyAnswers
<1> QED BY <1>1, <1>2, <1>3, PTL DEF Tiny!Spec

-----------------------------------------------------------------------------
(* The programs together *)

\* A step of week 6 is a step of one program, and leaves the others alone.
LEMMA StepOfOne ==
  ASSUME [Week6Next]_week6Vars
  PROVE  [Next]_vars /\ [Echo!Next]_echoVars /\ [Tiny!Next]_tinyVars /\ [Sockets!Next]_openVars
<1>1. /\ Next \/ UNCHANGED vars
      /\ Echo!Next \/ UNCHANGED echoVars
      /\ Tiny!Next \/ UNCHANGED tinyVars
      /\ Sockets!Next \/ UNCHANGED openVars
  BY DEF Week6Next, week6Vars, RioOnly, EchoOnly, TinyOnly, OpenOnly
<1> QED BY <1>1

(***************************************************************************)
(* In the composition, too, the Rio package implements ByteStream: what a  *)
(* call returns is the next of what the peer sent, as long as it has to    *)
(* be, and what it writes arrives, whatever the sizes and the buffer.      *)
(***************************************************************************)
THEOREM Week6IsByteStream == Week6Spec => IsByteStream
<1>1. Week6Init => IInv /\ Stream!Init
  BY InitIInv, InitStream DEF Week6Init
<1>2. IInv /\ [Week6Next]_week6Vars => IInv' /\ [Stream!Next]_(Stream!vars)
  BY StepOfOne, NextStep
<1> QED BY <1>1, <1>2, PTL DEF Week6Spec, IsByteStream, Stream!Spec

(***************************************************************************)
(* What a client of the echo server prints is a prefix of what it was      *)
(* given, and while the server runs no byte is lost, doubled or moved: for *)
(* any number of clients, any inputs and any MAXLINE.                      *)
(***************************************************************************)
THEOREM Week6EchoExact == Week6Spec => []EchoExact
<1>1. Echo!EchoAssumption
  BY ProgramsAssumption
<1>2. Week6Init => EchoIInv
  BY <1>1, InitEchoIInv DEF Week6Init
<1>3. EchoIInv /\ [Week6Next]_week6Vars => EchoIInv'
  BY <1>1, StepOfOne, NextEchoIInv
<1>4. EchoIInv => EchoExact
  BY ImpliesEchoExact DEF EchoExact
<1> QED BY <1>2, <1>3, <1>4, PTL DEF Week6Spec

(***************************************************************************)
(* A client of tiny that sends a well formed GET request reads the         *)
(* response to it, to the end, with the code that fits and a body as long  *)
(* as its header promises; to another method the answer is 501.            *)
(***************************************************************************)
THEOREM Week6TinyAnswers == Week6Spec => []TinyAnswers
<1>1. Tiny!TinyAssumption
  BY ProgramsAssumption
<1>2. Week6Init => AnswersInv
  BY InitAnswersInv DEF Week6Init
<1>3. AnswersInv /\ [Week6Next]_week6Vars => AnswersInv'
  BY <1>1, StepOfOne, NextAnswersInv
<1>4. AnswersInv => TinyAnswers
  BY ImpliesTinyAnswers DEF TinyAnswers
<1> QED BY <1>2, <1>3, <1>4, PTL DEF Week6Spec

(***************************************************************************)
(* Whichever way a request to tiny ends, it has only the listening socket  *)
(* open and no child when it waits for the next one; and the socket        *)
(* functions of csapp.c, whichever system calls fail, return a descriptor  *)
(* that is connected or listens, or leave none open, and free the list of  *)
(* addresses unless close failed.                                          *)
(***************************************************************************)
THEOREM Week6NoDescriptorLeft == Week6Spec => []NoDescriptorLeft
<1> DEFINE Inv == TinyIInv /\ SettleInv
<1>1. Week6Init => Inv
  BY InitTinyIInv, InitSettles DEF Week6Init
<1>2. Inv /\ [Week6Next]_week6Vars => Inv'
  BY StepOfOne, NextTinyIInv, NextSettles
<1>3. Inv => NoDescriptorLeft
  BY ImpliesNoDescriptorLeft, ImpliesOpenSettles DEF NoDescriptorLeft
<1> QED BY <1>1, <1>2, <1>3, PTL DEF Week6Spec
=============================================================================
