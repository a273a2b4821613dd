------------------------------ MODULE ByteStream ------------------------------
(***************************************************************************)
(* What the Rio functions of csapp.c promise a program about one of its    *)
(* descriptors: the bytes the peer sends are returned once and in order,   *)
(* cut into lines or into counts, and what the program writes reaches the  *)
(* peer once and in order, for as long as the connection stands.           *)
(***************************************************************************)
EXTENDS Integers, Sequences

CONSTANTS
  Bytes,       \* the bytes the peer may send
  Newline,     \* the one that ends a line
  LineSizes,   \* the maxlen programs give to rio_readlineb
  Counts       \* the n programs give to rio_readnb and rio_readn

VARIABLES
  pending,     \* sent by the peer and not yet returned
  ended,       \* the peer has closed its end
  answer,      \* what the last call to read was, and what it returned
  out          \* what the program has written

vars == <<pending, ended, answer, out>>

Answer(op, n, data) == [op |-> op, n |-> n, data |-> data]
NoAnswer == Answer("none", 0, << >>)

Init == pending = << >> /\ ended = FALSE /\ answer = NoAnswer /\ out = << >>

Arrive ==
  /\ ~ended /\ \E b \in Bytes : pending' = Append(pending, b)
  /\ UNCHANGED <<ended, answer, out>>

PeerCloses == ended' = TRUE /\ UNCHANGED <<pending, answer, out>>

\* A call of kind op for n returns the first k pending bytes.
Return(op, n, k) ==
  /\ answer' = Answer(op, n, SubSeq(pending, 1, k))
  /\ pending' = SubSeq(pending, k + 1, Len(pending))
  /\ UNCHANGED <<ended, out>>

\* Where a line may end: at the newline, at maxlen - 1 bytes, at the end of the file.
LineEnds(maxlen) ==
  {k \in 1..Len(pending) : pending[k] = Newline \/ k = maxlen - 1 \/ (ended /\ k = Len(pending))}
ReadLine(maxlen) ==
  \/ pending = << >> /\ ended /\ Return("line", maxlen, 0)
  \/ \E k \in LineEnds(maxlen) : (\A j \in LineEnds(maxlen) : k <= j) /\ Return("line", maxlen, k)

ReadCount(op, n) ==
  \/ n <= Len(pending) /\ Return(op, n, n)
  \/ n > Len(pending) /\ ended /\ Return(op, n, Len(pending))

\* What was read last is written back; a program does so at most once.
Write ==
  /\ answer.data # << >> /\ out' = out \o answer.data
  /\ answer' = [answer EXCEPT !.data = << >>]
  /\ UNCHANGED <<pending, ended>>

\* The connection breaks: of what was written a part never arrives; a call to
\* read that was under way takes what it has read with it.
Break ==
  /\ \E k \in 0..Len(out) : out' = SubSeq(out, 1, k)
  /\ \E k \in 0..Len(pending) : pending' = SubSeq(pending, k + 1, Len(pending))
  /\ UNCHANGED <<ended, answer>>

Next ==
  \/ Arrive \/ PeerCloses \/ Write \/ Break
  \/ \E m \in LineSizes : ReadLine(m)
  \/ \E n \in Counts : ReadCount("readnb", n) \/ ReadCount("readn", n)

Spec == Init /\ [][Next]_vars
=============================================================================
