------------------------------- MODULE Sockets -------------------------------
(***************************************************************************)
(* open_clientfd and open_listenfd of csapp.c with their wrappers: a walk  *)
(* along the addresses getaddrinfo returns, in which every system call may *)
(* fail.  A program calls them once.                                       *)
(***************************************************************************)
EXTENDS Integers

CONSTANT MaxAddresses    \* how many addresses a name has at most

SocketsAssumption == MaxAddresses \in Nat \ {0}

VARIABLES
  call,        \* "client" or "listen"
  next,        \* the system call that comes next; "returned" at the end
  left,        \* how many addresses p and the rest of the list are
  listp,       \* whether the list is allocated
  fd,          \* the state of the descriptor: "none" when it is not open
  rc,          \* what the function returns: "fd", -1 or -2
  closeFailed, \* a call to close has failed
  status       \* "running", or "exited" through unix_error

vars == <<call, next, left, listp, fd, rc, closeFailed, status>>

Init ==
  /\ call \in {"client", "listen"} /\ next = "getaddrinfo" /\ left = 0 /\ listp = FALSE
  /\ fd = "none" /\ rc = "none" /\ closeFailed = FALSE /\ status = "running"

Return(value) == next' = "returned" /\ rc' = value

Getaddrinfo ==
  /\ next = "getaddrinfo"
  /\ \/ Return("-2") /\ UNCHANGED <<left, listp>>
     \/ left' \in 1..MaxAddresses /\ listp' = TRUE /\ next' = "socket" /\ UNCHANGED rc
  /\ UNCHANGED <<call, fd, closeFailed, status>>

\* The loop goes on with the next address, if there is one.
NextAddress ==
  /\ left' = left - 1
  /\ next' = IF left = 1 THEN "freeaddrinfo" ELSE "socket"

Socket ==
  /\ next = "socket"
  /\ \/ fd' = "open" /\ next' = (IF call = "client" THEN "connect" ELSE "bind") /\ UNCHANGED left
     \/ NextAddress /\ UNCHANGED fd
  /\ UNCHANGED <<call, listp, rc, closeFailed, status>>

\* The break out of the loop leaves p at the address that works.
Connect ==
  /\ next = "connect"
  /\ \/ fd' = "connected" /\ next' = "freeaddrinfo"
     \/ next' = "close" /\ UNCHANGED fd
  /\ UNCHANGED <<call, left, listp, rc, closeFailed, status>>

Bind ==
  /\ next = "bind"
  /\ \/ fd' = "bound" /\ next' = "freeaddrinfo"
     \/ next' = "close" /\ UNCHANGED fd
  /\ UNCHANGED <<call, left, listp, rc, closeFailed, status>>

\* The kernel releases the descriptor also when close reports an error.
Close ==
  /\ next = "close" /\ fd' = "none"
  /\ \/ NextAddress /\ UNCHANGED <<rc, closeFailed>>
     \/ Return("-1") /\ closeFailed' = TRUE /\ UNCHANGED left
  /\ UNCHANGED <<call, listp, status>>

Freeaddrinfo ==
  /\ next = "freeaddrinfo" /\ listp' = FALSE
  /\ \/ left = 0 /\ Return("-1")
     \/ left > 0 /\ call = "client" /\ Return("fd")
     \/ left > 0 /\ call = "listen" /\ next' = "listen" /\ UNCHANGED rc
  /\ UNCHANGED <<call, left, fd, closeFailed, status>>

Listen ==
  /\ next = "listen"
  /\ \/ fd' = "listening" /\ Return("fd")
     \/ fd' = "none" /\ Return("-1")
  /\ UNCHANGED <<call, left, listp, closeFailed, status>>

\* Open_clientfd and Open_listenfd.
OpenError ==
  /\ next = "returned" /\ rc # "fd" /\ status = "running"
  /\ status' = "exited"
  /\ UNCHANGED <<call, next, left, listp, fd, rc, closeFailed>>

Next ==
  \/ Getaddrinfo \/ Socket \/ Connect \/ Bind \/ Close \/ Freeaddrinfo
  \/ Listen \/ OpenError

Spec == Init /\ [][Next]_vars
-----------------------------------------------------------------------------

(***************************************************************************)
(* A call that returns a descriptor returns one that is connected, or      *)
(* listens, whichever addresses failed before; one that returns an error   *)
(* leaves no descriptor open; and the list of addresses is freed on every  *)
(* way out but the one where close fails.                                  *)
(***************************************************************************)
OpenSettles ==
  next = "returned" =>
    /\ fd = (IF rc # "fd" THEN "none" ELSE IF call = "client" THEN "connected" ELSE "listening")
    /\ listp => closeFailed
=============================================================================
