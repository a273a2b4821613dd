CONSTANTS
  c1 = c1
  c2 = c2
  c3 = c3
  HeadNode = head
  Null = null
  MaxObject = 3
  MaxBuf = 2
  Uris <- AllUris
  Path <- PathOf
  Host <- HostOf
  Threads = {th1, th2}
  Clients = {c1, c2}
  Again = FALSE
  MaxActive = 2
  Impatient = {c1}
  Slow = {c1}
  Cells = {p1, p2}
  Fds = {4, 5, 6, 7, 8}
  Nodes = {n1, n2}
  Capacity = 2
  Length <- LargeBodies
  Silent = {"b"}
  Fickle = {"b"}
  Down = {}
  Asks <- OwnHost
SPECIFICATION FairSpec
CHECK_DEADLOCK FALSE
INVARIANTS TypeOK ConnectionOwned
PROPERTY Answered
