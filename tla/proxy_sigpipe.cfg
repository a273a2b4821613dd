CONSTANTS
  c1 = c1
  c2 = c2
  c3 = c3
  HeadNode = head
  Null = null
  MaxObject = 3
  MaxBuf = 2
  Uris <- AllUris
  Path <- PathOf
  Host <- HostOf
  Threads = {th1}
  Clients = {c1}
  Again = FALSE
  MaxActive = 1
  Impatient = {c1}
  Slow = {}
  Cells = {p1, p2, p3}
  Fds = {4, 5, 6, 7, 8}
  Nodes = {n1, n2}
  Capacity = 1
  Length <- SmallBodies
  Silent = {}
  Fickle = {}
  Down = {}
  Asks <- OwnPage
SPECIFICATION Spec
CHECK_DEADLOCK FALSE
INVARIANT SurvivesResets
