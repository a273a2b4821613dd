CONSTANTS
  c1 = c1
  c2 = c2
  c3 = c3
  HeadNode = head
  Null = null
  MaxObject = 3
  MaxBuf = 2
  Uris <- AllUris
  Path <- PathOf
  Host <- HostOf
  Threads = {th1, th2}
  Clients = {c1, c2, c3}
  Again = FALSE
  MaxActive = 2
  Impatient = {}
  Slow = {}
  Cells = {p1, p2, p3}
  Fds = {4, 5, 6, 7, 8, 9}
  Nodes = {n1, n2, n3}
  Capacity = 3
  Length <- SmallBodies
  Silent = {}
  Fickle = {}
  Down = {}
  Asks <- OwnPage
SPECIFICATION Spec
CHECK_DEADLOCK FALSE
SYMMETRY Symmetry
INVARIANTS ForwardChain NoUndefinedBehaviour
