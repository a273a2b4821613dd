CONSTANTS
  c1 = c1
  c2 = c2
  c3 = c3
  HeadNode = head
  Null = null
  MaxObject = 3
  MaxBuf = 2
  Uris <- AllUris
  Path <- PathOf
  Host <- HostOf
  Threads = {th1}
  Clients = {c1}
  Again = TRUE
  MaxActive = 1
  Impatient = {}
  Slow = {}
  Cells = {p1, p2}
  Fds = {4, 5, 6, 7, 8}
  Nodes = {n1, n2, n3}
  Capacity = 2
  Length <- SmallBodies
  Silent = {}
  Fickle = {}
  Down = {}
  Asks <- AnyPage
SPECIFICATION FairSpec
CHECK_DEADLOCK FALSE
INVARIANTS ListCoherent NoUndefinedBehaviour RightPage
PROPERTIES Answered CacheIsLru
