CONSTANTS
  Structures = {"rio", "echo", "tiny", "open"}
  Bytes = {"a", "nl"}
  Newline = "nl"
  LineSizes = {2, 4}
  Counts = {1, 3}
  BufSize = 2
  MaxStream = 4
  EchoClients = {"e1", "e2"}
  Texts <- InputLines
  MaxLine = 3
  Mortal = {"e1"}
  TinyClients = {"t1", "t2"}
  Requests <- TinyRequests
  File <- TinyFiles
  Dynamic = {"/cgi-bin/adder", "/cgi-bin/script"}
  Page = "/page"
  PageSizes <- TinyPageSizes
  Slow = {"t1"}
  Rude = {"t1"}
  MaxAddresses = 3
SPECIFICATION FairSpec
CHECK_DEADLOCK FALSE
INVARIANTS EchoExact TinyAnswers NoDescriptorLeft
PROPERTIES IsByteStream EchoServes TinyServes
