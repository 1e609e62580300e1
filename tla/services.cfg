SPECIFICATION MCSpec
CONSTANTS
  Clients = {c1, c2}
  NoClient = NoClient
  Addresses = 2
  MAXSLEEP = 4
  QLEN = 2
  Lines = 2
  Askers = {a1, a2}
  Nobody = Nobody
  Hosts = 2
  MaxCopies = 1
  NQ = 2
  MAXMSZ = 3
  Sends <- MCSends
  QMax = 1
  SockMax = 1
  MaxEnds = 1
INVARIANTS ServicesInv
PROPERTIES ClientsEnd AskersEnd QueuesAreFifo MessagesPrinted
CHECK_DEADLOCK FALSE
