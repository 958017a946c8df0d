CONSTANTS
  s1 = s1
  s2 = s2
  s3 = s3
  c1 = c1
  c2 = c2
  poller = poller
  none = none
  Sockets <- TwoSockets
  NoSocket <- none
  Fds <- MCFds
  NoFd = 0
  Clients <- MCClients
  Poller <- poller
  PollerUses = FALSE
  MaxBinds = 1
  Masks <- MCMasks
SPECIFICATION Spec
INVARIANTS
  RecordsMatchEpoll
  NoDeafSocket
  NoForeignRead
PROPERTIES
  StaleRecordsGo
