CONSTANTS
  s1 = s1
  s2 = s2
  s3 = s3
  c1 = c1
  c2 = c2
  poller = poller
  none = none
  Sockets <- MCSockets
  NoSocket <- none
  Fds <- MCFds
  NoFd = 0
  Clients <- OneClient
  Poller <- poller
  PollerUses = TRUE
  MaxBinds = 1
  Masks <- NoMasks
SPECIFICATION Spec
INVARIANTS
  NoDeafSocket
