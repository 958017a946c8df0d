CONSTANTS
  c1 = c1
  c2 = c2
  f1 = f1
  f2 = f2
  none = none
  name = name
  literal = literal
  Callers <- MCCallers
  Fds <- MCFds
  NoFd = none
  Names = {name}
  Literal = literal
  Answers <- MCAnswers
  Expires = {0, 1}
  MaxLookup = 1
  MaxNow = 4
SYMMETRY Symmetry
SPECIFICATION SockSpec
INVARIANTS
  NoFdLeak
  AddressIsRecent
