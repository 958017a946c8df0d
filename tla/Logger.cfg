CONSTANTS
  c1 = c1
  c2 = c2
  e1 = e1
  e2 = e2
  e3 = e3
  all = all
  some = some
  writer = writer
  none = none
  blank = blank
  Clients <- MCClients
  Writer <- writer
  Entries <- MCEntries
  Channels <- MCChannels
  Level <- MCLevel
  MinLevel <- MCMinLevel
  None = none
  Blank = blank
SPECIFICATION LSpec
INVARIANTS
  EntriesInOrder
  NoEntryForgotten
  ThreadOrder
PROPERTIES
  IsLogSink
  ExitReturns
