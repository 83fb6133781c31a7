SPECIFICATION MemorySpec
CONSTANTS
  Client = {c1, c2}
  OAuthClient = {c1}
  Key = {k1}
  Foreign = Foreign
  NMem = 3
  NOp = 3
  NOperator = 1
  MaxFault = 1
INVARIANTS
  ConflictIsUnpublished
  SettledWhenIdle
  OneEntryPerKey
  IndexCanFollow
PROPERTIES
  OnlyAddsToPublished
  PublicationDoesNotFork
CHECK_DEADLOCK FALSE
