SPECIFICATION FairSpec
INVARIANTS
  TypeOK
  NothingForgotten
  SuppressedIsQuiet
PROPERTIES
  WritesAreDelivered
CONSTANTS
  MaxWrites = 3
  MaxEvents = 2
  MaxFaults = 3
  Off = Off
  Unread = Unread
CHECK_DEADLOCK FALSE
