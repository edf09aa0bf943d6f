\* Three hubs with distinct numbers, whatever each finds in the database.
CONSTANTS
  h1 = h1
  h2 = h2
  h3 = h3
  e1 = e1
  e2 = e2
  Hubs = {h1, h2, h3}
  Numbered = {h1, h2, h3}
  Number <- MCNumber
  Dev = {}
  Messages = {e1}
  MaxCrashes = 1
  MaxBreaks = 1
SPECIFICATION FairMCSpec
INVARIANTS RoomTypeOK OneLinkPerPair OncePerHub OneWayOut
PROPERTY HubsMeet
CHECK_DEADLOCK FALSE
