\* A repeater and a hub on a hub that is not in a room.
CONSTANTS
  m1 = m1
  h1 = h1
  p1 = p1
  o1 = o1
  o2 = o2
  peer = peer
  post = post
  r1 = r1
  Star = Star
  NoChan = NoChan
  Rooms = {r1}
  ConnID = {h1, p1}
  Chan = {h1, p1}
  Outbound = {}
  PostID = {}
  IdOf <- MCIdOf
  KindOf <- MCKindOf
  Payload <- MCPayload
  RoomLists <- StarOnly
  RegistrationCap = 1
  IncomingCap = 1
  WriteCap = 1
  RoomNexus = FALSE
  MaxConns = 2
  MaxFrames = 2
  MaxChanges = 0
SPECIFICATION FairMCSpec
PROPERTY DeregistrationCompletes
CHECK_DEADLOCK FALSE
