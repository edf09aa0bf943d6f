\* Two of a messenger, a hub and a repeater, on a hub in a room, connect, fail and go.
CONSTANTS
  m1 = m1
  h1 = h1
  p1 = p1
  o1 = o1
  o2 = o2
  peer = peer
  post = post
  r1 = r1
  Star = Star
  NoChan = NoChan
  Rooms = {r1}
  ConnID = {m1, h1, p1}
  Chan = {m1, h1, p1}
  Outbound = {}
  PostID = {}
  IdOf <- MCIdOf
  KindOf <- MCKindOf
  Payload <- MCPayload
  RoomLists <- StarOnly
  RegistrationCap = 1
  IncomingCap = 1
  WriteCap = 1
  RoomNexus = TRUE
  MaxConns = 2
  MaxFrames = 3
  MaxChanges = 1
SPECIFICATION FairMCSpec
INVARIANTS HubTypeOK InboundStaysRegistered NoDeadRegistration
PROPERTY ClosedConnectionIsReaped
CHECK_DEADLOCK FALSE
