\* The reconnection to a dialled peer.
CONSTANTS
  m1 = m1
  h1 = h1
  p1 = p1
  o1 = o1
  o2 = o2
  peer = peer
  post = post
  r1 = r1
  Star = Star
  NoChan = NoChan
  Rooms = {r1}
  ConnID = {peer}
  Chan = {o1, o2}
  Outbound = {peer}
  PostID = {}
  IdOf <- MCIdOf
  KindOf <- MCKindOf
  Payload <- MCPayload
  RoomLists <- StarOnly
  RegistrationCap = 2
  IncomingCap = 1
  WriteCap = 1
  RoomNexus = TRUE
  MaxConns = 2
  MaxFrames = 0
  MaxChanges = 0
SPECIFICATION MCSpec
INVARIANT LiveLinkIsRegistered
CHECK_DEADLOCK FALSE
