\* Two connections to one dialled peer, events of a messenger and of HTTP clients.
CONSTANTS
  m1 = m1
  h1 = h1
  p1 = p1
  o1 = o1
  o2 = o2
  peer = peer
  post = post
  r1 = r1
  Star = Star
  NoChan = NoChan
  Rooms = {r1}
  ConnID = {m1, peer, post}
  Chan = {m1, o1, o2}
  Outbound = {peer}
  PostID = {post}
  IdOf <- MCIdOf
  KindOf <- MCKindOf
  Payload <- MCPayload
  RoomLists <- StarOnly
  RegistrationCap = 1
  IncomingCap = 2
  WriteCap = 2
  RoomNexus = TRUE
  MaxConns = 3
  MaxFrames = 2
  MaxChanges = 1
SPECIFICATION MCSpec
INVARIANTS NoDeadRegistration OneLinkPerPeer PerSourceOrder
PROPERTY Spec
CHECK_DEADLOCK FALSE
