\* Two messengers whose subscriptions change while others are being applied.
CONSTANTS
  m1 = m1
  m2 = m2
  h1 = h1
  p1 = p1
  p2 = p2
  r1 = r1
  r2 = r2
  Star = Star
  NoChan = NoChan
  Rooms = {r1, r2}
  ConnID = {m1, m2}
  Chan = {m1, m2}
  IdOf <- MCIdOf
  KindOf <- MCKindOf
  Payload <- MCPayload
  RoomLists <- ManyLists
  RegistrationCap = 2
  IncomingCap = 1
  WriteCap = 1
  RoomNexus = FALSE
  MaxChanges = 4
  MaxEvents = 0
SPECIFICATION MCSpec
INVARIANTS TypeOK IndexMatchesRegistry WalkMatchesIndex
PROPERTY FullDeregistrationClears
CHECK_DEADLOCK FALSE
