\* One messenger more than the sender, a hub and two repeaters.
CONSTANTS
  m1 = m1
  m2 = m2
  h1 = h1
  p1 = p1
  p2 = p2
  r1 = r1
  r2 = r2
  Star = Star
  NoChan = NoChan
  Rooms = {r1}
  ConnID = {m1, h1, p1, p2}
  Chan = {m1, h1, p1, p2}
  IdOf <- MCIdOf
  KindOf <- MCKindOf
  Payload <- MCPayload
  RoomLists <- FewLists
  RegistrationCap = 1
  IncomingCap = 2
  WriteCap = 1
  RoomNexus = FALSE
  MaxChanges = 3
  MaxEvents = 2
SPECIFICATION MCSpec
INVARIANTS AdmittedSendNeverBlocks SplitHorizon AtMostOneRepeater
PROPERTY ImplementsRouting
SYMMETRY RepeaterSymmetry
CHECK_DEADLOCK FALSE
