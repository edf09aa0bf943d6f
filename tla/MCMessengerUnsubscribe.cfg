\* A room given up after a reconnection.
CONSTANTS
  r1 = r1
  r2 = r2
  Rooms = {r1}
  Payload <- MCPayload
  BufferSize = 1
  SubscriptionCap = 2
  MaxResubs = 3
  MaxSends = 0
  MaxCalls = 2
  MaxFrames = 0
  MaxBreaks = 1
  MayKill = FALSE
SPECIFICATION MCSpec
INVARIANT UnsubscribedRoomsAreFree
CHECK_DEADLOCK FALSE
