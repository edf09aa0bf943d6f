\* Subscription calls while connections are lost and made again.
CONSTANTS
  r1 = r1
  r2 = r2
  Rooms = {r1, r2}
  Payload <- MCPayload
  BufferSize = 1
  SubscriptionCap = 2
  MaxResubs = 3
  MaxSends = 0
  MaxCalls = 3
  MaxFrames = 0
  MaxBreaks = 2
  MayKill = FALSE
SPECIFICATION MCSpec
INVARIANTS TypeOK SubscribedRoomsAreHeld
CHECK_DEADLOCK FALSE
