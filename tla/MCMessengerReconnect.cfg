\* Events both ways over connections that break, and Kill.
CONSTANTS
  r1 = r1
  r2 = r2
  Rooms = {r1}
  Payload <- MCPayload
  BufferSize = 2
  SubscriptionCap = 1
  MaxResubs = 2
  MaxSends = 3
  MaxCalls = 0
  MaxFrames = 2
  MaxBreaks = 3
  MayKill = TRUE
SPECIFICATION FairHubMCSpec
INVARIANTS TokensMatchPumps EventsInOrder
PROPERTIES ConnectionComesBack KillTakesEffect
CHECK_DEADLOCK FALSE
