\* A device that sends and receives while the connection to the hub is lost.
CONSTANTS
  d = d
  r1 = r1
  Star = Star
  Rooms = {r1}
  Targets = {d}
  Web = {}
  Visitors = {}
  SendMap <- MCSendMap
  BufferCap = 1
  HubCap = 1
  HTTPCap = 1
  MaxStations = 1
  BufferSize = 1
  SubscriptionCap = 1
  MaxResubs = 2
  MaxEvents = 4
  MaxPosts = 4
  MaxFrames = 1
  MaxBreaks = 1
SPECIFICATION MCSpec
PROPERTY RepeaterComesBack
CHECK_DEADLOCK FALSE
