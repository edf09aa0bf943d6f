\* A device that is dialled and dials, a web service, every kind of failure.
CONSTANTS
  d = d
  w = w
  r1 = r1
  r2 = r2
  Star = Star
  Rooms = {r1}
  Targets = {d, w}
  Web = {w}
  Visitors = {d}
  SendMap <- MCSendMap
  BufferCap = 1
  HubCap = 1
  HTTPCap = 1
  MaxStations = 3
  MaxEvents = 3
  MaxInputs = 2
SPECIFICATION FairMCSpec
INVARIANTS RepeaterTypeOK ErrorsNeverBlock OneStationPerDevice LeavingIsHeard RunningStationIsListed
PROPERTIES FailedStationEnds OnlyTheDeadHoldUp
CHECK_DEADLOCK FALSE
