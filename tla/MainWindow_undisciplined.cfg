SPECIFICATION FairSpec
CONSTANTS
  Units = {u1}
  NoUnit = NoUnit
  Serials <- MCSerials
  NoSerial = NoSerial
  NoPacket = NoPacket
  Closed = Closed
  Stale = Stale
  NoSettings = NoSettings
  Formats <- MCFormats
  Settings <- Plain
  QueueSize = 2
  MaxDepth = 2
  MaxLines = 1
  MaxRows = 3
  Faults = {"late", "lock"}
  Clicks = {"disconnect", "manual", "start", "stop"}
  Disciplined = FALSE
  SlowSwap = FALSE
INVARIANTS CounterAhead
PROPERTIES RequestsReturn
