SPECIFICATION Spec
CONSTANTS
  Units = {u1}
  NoUnit = NoUnit
  Serials <- MCSerials
  NoSerial = NoSerial
  NoPacket = NoPacket
  Closed = Closed
  Stale = Stale
  NoSettings = NoSettings
  Formats <- MCFormats
  Settings <- Edited
  QueueSize = 2
  MaxDepth = 2
  MaxLines = 1
  MaxRows = 2
  Faults = {"late", "save", "unreadable"}
  Clicks = {"manual", "settings", "start", "stop"}
  Disciplined = TRUE
  SlowSwap = FALSE
INVARIANTS InFlightIsNext
