SPECIFICATION FairSpec
CONSTANTS
  Units = {u1, u2}
  NoUnit = NoUnit
  Serials <- MCSerials
  NoSerial = NoSerial
  NoPacket = NoPacket
  Closed = Closed
  Stale = Stale
  NoSettings = NoSettings
  Formats <- MCFormats
  Settings <- Plain
  QueueSize = 2
  MaxDepth = 2
  MaxLines = 1
  MaxRows = 3
  Faults = {"quit"}
  Clicks = {"start", "stop"}
  Disciplined = TRUE
  SlowSwap = TRUE
PROPERTIES PluggedUnitIsWritten
