SPECIFICATION Spec
CONSTANTS
  Units = {u1, u2}
  NoUnit = NoUnit
  Serials <- MCSerials
  NoSerial = NoSerial
  NoPacket = NoPacket
  Closed = Closed
  Stale = Stale
  NoSettings = NoSettings
  Formats <- MCFormats
  Settings <- Plain
  QueueSize = 3
  MaxDepth = 3
  MaxLines = 1
  MaxRows = 4
  Faults = {}
  Clicks = {"manual"}
  Disciplined = FALSE
  SlowSwap = FALSE
INVARIANTS UniqueRecords
