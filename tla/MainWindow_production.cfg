SPECIFICATION Spec
CONSTANTS
  Units = {u1, u2}
  NoUnit = NoUnit
  Serials <- MCSerials
  NoSerial = NoSerial
  NoPacket = NoPacket
  Closed = Closed
  Stale = Stale
  NoSettings = NoSettings
  Formats <- MCFormats
  Settings <- Production
  QueueSize = 2
  MaxDepth = 2
  MaxLines = 1
  MaxRows = 3
  Faults = {"late", "drop", "reject"}
  Clicks = {"connect", "disconnect", "manual", "start", "stop", "edit", "send"}
  Disciplined = TRUE
  SlowSwap = FALSE
INVARIANTS TypeOK UniqueRecords RecordsAreTrue LabelsAreTrue SerialsContiguous
PROPERTIES AutoWritesOnce
