SPECIFICATION Spec
CONSTANTS
  MaxReports = 3
  QueueLimit = 0
  Backends = {"libusb", "mac", "windows", "linux", "netbsd"}
  Alts = 2
  RingSize = 2
  MaxWrites = 2
  Children = 2
  Capacity = 2
  Ports = {1, 2}
  Units <- MCUnits
  Descriptors <- MCDescriptors
  Usual <- MCUsual
  MaxChanges = 2
INVARIANTS TypeOK NothingLeft RunLoopAlive WriteWasCarriedOut
  ListIsComplete OpensWhatWasAsked UsagesAsDeclared
PROPERTIES ReportsInOrder CloseReturns 
