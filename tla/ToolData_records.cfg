SPECIFICATION Spec
CONSTANTS
  Code <- MCCode
  Typed = {6, 7, 256}
  FileLimit = 2
  LastIndex = 2
  Macs <- MCMacs
  InitialFiles <- MCInitialFiles
  Edits <- MCEdits
  MaxDay = 2
  MaxWork = 5
  m1 = m1
  m2 = m2
INVARIANTS TypeOK HistoryInOrder SearchIsExact SettingsSurvive PreviewIsNext SerialInCommand
  SessionAgrees
PROPERTY OkChangesWhatWasEdited
SYMMETRY Symmetry
CHECK_DEADLOCK FALSE
