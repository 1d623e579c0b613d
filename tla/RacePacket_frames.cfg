SPECIFICATION PacketSpec
CONSTANTS
  ReportSize = 6
  OutId = 6
  InId = 7
  Bytes <- MCBytes
  Commands <- MCCommands
  Answers <- MCAnswers
INVARIANTS CommandTaken
PROPERTIES OnlyAnswersReceived
