----------------------------- MODULE RacePacket -----------------------------
(***************************************************************************)
(* race::RacePacket (src/src/core/race_packet.cpp) and the two ends of the *)
(* wire: RaceService::sendSingle packs a command into an OUT report, and   *)
(* onHidReportReceived unpacks an IN report.  Reports are sequences, so    *)
(* byte k of a report, counted from 0 as the source does, is element k + 1.*)
(***************************************************************************)
EXTENDS Integers, Sequences

CONSTANTS
  ReportSize,   \* cfg_.reportSize, 62 in the tool
  OutId, InId,  \* cfg_.outReportId and cfg_.inReportId
  Bytes,        \* the byte values commands and answers are made of
  Commands,     \* the commands a run sends
  Answers       \* the payloads the firmware of a run answers with

\* A report has its three header bytes and room for one more; the length byte
\* can count what follows the header.
ASSUME PacketAssumption ==
  /\ ReportSize \in 4 .. 258
  /\ Bytes \subseteq 0 .. 255
  /\ OutId \in 0 .. 255
  /\ InId \in 0 .. 255
  /\ Commands \subseteq Seq(Bytes)
  /\ Answers \subseteq {a \in Seq(Bytes) : Len(a) \in 1 .. ReportSize - 3}

Targets == {0, 128}      \* 0x00 local, 0x80 remote

\* A mutant: the length does not count the target byte.
CommandLen(cmd) == IF Len(cmd) <= ReportSize - 3 THEN Len(cmd) ELSE ReportSize - 3

\* buildOutReport: the length counts the target byte and the command bytes,
\* and is cut off at reportSize - 3 without a word.
PayloadLen(cmd) == IF Len(cmd) + 1 <= ReportSize - 3 THEN Len(cmd) + 1 ELSE ReportSize - 3

BuildOutReport(cmd, target) ==
  [k \in 1 .. ReportSize |->
     IF k = 1 THEN OutId
     ELSE IF k = 2 THEN PayloadLen(cmd) % 256
     ELSE IF k = 3 THEN target
     ELSE IF k - 3 <= PayloadLen(cmd) - 1 THEN cmd[k - 3]
     ELSE 0]

\* A mutant: any report id is taken.
ParseAnyReport(raw) ==
  Len(raw) >= ReportSize /\ raw[2] # 0 /\ raw[2] <= ReportSize - 3

\* parseInReport takes a report that is long enough, has the input report id
\* and a length that fits; a zero length says that the device has nothing.
ParseInReport(raw) ==
  /\ Len(raw) >= ReportSize
  /\ raw[1] = InId
  /\ raw[2] # 0
  /\ raw[2] <= ReportSize - 3

RacePayload(raw) == SubSeq(raw, 4, raw[2] + 3)

\* The firmware's side, from the comment in parseInReport: in an OUT report the
\* length is 1 + |command|, in an IN report it is the number of bytes at [3..].
TakenFrom(report) == SubSeq(report, 4, report[2] + 2)

InReport(answer) ==
  [k \in 1 .. ReportSize |->
     IF k = 1 THEN InId
     ELSE IF k = 2 THEN Len(answer)
     ELSE IF k = 3 THEN 0
     ELSE IF k - 3 <= Len(answer) THEN answer[k - 3]
     ELSE 0]

\* Other things a poll can bring: nothing to fetch, the report of another
\* collection of the device, a report cut short, a length beyond the report.
Strays ==
  {[InReport(<< >>) EXCEPT ![2] = 0],
   [InReport(<< >>) EXCEPT ![1] = OutId, ![2] = 1],
   SubSeq([InReport(<< >>) EXCEPT ![2] = 1], 1, ReportSize - 1),
   [InReport(<< >>) EXCEPT ![2] = ReportSize - 2]}

None == << >>

VARIABLES
  sent,         \* the command of the last sendSingle
  out,          \* the OUT report on the wire, or None
  taken,        \* what the firmware unpacked from the last OUT report
  answered,     \* the last answer the firmware put into an IN report
  in,           \* the IN report on the wire, or None
  received      \* the payload of the last racePacketReceived, or None

packetVars == <<sent, out, taken, answered, in, received>>

PacketInit ==
  /\ sent = None /\ out = None /\ taken = None
  /\ answered = None /\ in = None /\ received = None

SendSingle(cmd, target) ==
  /\ out = None
  /\ sent' = cmd
  /\ out' = BuildOutReport(cmd, target)
  /\ UNCHANGED <<taken, answered, in, received>>

Take ==
  /\ out # None
  /\ taken' = TakenFrom(out)
  /\ out' = None
  /\ UNCHANGED <<sent, answered, in, received>>

Report(answer) ==
  /\ in = None
  /\ answered' = answer
  /\ in' = InReport(answer)
  /\ UNCHANGED <<sent, out, taken, received>>

Stray(raw) ==
  /\ in = None
  /\ in' = raw
  /\ UNCHANGED <<sent, out, taken, answered, received>>

OnHidReportReceived ==
  /\ in # None
  /\ received' = IF ParseInReport(in) THEN RacePayload(in) ELSE received
  /\ in' = None
  /\ UNCHANGED <<sent, out, taken, answered>>

SendAny   == \E cmd \in Commands, target \in Targets : SendSingle(cmd, target)
ReportAny == \E answer \in Answers : Report(answer)
StrayAny  == \E raw \in Strays : Stray(raw)

PacketNext == SendAny \/ Take \/ ReportAny \/ StrayAny \/ OnHidReportReceived

PacketSpec == PacketInit /\ [][PacketNext]_packetVars
-----------------------------------------------------------------------------
\* What the firmware executes is the command, or, when that is longer than
\* reportSize - 4 bytes, a true prefix of it of just that length.
CommandTaken ==
  out # None =>
    /\ Len(out) = ReportSize
    /\ TakenFrom(out) =
         SubSeq(sent, 1, IF Len(sent) <= ReportSize - 4 THEN Len(sent) ELSE ReportSize - 4)

\* What racePacketReceived hands on is an answer the firmware gave, whole and
\* without padding; no stray report gets through as one.
OnlyAnswersReceived ==
  [][received' # received => in # None /\ received' = answered /\ in = InReport(answered)]_packetVars

\* README.md:27: "Byte 3~61: RACE payload".  A command that fits into bytes 3
\* to reportSize - 1 is executed whole.
PayloadUpToLastByte ==
  out # None /\ Len(sent) <= ReportSize - 3 => TakenFrom(out) = sent
=============================================================================
