-------------------------- MODULE RacePacketProofs --------------------------
(***************************************************************************)
(* What RacePacket packs and unpacks, for every report size, every command *)
(* and every answer.                                                       *)
(***************************************************************************)
EXTENDS RacePacket, SequenceTheorems, TLAPS

\* The number of command bytes an OUT report carries.
Carried(cmd) == IF Len(cmd) <= ReportSize - 4 THEN Len(cmd) ELSE ReportSize - 4

\* A number of eight bits survives the cast to a byte.
LEMMA EightBits ==
  ASSUME NEW n \in 0 .. 255
  PROVE  n % 256 = n
OBVIOUS

\* Two stretches of n bytes that agree byte by byte are equal.
LEMMA SameBytes ==
  ASSUME NEW s, NEW t, NEW n \in Nat,
         \A k \in 1 .. n : s[3 + k] = t[k] /\ t[k] \in Int
  PROVE  SubSeq(s, 4, n + 3) = SubSeq(t, 1, n)
PROOF
<1>1. \A i \in 4 .. n + 3 : s[i] \in Int
  <2> SUFFICES ASSUME NEW i \in 4 .. n + 3 PROVE s[i] \in Int
    OBVIOUS
  <2>1. i - 3 \in 1 .. n /\ 3 + (i - 3) = i
    OBVIOUS
  <2> QED
    BY <2>1
<1>2. /\ SubSeq(s, 4, n + 3) \in Seq(Int)
      /\ Len(SubSeq(s, 4, n + 3)) = n
      /\ \A i \in 1 .. n : SubSeq(s, 4, n + 3)[i] = s[3 + i]
  <2>1. (n + 3) - 4 + 1 = n /\ \A i \in 1 .. n : 4 + i - 1 = 3 + i
    OBVIOUS
  <2>2. n + 3 \in Int /\ (4 <= n + 3 <=> n # 0)
    OBVIOUS
  <2> QED
    BY <1>1, <2>1, <2>2, SubSeqProperties
<1>3. /\ SubSeq(t, 1, n) \in Seq(Int)
      /\ Len(SubSeq(t, 1, n)) = n
      /\ \A i \in 1 .. n : SubSeq(t, 1, n)[i] = t[i]
  <2>1. n - 1 + 1 = n /\ \A i \in 1 .. n : 1 + i - 1 = i
    OBVIOUS
  <2> QED
    BY <2>1, SubSeqProperties
<1> QED
  BY <1>2, <1>3, SeqEqual

\* buildOutReport (race_packet.cpp:5): the report is full size, its length byte
\* is not truncated to eight bits, and unpacking it gives a prefix of the
\* command, cut at reportSize - 4 bytes.
LEMMA OutReportLemma ==
  ASSUME NEW cmd \in Seq(Bytes), NEW target \in Targets
  PROVE  /\ BuildOutReport(cmd, target) \in Seq(Int)
         /\ Len(BuildOutReport(cmd, target)) = ReportSize
         /\ BuildOutReport(cmd, target)[2] = Carried(cmd) + 1
         /\ TakenFrom(BuildOutReport(cmd, target)) = SubSeq(cmd, 1, Carried(cmd))
PROOF
<1> DEFINE r == BuildOutReport(cmd, target)
<1>1. ReportSize \in Nat /\ ReportSize >= 4 /\ ReportSize <= 258 /\ Bytes \subseteq Int
  BY PacketAssumption
<1>2. Len(cmd) \in Nat /\ \A k \in 1 .. Len(cmd) : cmd[k] \in Bytes
  OBVIOUS
<1>3. /\ PayloadLen(cmd) = Carried(cmd) + 1
      /\ PayloadLen(cmd) % 256 = PayloadLen(cmd)
      /\ Carried(cmd) \in 0 .. ReportSize - 4
      /\ Carried(cmd) <= Len(cmd)
  <2>1. Carried(cmd) \in 0 .. ReportSize - 4 /\ Carried(cmd) <= Len(cmd)
    BY <1>1, <1>2 DEF Carried
  <2>2. PayloadLen(cmd) = Carried(cmd) + 1
    BY <1>1, <1>2 DEF PayloadLen, Carried
  <2>3. PayloadLen(cmd) \in 0 .. 255
    <3>1. \A n \in 0 .. ReportSize - 4 : n + 1 \in 0 .. 255
      BY <1>1
    <3> QED
      BY <2>1, <2>2, <3>1
  <2>4. PayloadLen(cmd) % 256 = PayloadLen(cmd)
    BY <2>3, EightBits
  <2> QED
    BY <2>1, <2>2, <2>4
<1>4. \A k \in 1 .. ReportSize : r[k] \in Int
  <2> SUFFICES ASSUME NEW k \in 1 .. ReportSize PROVE r[k] \in Int
    OBVIOUS
  <2>1. OutId \in Int /\ target \in Int
    BY PacketAssumption DEF Targets
  <2>2. k > 3 /\ k - 3 <= PayloadLen(cmd) - 1 => cmd[k - 3] \in Int
    <3>1. ASSUME k > 3, k - 3 <= PayloadLen(cmd) - 1 PROVE cmd[k - 3] \in Bytes
      <4>1. k - 3 \in 1 .. Len(cmd)
        BY <1>1, <1>2, <1>3, <3>1
      <4> QED
        BY <1>2, <4>1
    <3> QED
      BY <1>1, <3>1
  <2> QED
    BY <1>1, <1>3, <2>1, <2>2 DEF BuildOutReport
<1>5. r \in Seq(Int) /\ Len(r) = ReportSize
  <2>1. r = [k \in 1 .. ReportSize |-> r[k]]
    BY DEF BuildOutReport
  <2> HIDE DEF r
  <2> QED
    BY <1>1, <1>4, <2>1
<1>6. r[2] = Carried(cmd) + 1
  BY <1>1, <1>3 DEF BuildOutReport
<1>7. \A k \in 1 .. Carried(cmd) : r[3 + k] = cmd[k] /\ cmd[k] \in Int
  <2> SUFFICES ASSUME NEW k \in 1 .. Carried(cmd)
               PROVE  r[3 + k] = cmd[k] /\ cmd[k] \in Int
    OBVIOUS
  <2>1. 3 + k \in 4 .. ReportSize /\ (3 + k) - 3 = k
    BY <1>1, <1>3
  <2>2. r[3 + k] = cmd[k]
    BY <1>1, <1>3, <2>1 DEF BuildOutReport
  <2>3. k \in 1 .. Len(cmd)
    BY <1>2, <1>3
  <2> QED
    BY <1>1, <1>2, <2>2, <2>3
<1>8. TakenFrom(r) = SubSeq(cmd, 1, Carried(cmd))
  <2> HIDE DEF r
  <2>1. TakenFrom(r) = SubSeq(r, 4, Carried(cmd) + 3)
    BY SMTT(30), <1>3, <1>6 DEF TakenFrom
  <2> QED
    BY <1>3, <1>7, <2>1, SameBytes
<1> QED
  BY <1>5, <1>6, <1>8

-----------------------------------------------------------------------------
\* parseInReport takes an answer report and returns the answer whole.
LEMMA InReportLemma ==
  ASSUME NEW a \in Answers
  PROVE  RacePayload(InReport(a)) = a
PROOF
<1> DEFINE r == InReport(a)
<1>1. ReportSize \in Nat /\ ReportSize >= 4 /\ Bytes \subseteq Int
  BY PacketAssumption
<1>2. a \in Seq(Bytes) /\ Len(a) \in 1 .. ReportSize - 3
  BY PacketAssumption
<1>3. \A k \in 1 .. Len(a) : a[k] \in Bytes
  BY <1>2
<1>4. \A k \in 1 .. Len(a) : r[3 + k] = a[k] /\ a[k] \in Int
  <2> SUFFICES ASSUME NEW k \in 1 .. Len(a) PROVE r[3 + k] = a[k] /\ a[k] \in Int
    OBVIOUS
  <2>1. 3 + k \in 4 .. ReportSize /\ (3 + k) - 3 = k
    BY <1>1, <1>2
  <2>2. r[3 + k] = a[k]
    BY <1>1, <1>2, <2>1 DEF InReport
  <2> QED
    BY <1>1, <1>3, <2>2
<1>5. r[2] = Len(a)
  BY <1>1 DEF InReport
<1>6. SubSeq(a, 1, Len(a)) = a
  BY <1>2, SubSeqFull
<1>7. SubSeq(r, 4, Len(a) + 3) = SubSeq(a, 1, Len(a))
  <2> HIDE DEF r
  <2> QED
    BY <1>2, <1>4, SameBytes
<1> QED
  BY <1>5, <1>6, <1>7 DEF RacePayload

\* None of the strays is taken for an answer.
LEMMA StrayLemma ==
  ASSUME NEW raw \in Strays, InId # OutId
  PROVE  ~ParseInReport(raw)
PROOF
<1> DEFINE e == InReport(<< >>)
<1>1. ReportSize \in Nat /\ ReportSize >= 4
  BY PacketAssumption
<1>2. e = [k \in 1 .. ReportSize |-> e[k]]
  BY DEF InReport
<1>3. CASE raw = [e EXCEPT ![2] = 0]
  <2>1. raw[2] = 0
    BY <1>1, <1>2, <1>3
  <2> QED
    BY <2>1 DEF ParseInReport
<1>4. CASE raw = [e EXCEPT ![1] = OutId, ![2] = 1]
  <2>1. raw[1] = OutId
    BY <1>1, <1>2, <1>4
  <2> QED
    BY <2>1 DEF ParseInReport
<1>5. CASE raw = SubSeq([e EXCEPT ![2] = 1], 1, ReportSize - 1)
  <2> DEFINE f == [e EXCEPT ![2] = 1]
  <2>1. Len(SubSeq(f, 1, ReportSize - 1)) = ReportSize - 1
    BY <1>1, SubSeqProperties, \A i \in 1 .. ReportSize - 1 : f[i] \in {f[k] : k \in 1 .. ReportSize}
  <2> QED
    BY <1>1, <1>5, <2>1 DEF ParseInReport
<1>6. CASE raw = [e EXCEPT ![2] = ReportSize - 2]
  <2>1. raw[2] = ReportSize - 2
    BY <1>1, <1>2, <1>6
  <2> QED
    BY <1>1, <2>1 DEF ParseInReport
<1> QED
  BY <1>3, <1>4, <1>5, <1>6 DEF Strays
-----------------------------------------------------------------------------
\* The report on the wire was packed from the last command, and the one coming
\* in holds the last answer or is a stray.
WireInv ==
  /\ out # None => sent \in Commands /\ \E t \in Targets : out = BuildOutReport(sent, t)
  /\ in # None => (answered \in Answers /\ in = InReport(answered)) \/ in \in Strays

LEMMA WireInvariant == PacketSpec => []WireInv
PROOF
<1>1. PacketInit => WireInv
  BY DEF PacketInit, WireInv
<1>2. WireInv /\ [PacketNext]_packetVars => WireInv'
  <2> SUFFICES ASSUME WireInv, [PacketNext]_packetVars PROVE WireInv'
    OBVIOUS
  <2>1. ASSUME NEW cmd \in Commands, NEW t \in Targets, SendSingle(cmd, t) PROVE WireInv'
    BY <2>1 DEF WireInv, SendSingle
  <2>2. CASE Take
    BY <2>2 DEF WireInv, Take
  <2>3. ASSUME NEW a \in Answers, Report(a) PROVE WireInv'
    BY <2>3 DEF WireInv, Report
  <2>4. ASSUME NEW raw \in Strays, Stray(raw) PROVE WireInv'
    BY <2>4 DEF WireInv, Stray
  <2>5. CASE OnHidReportReceived
    BY <2>5 DEF WireInv, OnHidReportReceived
  <2>6. CASE UNCHANGED packetVars
    BY <2>6 DEF WireInv, packetVars
  <2> QED
    BY <2>1, <2>2, <2>3, <2>4, <2>5, <2>6 DEF PacketNext, SendAny, ReportAny, StrayAny
<1> QED
  BY <1>1, <1>2, PTL DEF PacketSpec

\* sendSingle (race_service.cpp:25): the firmware unpacks from every report the
\* command, or its first reportSize - 4 bytes if it is longer.
THEOREM CommandTakenTheorem == PacketSpec => []CommandTaken
PROOF
<1>1. WireInv => CommandTaken
  <2> SUFFICES ASSUME WireInv, out # None PROVE CommandTaken
    BY DEF CommandTaken
  <2>1. PICK t \in Targets : sent \in Commands /\ out = BuildOutReport(sent, t)
    BY DEF WireInv
  <2>2. sent \in Seq(Bytes)
    BY <2>1, PacketAssumption
  <2> QED
    BY <2>1, <2>2, OutReportLemma DEF CommandTaken, Carried
<1> QED
  BY <1>1, WireInvariant, PTL

\* onHidReportReceived (race_service.cpp:87): what is handed on is the answer
\* the firmware gave, whole, and never a stray report, as long as the two
\* report ids differ.
THEOREM OnlyAnswersTheorem ==
  ASSUME InId # OutId
  PROVE  PacketSpec => OnlyAnswersReceived
PROOF
<1>1. WireInv /\ [PacketNext]_packetVars
        => [received' # received
              => in # None /\ received' = answered /\ in = InReport(answered)]_packetVars
  <2> SUFFICES ASSUME WireInv, [PacketNext]_packetVars, received' # received
               PROVE  in # None /\ received' = answered /\ in = InReport(answered)
    OBVIOUS
  <2>1. OnHidReportReceived
    BY DEF PacketNext, packetVars, SendAny, ReportAny, StrayAny, SendSingle, Take, Report, Stray
  <2>2. in # None /\ ParseInReport(in) /\ received' = RacePayload(in)
    BY <2>1 DEF OnHidReportReceived
  <2>3. answered \in Answers /\ in = InReport(answered)
    BY <2>2, StrayLemma DEF WireInv
  <2> QED
    BY <2>2, <2>3, InReportLemma
<1> QED
  BY <1>1, WireInvariant, PTL DEF PacketSpec, OnlyAnswersReceived
=============================================================================
