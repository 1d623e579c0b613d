--------------------------- MODULE RecordsProofs ---------------------------
(***************************************************************************)
(* The history is true: RecordsAreTrue, LabelsAreTrue and the refinement   *)
(* of the serial ledger, for any number of units, any queue, and late,     *)
(* lost, refused and stray answers.                                        *)
(*                                                                         *)
(* The hazard is what an earlier request has left behind.  A write that    *)
(* timed out leaves its command in the unit and its answer on the way; the *)
(* next write may take that answer for its own, and the command may run    *)
(* when the record has long been made.  The invariant says why neither     *)
(* does harm: whatever is still on its way to the unit on the fixture is   *)
(* owed to it.                                                             *)
(***************************************************************************)
EXTENDS MainWindowProofs

\* What the proofs ask besides a careful operator: every row is written, and
\* the settings stay as they are.
Undisturbed == Careful /\ "lock" \notin Faults /\ "settings" \notin Clicks

NextSn == SerialOf(snMode, nextSerial)

HasRow(u, s) == \E r \in RowsOf(csv) : r.mac = u /\ r.serial = s

Taken(s) == \E r \in RowsOf(csv) : r.serial = s

\* Serial s in the unit on the fixture is what the history says, or neither is
\* in the history and s is the next number; unless the next number is taken,
\* which it is after a restart, and then nothing is written any more.
Owed(s) ==
  \/ HasRow(plugged, s)
  \/ /\ ~IsDuplicateRecord(RowsOf(csv), plugged, s)
     /\ s = NextSn \/ Taken(NextSn)

SnDone(p) == p.type = "5B" /\ p.id = "SN" /\ p.ok

\* No dialog ever opens, and the counter leaves the first number only when it
\* is taken.
CounterInv ==
  /\ saved = snMode
  /\ \A i \in 1 .. depth : frame[i].kind # "dialog"
  /\ nextSerial # FirstSerial(snMode) => Taken(SerialOf(snMode, FirstSerial(snMode)))
  /\ snMode.validStart => snMode.start <= nextSerial

\* The commands and the answers in the unit on the fixture, and the content an
\* answer reports.
WireInv ==
  /\ \A c \in RowsOf(cmdq) : c.id = "SN" => c.serial \in Serials /\ Owed(c.serial)
  /\ \A p \in RowsOf(respq) : p.mac = plugged /\ (SnDone(p) => Owed(flash[plugged]))
  /\ device = Stale => cmdq = << >> /\ \A p \in RowsOf(respq) : ~SnDone(p)

\* A write in progress deals with the unit its session was opened on, and past
\* the answer that unit holds the number.
Burnt(f) ==
  \/ f.pc \in {"print", "commit"}
  \/ f.pc = "writeWait" /\ CheckRaceGeneralSuccess(SnCmd(f.serial), f.resp)

FlightOK(f) ==
  /\ device # Closed
  /\ device \in Units =>
       /\ f.pc = "macWait" /\ AcceptsMac(f.resp) => f.resp.mac = plugged
       /\ f.pc \in Searched => f.mac = plugged
  /\ f.pc \in Searched => f.guarded = snMode.preventDuplicate
  /\ Burnt(f) => flash[f.mac] = f.serial

FlightInv == \A i \in 1 .. depth : FlightOK(frame[i])

RowsTrue == \A r \in RowsOf(csv) : flash[r.mac] = r.serial

RecordInv == CounterInv /\ (snMode.preventDuplicate => WireInv /\ FlightInv /\ RowsTrue)

\* A label is that of a row, or of the write that is about to append it.
LabelInv ==
  \A l \in labels :
    \/ HasRow(l[1], l[2])
    \/ \E i \in 1 .. depth :
         frame[i].pc = "commit" /\ frame[i].mac = l[1] /\ frame[i].serial = l[2]

-----------------------------------------------------------------------------
(* What is owed to the unit, and who writes.                               *)

LEMMA SameOwed ==
  ASSUME UNCHANGED <<plugged, csv, snMode, nextSerial>>, NEW s, Owed(s)
  PROVE  Owed(s)'
BY DEF Owed, HasRow, Taken, NextSn

\* Nothing new is on its way to the unit.
LEMMA SameWire ==
  ASSUME WireInv, UNCHANGED <<plugged, flash, csv, snMode, nextSerial>>,
         RowsOf(respq') \subseteq RowsOf(respq),
         \A c \in RowsOf(cmdq') : c \in RowsOf(cmdq) \/ c.id # "SN",
         device' = Stale => device = Stale /\ (cmdq = << >> => cmdq' = << >>)
  PROVE  WireInv'
PROOF
<1>1. \A s : Owed(s) => Owed(s)'
  BY SameOwed
<1> QED
  BY <1>1 DEF WireInv

\* The write in progress, if there is one: it is alone, and it writes the
\* number the counter stands at.
LEMMA Alone ==
  ASSUME TypeInv, FlowInv, CounterInv
  PROVE  /\ depth \in {0, 1} /\ MaxDepth \in Nat \ {0}
         /\ \A i \in 1 .. depth : depth = 1 /\ i = 1
         /\ depth = 1 => /\ frame[1].kind \in {"tick", "manual"}
                         /\ frame[1].pc # "exec"
                         /\ frame[1].serial = NextSn
                         /\ frame[1] \in Frames /\ FrameOK(frame[1])
PROOF
<1>1. depth \in 0 .. MaxDepth /\ MaxDepth \in Nat \ {0} /\ depth <= 2
  BY StackSize, StackAssumption DEF FlowInv
<1>2. depth # 2
  <2>1. ASSUME depth = 2 PROVE FALSE
    <3>1. frame[1].kind = "dialog" /\ 1 \in 1 .. depth
      BY <2>1, StackSize DEF FlowInv
    <3> QED
      BY <3>1 DEF CounterInv
  <2> QED
    BY <2>1
<1>3. depth \in {0, 1}
  BY <1>1, <1>2
<1>4. \A i \in 1 .. depth : depth = 1 /\ i = 1
  BY <1>3
<1>5. ASSUME depth = 1
      PROVE  /\ frame[1].kind \in {"tick", "manual"}
             /\ frame[1].pc # "exec"
             /\ frame[1].serial = NextSn
             /\ frame[1] \in Frames /\ FrameOK(frame[1])
  <2>1. 1 \in 1 .. depth /\ 1 \in 1 .. MaxDepth
    BY <1>1, <1>5
  <2>2. frame[1].kind \in {"tick", "manual"} /\ frame[1].pc # "exec"
    BY <2>1 DEF CounterInv, FlowInv, StackInv
  <2>3. frame[1].serial = NextSn
    BY <2>1, <2>2 DEF FlowInv, InFlightIsNext, NextSn
  <2> QED
    BY <2>1, <2>2, <2>3 DEF TypeInv, TypeOK, LoopTypeOK, FramesOK
<1> QED
  BY <1>1, <1>3, <1>4, <1>5

\* Past the search of the history, and while the session lives, the number in
\* flight is the only one owed to the unit.
LEMMA OwedInFlight ==
  ASSUME TypeInv, FlowInv, RecordInv, snMode.preventDuplicate,
         depth = 1, frame[1].pc \in Searched, device # Stale
  PROVE  /\ ~IsDuplicateRecord(RowsOf(csv), frame[1].mac, frame[1].serial)
         /\ device = plugged /\ device \in Units /\ frame[1].mac = plugged
         /\ \A s : Owed(s) => s = frame[1].serial
PROOF
<1>1. 1 \in 1 .. depth /\ frame[1].serial = NextSn
  BY Alone DEF RecordInv
<1>2. device \in Units /\ device = plugged /\ frame[1].mac = plugged /\ frame[1].guarded
  BY <1>1 DEF RecordInv, FlightInv, FlightOK, TypeInv, TypeOK, HidTypeOK, WireOK
<1>3. ~IsDuplicateRecord(RowsOf(csv), frame[1].mac, frame[1].serial)
  BY <1>1, <1>2 DEF FlowInv, GuardInv
<1> QED
  BY <1>1, <1>2, <1>3 DEF Owed, HasRow, Taken, IsDuplicateRecord

-----------------------------------------------------------------------------
(* The steps.                                                              *)

RecordHyp == TypeInv /\ FlowInv /\ RecordInv /\ Undisturbed

LEMMA InitRecord == Init => RecordInv
PROOF
<1> SUFFICES ASSUME Init PROVE RecordInv
  OBVIOUS
<1>1. RowsOf(cmdq) = {} /\ RowsOf(respq) = {} /\ RowsOf(csv) = {} /\ depth = 0 /\ device = Closed
  BY DEF Init, DutInit, LoopInit, RowsOf
<1>2. snMode \in Settings /\ saved = snMode /\ nextSerial = FirstSerial(snMode)
  BY DEF Init
<1>3. snMode.validStart => snMode.start <= nextSerial
  BY <1>2, SettingsAssumption DEF FirstSerial, SettingsType
<1>4. CounterInv
  BY <1>1, <1>2, <1>3 DEF CounterInv
<1>5. WireInv /\ FlightInv /\ RowsTrue
  BY <1>1, HandleAssumption DEF WireInv, FlightInv, RowsTrue
<1> QED
  BY <1>4, <1>5 DEF RecordInv

\* A slot that ends without a row leaves the counter and the history alone.
LEMMA LeaveRecord ==
  ASSUME RecordHyp, depth > 0, Leave,
         device' \in {device, Closed}, UNCHANGED <<dutVars, snMode, saved, nextSerial, csv>>
  PROVE  RecordInv'
PROOF
<1>1. depth' = 0
  BY Alone DEF RecordHyp, RecordInv, Leave
<1>2. CounterInv'
  BY <1>1 DEF RecordHyp, RecordInv, CounterInv, Taken
<1>3. snMode.preventDuplicate => WireInv'
  BY SameWire, HandleAssumption DEF RecordHyp, RecordInv, dutVars
<1>4. FlightInv' /\ (snMode.preventDuplicate => RowsTrue')
  BY <1>1 DEF RecordHyp, RecordInv, FlightInv, RowsTrue, dutVars
<1> QED
  BY <1>2, <1>3, <1>4 DEF RecordInv

\* No slot is in progress before or after the step, which leaves the units,
\* the counter and the history alone.
LEMMA IdleRecord ==
  ASSUME RecordHyp, depth' = 0, device' # Stale \/ UNCHANGED <<device, cmdq>>,
         UNCHANGED <<plugged, flash, respq, snMode, saved, nextSerial, csv>>,
         \A c \in RowsOf(cmdq') : c \in RowsOf(cmdq) \/ c.id # "SN"
  PROVE  RecordInv'
PROOF
<1>1. CounterInv'
  BY DEF RecordHyp, RecordInv, CounterInv, Taken
<1>2. snMode.preventDuplicate => WireInv'
  BY SameWire DEF RecordHyp, RecordInv
<1>3. FlightInv' /\ (snMode.preventDuplicate => RowsTrue')
  BY DEF RecordHyp, RecordInv, FlightInv, RowsTrue
<1> QED
  BY <1>1, <1>2, <1>3 DEF RecordInv

LEMMA MacReturnsRecord == RecordHyp /\ MacReturns => RecordInv'
PROOF
<1> SUFFICES ASSUME RecordHyp, MacReturns PROVE RecordInv'
  OBVIOUS
<1> DEFINE f == frame[1]
           g == [f EXCEPT !.pc = "writeWait", !.mac = f.resp.mac,
                          !.guarded = snMode.preventDuplicate,
                          !.resp = NoPacket, !.quit = FALSE]
           Sent == /\ AcceptsMac(f.resp)
                   /\ ~(snMode.preventDuplicate
                          /\ IsDuplicateRecord(RowsOf(csv), f.resp.mac, f.serial))
                   /\ WriteSucceeds(device)
                   /\ cmdq' = Append(cmdq, SnCmd(f.serial))
                   /\ Continue(g)
                   /\ UNCHANGED device
<1>1. depth = 1 /\ f.pc = "macWait"
  BY Alone DEF RecordHyp, RecordInv, MacReturns
<1>2. UNCHANGED <<plugged, flash, respq, snMode, saved, nextSerial, csv>>
  BY DEF MacReturns, uiVars
<1>3. CASE Leave /\ UNCHANGED cmdq /\ device' \in {device, Closed}
  BY <1>1, <1>2, <1>3, LeaveRecord DEF dutVars
<1>4. CASE Sent
  <2>1. f \in Frames /\ FrameOK(f) /\ f.serial = NextSn /\ 1 \in 1 .. depth /\ 1 \in 1 .. MaxDepth
    BY <1>1, Alone DEF RecordHyp, RecordInv
  <2>2. f.serial \in Serials /\ device \in Units /\ device = plugged /\ device # Stale
    BY <1>1, <1>4, <2>1, HandleAssumption
       DEF FrameOK, Writing, WriteSucceeds, RecordHyp, TypeInv, WireOK
  <2>3. /\ g.pc = "writeWait" /\ g.mac = f.resp.mac /\ g.serial = f.serial
        /\ g.guarded = snMode.preventDuplicate /\ g.resp = NoPacket
        /\ g.kind = f.kind
    BY <2>1 DEF Frames
  <2>4. depth' = 1 /\ frame'[1] = g
    BY <1>1, <1>4, <2>1 DEF Continue, RecordHyp, TypeInv, TypeOK, LoopTypeOK
  <2> HIDE DEF g
  <2>5. CounterInv'
    BY <1>1, <1>2, <2>1, <2>3, <2>4 DEF RecordHyp, RecordInv, CounterInv, Taken
  <2>6. ASSUME snMode.preventDuplicate PROVE WireInv' /\ FlightInv' /\ RowsTrue'
    <3>1. f.resp.mac = plugged
      BY <1>1, <1>4, <2>1, <2>2, <2>6 DEF RecordHyp, RecordInv, FlightInv, FlightOK
    <3>2. Owed(f.serial)
      BY <1>4, <2>1, <2>6, <3>1 DEF Owed
    <3>3. /\ SnCmd(f.serial) \in Commands /\ SnCmd(f.serial).serial = f.serial
          /\ cmdq \in Seq(Commands)
      BY <2>2 DEF SnCmd, Commands, RaceIds, RecordHyp, TypeInv, TypeOK, DutTypeOK
    <3>4. RowsOf(cmdq') = RowsOf(cmdq) \cup {SnCmd(f.serial)}
      BY <1>4, <3>3, RowsOfLemma
    <3>5. \A s : Owed(s) => Owed(s)'
      BY <1>2, SameOwed
    <3>6. WireInv'
      <4>1. \A c \in RowsOf(cmdq') : c.id = "SN" => c.serial \in Serials /\ Owed(c.serial)'
        BY <2>2, <2>6, <3>2, <3>3, <3>4, <3>5 DEF RecordHyp, RecordInv, WireInv
      <4>2. \A p \in RowsOf(respq') : p.mac = plugged /\ (SnDone(p) => Owed(flash[plugged])')
        BY <1>2, <2>6, <3>5 DEF RecordHyp, RecordInv, WireInv
      <4> QED
        BY <1>2, <1>4, <2>2, <4>1, <4>2 DEF WireInv
    <3>7. FlightInv'
      <4>1. FlightOK(frame[1])'
        BY <1>2, <1>4, <2>2, <2>3, <2>4, <3>1, HandleAssumption
           DEF FlightOK, Burnt, CheckRaceGeneralSuccess
      <4> QED
        BY <2>4, <4>1 DEF FlightInv
    <3> QED
      BY <1>2, <2>6, <3>6, <3>7 DEF RecordHyp, RecordInv, RowsTrue
  <2> QED
    BY <1>2, <2>5, <2>6 DEF RecordInv
<1>5. <1>3!1 \/ Sent
  BY <1>1, Zenon
     DEF MacReturns, Fail, SessionAfter, ReadableRows, RecordHyp, Undisturbed, Careful
<1> QED
  BY <1>3, <1>4, <1>5

LEMMA WriteReturnsRecord == RecordHyp /\ (WriteReturns \/ PrintLabel) => RecordInv'
PROOF
<1> SUFFICES ASSUME RecordHyp, WriteReturns \/ PrintLabel PROVE RecordInv'
  OBVIOUS
<1> DEFINE f == frame[1]
<1>1. depth = 1 /\ depth > 0 /\ f \in Frames
  BY Alone DEF RecordHyp, RecordInv, WriteReturns, PrintLabel
<1>2. UNCHANGED <<dutVars, snMode, saved, nextSerial, csv>>
  <2>1. CASE WriteReturns /\ UNCHANGED cmdq
    BY <2>1 DEF WriteReturns, uiVars, dutVars
  <2>2. CASE PrintLabel
    BY <2>2 DEF PrintLabel, uiVars
  <2> QED
    BY <2>1, <2>2 DEF WriteReturns, Fail
<1>3. CASE Leave /\ device' \in {device, Closed}
  BY <1>1, <1>2, <1>3, LeaveRecord
<1>4. ASSUME NEW pc \in {"print", "commit"}, Continue([f EXCEPT !.pc = pc]),
             f.pc \in Searched, Burnt(f), UNCHANGED device
      PROVE  RecordInv'
  <2> DEFINE g == [f EXCEPT !.pc = pc]
  <2>1. /\ g.pc = pc /\ g.mac = f.mac /\ g.serial = f.serial
        /\ g.guarded = f.guarded /\ g.kind = f.kind
    BY <1>1 DEF Frames
  <2>2. depth' = 1 /\ frame'[1] = g /\ 1 \in 1 .. depth
    <3>1. 1 \in 1 .. MaxDepth
      BY Alone DEF RecordHyp, RecordInv
    <3> QED
      BY <1>1, <1>4, <3>1 DEF Continue, RecordHyp, TypeInv, TypeOK, LoopTypeOK
  <2> HIDE DEF g
  <2>3. CounterInv'
    BY <1>1, <1>2, <2>1, <2>2 DEF RecordHyp, RecordInv, CounterInv, Taken
  <2>4. ASSUME snMode.preventDuplicate PROVE WireInv' /\ FlightInv' /\ RowsTrue'
    <3>1. WireInv'
      BY <1>2, <1>4, <2>4, SameWire DEF RecordHyp, RecordInv, dutVars
    <3>2. FlightInv'
      <4>1. FlightOK(f)
        BY <2>2, <2>4, <1>1 DEF RecordHyp, RecordInv, FlightInv
      <4>2. FlightOK(frame[1])'
        BY <1>2, <1>4, <2>1, <2>2, <4>1 DEF FlightOK, Burnt, Searched, dutVars
      <4> QED
        BY <2>2, <4>2 DEF FlightInv
    <3> QED
      BY <1>2, <2>4, <3>1, <3>2 DEF RecordHyp, RecordInv, RowsTrue, dutVars
  <2> QED
    BY <1>2, <2>3, <2>4 DEF RecordInv
<1>5. \/ <1>3!1
      \/ \E pc \in {"print", "commit"} :
           /\ Continue([f EXCEPT !.pc = pc]) /\ f.pc \in Searched /\ Burnt(f)
           /\ UNCHANGED device
  BY <1>1 DEF WriteReturns, PrintLabel, Fail, SessionAfter, Burnt, Searched
<1> QED
  BY <1>3, <1>4, <1>5

\* The row is that of the unit that holds the number, and what is still on its
\* way to the unit is that number.
LEMMA CommitRecordRecord == RecordHyp /\ CommitRecord => RecordInv'
PROOF
<1> SUFFICES ASSUME RecordHyp, CommitRecord PROVE RecordInv'
  OBVIOUS
<1> DEFINE f == frame[1]
           r == RowOf(f)
<1>1. /\ depth = 1 /\ f.pc = "commit" /\ f.serial = NextSn
      /\ f \in Frames /\ FrameOK(f) /\ 1 \in 1 .. depth
  BY Alone DEF RecordHyp, RecordInv, CommitRecord
<1>2. /\ csv' = Append(csv, r) /\ depth' = 0 /\ device' \in {device, Closed}
      /\ nextSerial' = Raised(snMode, nextSerial + 1)
      /\ UNCHANGED <<plugged, flash, cmdq, respq, snMode, saved>>
  BY <1>1
     DEF CommitRecord, AppendCsvRecord, AfterWrite, Leave, SessionAfter, dutVars, RecordHyp, Undisturbed
<1>3. r \in Rows /\ r.mac = f.mac /\ r.serial = f.serial
  BY <1>1 DEF RowOf, Rows, Frames, FrameOK, Writing, Searched
<1>4. csv \in Seq(Rows) /\ nextSerial \in Nat /\ snMode \in Settings /\ snMode.start \in Nat
  BY SettingsAssumption DEF RecordHyp, TypeInv, TypeOK, SettingsType
<1> HIDE DEF r
<1>5. RowsOf(csv') = RowsOf(csv) \cup {r}
  BY <1>2, <1>3, <1>4, RowsOfLemma
<1>6. CounterInv'
  <2>1. Taken(SerialOf(snMode, FirstSerial(snMode)))'
    BY <1>1, <1>2, <1>3, <1>5 DEF RecordHyp, RecordInv, CounterInv, Taken, NextSn
  <2>2. snMode.validStart => snMode.start <= nextSerial'
    BY <1>2, <1>4 DEF RecordHyp, RecordInv, CounterInv, Raised
  <2> QED
    BY <1>2, <2>1, <2>2 DEF RecordHyp, RecordInv, CounterInv, Taken
<1>7. ASSUME snMode.preventDuplicate PROVE WireInv' /\ FlightInv' /\ RowsTrue'
  <2>1. WireInv'
    <3>1. CASE device = Stale
      <4>1. cmdq = << >> /\ \A p \in RowsOf(respq) : ~SnDone(p) /\ p.mac = plugged
        BY <1>7, <3>1 DEF RecordHyp, RecordInv, WireInv
      <4>2. RowsOf(cmdq) = {}
        BY <4>1 DEF RowsOf
      <4> QED
        BY <1>2, <4>1, <4>2 DEF WireInv
    <3>2. CASE device # Stale
      <4>1. device = plugged /\ f.mac = plugged /\ \A s : Owed(s) => s = f.serial
        BY <1>1, <1>7, <3>2, OwedInFlight DEF RecordHyp, Searched
      <4>2. \A s : s = f.serial => Owed(s)'
        BY <1>2, <1>3, <1>5, <4>1 DEF Owed, HasRow
      <4> QED
        BY <1>2, <1>7, <3>2, <4>1, <4>2, HandleAssumption DEF RecordHyp, RecordInv, WireInv
    <3> QED
      BY <3>1, <3>2
  <2>2. flash[r.mac] = r.serial
    BY <1>1, <1>3, <1>7 DEF RecordHyp, RecordInv, FlightInv, FlightOK, Burnt
  <2> QED
    BY <1>2, <1>5, <1>7, <2>1, <2>2 DEF RecordHyp, RecordInv, FlightInv, RowsTrue
<1> QED
  BY <1>2, <1>6, <1>7 DEF RecordInv

\* The counter stands at the start number or beyond it, so validating the range
\* again does not move it.
LEMMA RaisedSame == RecordHyp => Raised(snMode, nextSerial) = nextSerial
BY SettingsAssumption
   DEF RecordHyp, RecordInv, CounterInv, TypeInv, TypeOK, SettingsType, Raised, ValidRange

\* A tick is dispatched only over an empty stack, as there is no dialog.
LEMMA IdleTick == RecordHyp /\ TickFires => depth = 0
BY Alone DEF RecordHyp, RecordInv, TickFires, FlowInv, StackInv

LEMMA BeginWriteRecord ==
  ASSUME RecordHyp, NEW k \in {"tick", "manual"}, NEW d \in Units \cup {Closed, Stale},
         d \in Units => d = plugged, d = Stale => device = Stale, depth = 0, BeginWrite(k, d)
  PROVE  RecordInv'
PROOF
<1> DEFINE g == WriteFrame(k, SerialOf(snMode, nextSerial'))
<1>1. /\ UNCHANGED <<plugged, flash, respq, snMode, saved, csv>>
      /\ nextSerial' = nextSerial
  BY RaisedSame DEF BeginWrite
<1>2. CASE UNCHANGED <<cmdq, loopVars>> /\ device' \in {d, Closed}
  <2>1. device' # Stale \/ UNCHANGED <<device, cmdq>>
    BY <1>2, HandleAssumption
  <2> QED
    BY <1>1, <1>2, <2>1, IdleRecord DEF loopVars
<1>3. CASE cmdq' = Append(cmdq, MacCmd) /\ Call(g) /\ device' = d /\ d \in Units
  <2>1. 1 \in 1 .. MaxDepth /\ depth' = 1 /\ frame'[1] = g
    BY <1>3, Alone DEF RecordHyp, RecordInv, Call, TypeInv, TypeOK, LoopTypeOK
  <2>2. g.kind = k /\ g.pc = "macWait" /\ g.resp = NoPacket
    BY DEF WriteFrame, NoFrame
  <2> HIDE DEF g
  <2>3. CounterInv'
    BY <1>1, <2>1, <2>2 DEF RecordHyp, RecordInv, CounterInv, Taken
  <2>4. cmdq \in Seq(Commands) /\ MacCmd \in Commands /\ MacCmd.id # "SN"
    BY DEF MacCmd, Commands, RaceIds, RecordHyp, TypeInv, TypeOK, DutTypeOK
  <2>5. RowsOf(cmdq') = RowsOf(cmdq) \cup {MacCmd}
    BY <1>3, <2>4, RowsOfLemma
  <2>6. snMode.preventDuplicate => WireInv'
    BY <1>1, <1>3, <2>4, <2>5, SameWire, HandleAssumption DEF RecordHyp, RecordInv
  <2>7. FlightInv'
    <3>1. FlightOK(frame[1])'
      BY <1>3, <2>1, <2>2, HandleAssumption DEF FlightOK, AcceptsMac, Searched, Burnt
    <3> QED
      BY <2>1, <3>1 DEF FlightInv
  <2> QED
    BY <1>1, <2>3, <2>6, <2>7 DEF RecordHyp, RecordInv, RowsTrue
<1>4. <1>2!1 \/ <1>3!1
  BY Zenon DEF BeginWrite, SessionAfter, WriteSucceeds
<1> QED
  BY <1>2, <1>3, <1>4

LEMMA WritesRecord == RecordHyp /\ (OnWriteNextSerialClicked \/ TickWrites) => RecordInv'
PROOF
<1> SUFFICES ASSUME RecordHyp, OnWriteNextSerialClicked \/ TickWrites PROVE RecordInv'
  OBVIOUS
<1>1. depth = 0
  BY IdleClick, IdleTick
     DEF OnWriteNextSerialClicked, ManualClick, TickWrites, RecordHyp, Undisturbed
<1>2. ASSUME NEW d \in OpenResults \cup {device}, NEW k \in {"tick", "manual"}, BeginWrite(k, d)
      PROVE  RecordInv'
  <2>1. /\ d \in Units \cup {Closed, Stale}
        /\ d \in Units => d = plugged
        /\ d = Stale => device = Stale
    <3>1. CASE d = device
      BY <3>1 DEF RecordHyp, TypeInv, TypeOK, HidTypeOK, WireOK
    <3>2. CASE d \in OpenResults
      <4>1. d = Closed \/ (d = plugged /\ plugged # NoUnit)
        BY <3>2 DEF OpenResults, DeviceExists
      <4> QED
        BY <4>1, HandleAssumption DEF RecordHyp, TypeInv, TypeOK, DutTypeOK
    <3> QED
      BY <3>1, <3>2
  <2> QED
    BY <1>1, <1>2, <2>1, BeginWriteRecord
<1>3. CASE device' = Closed /\ UNCHANGED <<dutVars, loopVars, uiVars, outVars>>
  BY <1>1, <1>3, IdleRecord, HandleAssumption DEF dutVars, loopVars, uiVars, outVars
<1>4. \/ \E d \in OpenResults \cup {device} : \E k \in {"tick", "manual"} : BeginWrite(k, d)
      \/ <1>3!1
  BY DEF OnWriteNextSerialClicked, TickWrites
<1> QED
  BY <1>2, <1>3, <1>4

\* The other clicks and ticks happen over an empty stack, and put no serial
\* number on the wire.
LEMMA IdleSlots ==
  RecordHyp
    /\ (OnConnectClicked \/ OnDisconnectClicked \/ SendClicked \/ EditUsbFields
        \/ OnStartAutoSnClicked \/ OnStopAutoSnClicked
        \/ TickBadConfig \/ TickNoDevice \/ TickArmed) => RecordInv'
PROOF
<1> SUFFICES ASSUME RecordHyp,
                    OnConnectClicked \/ OnDisconnectClicked \/ SendClicked \/ EditUsbFields
                      \/ OnStartAutoSnClicked \/ OnStopAutoSnClicked
                      \/ TickBadConfig \/ TickNoDevice \/ TickArmed
             PROVE  RecordInv'
  OBVIOUS
<1>1. depth = 0
  BY IdleClick, IdleTick
     DEF OnConnectClicked, OnDisconnectClicked, SendClicked, OnSendClicked, ManualClick,
         EditUsbFields, OnStartAutoSnClicked, OnStopAutoSnClicked,
         TickBadConfig, TickNoDevice, TickArmed, RecordHyp, Undisturbed
<1>2. CASE SendClicked
  <2>1. PICK n \in 1 .. MaxLines : OnSendClicked(n)
    BY <1>2 DEF SendClicked
  <2> DEFINE room == QueueSize - Len(cmdq)
             sent == IF n <= room THEN n ELSE room
             tail == [i \in 1 .. sent |-> OtherCmd]
  <2>2. cmdq \in Seq(Commands) /\ cmdq' = cmdq \o tail
    BY <2>1 DEF OnSendClicked, RecordHyp, TypeInv, TypeOK, DutTypeOK
  <2>3. RowsOf(cmdq') \subseteq RowsOf(cmdq) \cup {OtherCmd}
    <3>1. CASE sent \in Nat
      <4>1. tail \in Seq({OtherCmd})
        BY <3>1
      <4> HIDE DEF tail
      <4>2. /\ Len(cmdq) \in Nat /\ Len(tail) \in Nat
            /\ Len(cmdq') = Len(cmdq) + Len(tail)
            /\ \A i \in 1 .. Len(cmdq') :
                 cmdq'[i] = IF i <= Len(cmdq) THEN cmdq[i] ELSE tail[i - Len(cmdq)]
        BY <2>2, <4>1
      <4>3. \A i \in 1 .. Len(tail) : tail[i] = OtherCmd
        BY <4>1
      <4>4. ASSUME NEW i \in 1 .. Len(cmdq') PROVE cmdq'[i] \in RowsOf(cmdq) \cup {OtherCmd}
        <5>1. CASE i <= Len(cmdq)
          BY <4>2, <5>1 DEF RowsOf
        <5>2. CASE i > Len(cmdq)
          <6>1. i - Len(cmdq) \in 1 .. Len(tail)
            BY <4>2, <5>2
          <6> QED
            BY <4>2, <4>3, <5>2, <6>1
        <5> QED
          BY <4>2, <5>1, <5>2
      <4> QED
        BY <4>4 DEF RowsOf
    <3>2. sent \in Int
      BY <2>2, MainWindowAssumption, DutAssumption
    <3>3. CASE sent < 0
      <4>1. tail = << >>
        BY <3>2, <3>3
      <4> HIDE DEF tail
      <4>2. cmdq \o << >> = cmdq
        BY <2>2
      <4> QED
        BY <2>2, <4>1, <4>2
    <3> QED
      BY <3>1, <3>2, <3>3
  <2>4. UNCHANGED <<plugged, flash, respq, device, loopVars, uiVars, outVars>>
    BY <2>1 DEF OnSendClicked
  <2>5. device' # Stale
    BY <2>1, HandleAssumption DEF OnSendClicked
  <2>6. OtherCmd.id # "SN"
    BY DEF OtherCmd
  <2> HIDE DEF room, sent, tail
  <2> QED
    BY <1>1, <2>3, <2>4, <2>5, <2>6, IdleRecord DEF loopVars, uiVars, outVars
<1>3. ASSUME UNCHANGED dutVars, device' # Stale \/ UNCHANGED device, depth' = depth,
             UNCHANGED <<snMode, saved, nextSerial, csv>>
      PROVE  RecordInv'
  BY <1>1, <1>3, IdleRecord DEF dutVars
<1>4. ~SendClicked => <1>3!1 /\ <1>3!2 /\ <1>3!3 /\ <1>3!4
  <2>1. CASE OnConnectClicked
    BY <2>1, HandleAssumption
       DEF OnConnectClicked, OpenResults, DeviceExists, RecordHyp, TypeInv, TypeOK, DutTypeOK,
           loopVars, uiVars, outVars
  <2>2. CASE OnDisconnectClicked \/ EditUsbFields
    BY <2>2, HandleAssumption
       DEF OnDisconnectClicked, EditUsbFields, loopVars, uiVars, outVars
  <2>3. CASE OnStartAutoSnClicked
    BY <2>3, RaisedSame DEF OnStartAutoSnClicked, outVars
  <2>4. CASE OnStopAutoSnClicked \/ TickBadConfig
    BY <2>4, HandleAssumption DEF OnStopAutoSnClicked, TickBadConfig, StopAuto, outVars
  <2>5. CASE TickNoDevice
    BY <2>5, HandleAssumption DEF TickNoDevice, loopVars, outVars
  <2>6. CASE TickArmed
    BY <2>6 DEF TickArmed, vars, loopVars, uiVars, outVars
  <2> QED
    BY <2>1, <2>2, <2>3, <2>4, <2>5, <2>6
<1> QED
  BY <1>2, <1>3, <1>4

\* There is no dialog to close.
LEMMA NoDialog == RecordHyp => ~(OnSnSettingsClicked \/ Dialog \/ DialogReturns)
PROOF
<1> SUFFICES ASSUME RecordHyp PROVE ~(OnSnSettingsClicked \/ Dialog \/ DialogReturns)
  OBVIOUS
<1>1. ~OnSnSettingsClicked
  BY DEF OnSnSettingsClicked, Click, RecordHyp, Undisturbed
<1>2. \A i \in 1 .. MaxDepth : i <= depth => i \in 1 .. depth
  BY Alone DEF RecordHyp, RecordInv
<1>3. ~Dialog
  BY <1>2 DEF Dialog, CloseDialog, RecordHyp, RecordInv, CounterInv
<1>4. ~DialogReturns
  BY Alone DEF DialogReturns, RecordHyp, RecordInv
<1> QED
  BY <1>1, <1>3, <1>4

\* An answer that the unit gives to a waiting slot reports the number that
\* slot writes, whichever command it belongs to.
LEMMA PollRecord == RecordHyp /\ Poll => RecordInv'
PROOF
<1> SUFFICES ASSUME RecordHyp, Poll PROVE RecordInv'
  OBVIOUS
<1> DEFINE f == frame[1]
           p == Head(respq)
           g == [f EXCEPT !.resp = p, !.quit = TRUE]
<1>1. /\ device \in Units /\ respq # << >> /\ respq' = Tail(respq) /\ Deliver(p)
      /\ UNCHANGED <<depth, plugged, flash, cmdq, device, snMode, saved, nextSerial, csv>>
  BY DEF Poll, PollRead, Deliver, uiVars, outVars
<1>2. respq \in Seq(Packets) /\ p \in RowsOf(respq) /\ RowsOf(respq') \subseteq RowsOf(respq)
      /\ p \in Packets
  BY <1>1, RowsOfLemma DEF RecordHyp, TypeInv, TypeOK, DutTypeOK
<1>3. device # Stale /\ device = plugged
  BY <1>1, HandleAssumption DEF RecordHyp, TypeInv, WireOK
<1>4. ASSUME depth = 1
      PROVE  /\ f.pc \in Waiting /\ frame'[1] = g
             /\ g.pc = f.pc /\ g.mac = f.mac /\ g.serial = f.serial /\ g.guarded = f.guarded
             /\ g.resp = p /\ g.kind = f.kind
  <2>1. f \in Frames /\ f.pc # "exec" /\ 1 \in 1 .. MaxDepth
    BY <1>4, Alone DEF RecordHyp, RecordInv
  <2>2. f.pc \in Waiting
    BY <1>4, <2>1 DEF Poll, PollRead, EventLoopRuns
  <2>3. frame'[1] = g
    <3> HIDE DEF p
    <3>1. 1 <= depth
      BY <1>4
    <3>2. frame'[1] = IF 1 <= depth /\ f.pc \in Waiting THEN g ELSE f
      BY <1>1, <2>1, Zenon DEF Deliver
    <3> QED
      BY <2>2, <3>1, <3>2
  <2>4. /\ g.pc = f.pc /\ g.mac = f.mac /\ g.serial = f.serial /\ g.guarded = f.guarded
        /\ g.resp = p /\ g.kind = f.kind
    BY <2>1 DEF Frames
  <2> QED
    BY <2>2, <2>3, <2>4
<1> HIDE DEF g
<1>5. \A i \in 1 .. depth : depth = 1 /\ i = 1
  BY Alone DEF RecordHyp, RecordInv
<1>6. CounterInv'
  BY <1>1, <1>4, <1>5 DEF RecordHyp, RecordInv, CounterInv, Taken
<1>7. ASSUME snMode.preventDuplicate PROVE WireInv' /\ FlightInv' /\ RowsTrue'
  <2>1. WireInv'
    BY <1>1, <1>2, <1>7, SameWire DEF RecordHyp, RecordInv
  <2>2. ASSUME depth = 1 PROVE FlightOK(frame[1])'
    <3>1. FlightOK(f) /\ p.mac = plugged /\ (SnDone(p) => Owed(flash[plugged]))
      BY <1>2, <1>7, <2>2 DEF RecordHyp, RecordInv, FlightInv, WireInv
    <3>2. ASSUME f.pc = "writeWait", CheckRaceGeneralSuccess(SnCmd(f.serial), p)
          PROVE  flash[f.mac] = f.serial
      <4>1. SnDone(p)
        BY <3>2 DEF SnDone, CheckRaceGeneralSuccess, SnCmd
      <4>2. f.mac = plugged /\ \A s : Owed(s) => s = f.serial
        BY <1>3, <1>7, <2>2, <3>2, OwedInFlight DEF RecordHyp, Searched
      <4> QED
        BY <3>1, <4>1, <4>2
    <3> QED
      BY <1>1, <1>4, <2>2, <3>1, <3>2 DEF FlightOK, Burnt, Waiting
  <2>3. FlightInv'
    BY <1>1, <1>5, <2>2 DEF FlightInv
  <2> QED
    BY <1>1, <1>7, <2>1, <2>3 DEF RecordHyp, RecordInv, RowsTrue
<1> QED
  BY <1>1, <1>6, <1>7 DEF RecordInv

LEMMA TimeoutRecord == RecordHyp /\ Timeout => RecordInv'
PROOF
<1> SUFFICES ASSUME RecordHyp, Timeout PROVE RecordInv'
  OBVIOUS
<1> DEFINE f == frame[1]
           g == [f EXCEPT !.quit = TRUE]
<1>1. UNCHANGED <<dutVars, depth, device, snMode, saved, nextSerial, csv>>
  BY DEF Timeout, Timer, RequestTimeout, uiVars, outVars
<1>2. depth = 1 /\ 1 \in 1 .. MaxDepth /\ 1 \in 1 .. depth /\ f \in Frames
      /\ frame' = [frame EXCEPT ![1].quit = TRUE]
  <2>1. PICK i \in 1 .. MaxDepth : i <= depth /\ frame' = [frame EXCEPT ![i].quit = TRUE]
    BY DEF Timeout, Timer, RequestTimeout
  <2>2. i = 1 /\ depth = 1
    BY <2>1, Alone DEF RecordHyp, RecordInv
  <2> QED
    BY <2>1, <2>2, Alone DEF RecordHyp, RecordInv
<1>3. frame'[1] = g
  BY <1>2 DEF RecordHyp, TypeInv, TypeOK, LoopTypeOK
<1>4. /\ g.pc = f.pc /\ g.mac = f.mac /\ g.serial = f.serial /\ g.guarded = f.guarded
      /\ g.resp = f.resp /\ g.kind = f.kind
  BY <1>2 DEF Frames
<1> HIDE DEF g
<1>5. CounterInv'
  BY <1>1, <1>2, <1>3, <1>4 DEF RecordHyp, RecordInv, CounterInv, Taken
<1>6. ASSUME snMode.preventDuplicate PROVE WireInv' /\ FlightInv' /\ RowsTrue'
  <2>1. WireInv'
    BY <1>1, <1>6, SameWire DEF RecordHyp, RecordInv, dutVars
  <2>2. FlightOK(frame[1])'
    <3>1. FlightOK(f)
      BY <1>2, <1>6 DEF RecordHyp, RecordInv, FlightInv
    <3> QED
      BY <1>1, <1>3, <1>4, <3>1 DEF FlightOK, Burnt, dutVars
  <2>3. FlightInv'
    BY <1>1, <1>2, <2>2 DEF FlightInv
  <2> QED
    BY <1>1, <1>6, <2>1, <2>3 DEF RecordHyp, RecordInv, RowsTrue, dutVars
<1> QED
  BY <1>1, <1>5, <1>6 DEF RecordInv

\* A unit comes with empty buffers, and takes what was in them away.
LEMMA PlugRecord == RecordHyp /\ (PlugAny \/ Unplug) => RecordInv'
PROOF
<1> SUFFICES ASSUME RecordHyp, PlugAny \/ Unplug PROVE RecordInv'
  OBVIOUS
<1>1. UNCHANGED <<loopVars, flash, snMode, saved, nextSerial, csv>>
  BY DEF PlugAny, Plug, PlugIn, Unplug, PullOut, uiVars, outVars
<1>2. device' \notin Units /\ (device # Closed => device' # Closed)
  BY HandleAssumption, DutAssumption
     DEF PlugAny, Plug, PlugIn, Unplug, PullOut, HandleAfterPull, RecordHyp, TypeInv, WireOK
<1>3. CounterInv'
  BY <1>1 DEF RecordHyp, RecordInv, CounterInv, Taken, loopVars
<1>4. ASSUME snMode.preventDuplicate PROVE WireInv' /\ FlightInv' /\ RowsTrue'
  <2>1. cmdq' = << >> /\ RowsOf(respq') = {}
    <3>1. CASE PlugAny
      <4>1. plugged = NoUnit /\ UNCHANGED <<cmdq, respq>>
        BY <3>1 DEF PlugAny, Plug, PlugIn
      <4>2. RowsOf(respq) \subseteq Packets
        BY RowsOfLemma DEF RecordHyp, TypeInv, TypeOK, DutTypeOK
      <4>3. \A p \in RowsOf(respq) : p.mac = NoUnit /\ p.mac \in Units
        BY <1>4, <4>1, <4>2 DEF RecordHyp, RecordInv, WireInv, Packets
      <4> QED
        BY <4>1, <4>3, DutAssumption DEF RecordHyp, TypeInv, WireOK
    <3>2. CASE Unplug
      BY <3>2 DEF Unplug, PullOut, RowsOf
    <3> QED
      BY <3>1, <3>2
  <2>2. RowsOf(cmdq') = {}
    BY <2>1 DEF RowsOf
  <2>3. WireInv'
    BY <2>1, <2>2 DEF WireInv
  <2>4. FlightInv'
    BY <1>1, <1>2, <1>4
       DEF RecordHyp, RecordInv, FlightInv, FlightOK, Burnt, loopVars
  <2> QED
    BY <1>1, <1>4, <2>3, <2>4 DEF RecordHyp, RecordInv, RowsTrue
<1> QED
  BY <1>1, <1>3, <1>4 DEF RecordInv

\* A command that is run late writes what the unit is owed, which is what it
\* already holds if it has a row, and what is being written if it has none.
LEMMA RunCommandRecord == RecordHyp /\ RunCommand /\ Firmware => RecordInv'
PROOF
<1> SUFFICES ASSUME RecordHyp, RunCommand, Firmware PROVE RecordInv'
  OBVIOUS
<1> DEFINE c == Head(cmdq)
<1>1. UNCHANGED <<plugged, device, depth, frame, snMode, saved, nextSerial, csv>>
      /\ cmdq # << >> /\ cmdq' = Tail(cmdq)
  BY DEF RunCommand, Firmware, loopVars, uiVars, outVars
<1>2. /\ cmdq \in Seq(Commands) /\ c \in RowsOf(cmdq) /\ RowsOf(cmdq') \subseteq RowsOf(cmdq)
      /\ respq \in Seq(Packets) /\ flash \in [Units -> Serials \cup {NoSerial}] /\ c \in Commands
  BY <1>1, RowsOfLemma DEF RecordHyp, TypeInv, TypeOK, DutTypeOK
<1>3. plugged \in Units
  BY <1>1 DEF RecordHyp, TypeInv, TypeOK, DutTypeOK, WireOK
<1> HIDE DEF c
<1>4. CounterInv'
  BY <1>1 DEF RecordHyp, RecordInv, CounterInv, Taken
<1>5. ASSUME snMode.preventDuplicate PROVE WireInv' /\ FlightInv' /\ RowsTrue'
  <2>1. PICK status \in BOOLEAN :
          /\ flash' = IF c.id = "SN" /\ status
                      THEN [flash EXCEPT ![plugged] = c.serial] ELSE flash
          /\ respq' = Append(respq, Answer(c, status)) \/ respq' = respq
    BY DEF RunCommand, c
  <2> DEFINE done == c.id = "SN" /\ status
  <2>2. done => /\ flash'[plugged] = c.serial /\ Owed(c.serial)
                /\ \A u \in Units : u # plugged => flash'[u] = flash[u]
    BY <1>2, <1>3, <1>5, <2>1 DEF RecordHyp, RecordInv, WireInv
  <2>3. ~done => flash' = flash
    BY <2>1
  <2>4. \A s : Owed(s) => Owed(s)'
    BY <1>1, SameOwed
  <2>5. device # Stale
    BY <1>1, <1>5 DEF RecordHyp, RecordInv, WireInv
  <2>6. WireInv'
    <3>1. Answer(c, status) \in Packets /\ (SnDone(Answer(c, status)) <=> done)
          /\ Answer(c, status).mac = plugged
      BY <1>2, <1>3 DEF Answer, SnDone, Packets, Commands
    <3>2. RowsOf(respq') \subseteq RowsOf(respq) \cup {Answer(c, status)}
      <4>1. \A e \in Packets : RowsOf(Append(respq, e)) = RowsOf(respq) \cup {e}
        BY <1>2, RowsOfLemma
      <4> QED
        BY <2>1, <3>1, <4>1
    <3>3. \A p \in RowsOf(respq') : p.mac = plugged /\ (SnDone(p) => Owed(flash'[plugged]))
      BY <1>5, <2>2, <2>3, <3>1, <3>2 DEF RecordHyp, RecordInv, WireInv
    <3>4. \A p \in RowsOf(respq') : SnDone(p) => Owed(flash[plugged])'
      <4>1. flash'[plugged'] = flash'[plugged]
        BY <1>1
      <4>2. ASSUME Owed(flash'[plugged]) PROVE Owed(flash[plugged])'
        BY <1>1, <4>2 DEF Owed, HasRow, Taken, NextSn
      <4> QED
        BY <3>3, <4>2
    <3> QED
      BY <1>1, <1>2, <1>5, <2>4, <2>5, <3>3, <3>4 DEF RecordHyp, RecordInv, WireInv
  <2>7. FlightInv'
    <3>1. ASSUME depth = 1 PROVE FlightOK(frame[1])'
      <4>1. FlightOK(frame[1]) /\ FrameOK(frame[1])
        BY <1>5, <3>1, Alone DEF RecordHyp, RecordInv, FlightInv
      <4>2. Burnt(frame[1]) => frame[1].pc \in Searched /\ frame[1].mac \in Units
        BY <4>1 DEF Burnt, Searched, FrameOK
      <4>3. ASSUME done, Burnt(frame[1]) PROVE flash'[frame[1].mac] = frame[1].serial
        BY <1>5, <2>2, <2>5, <3>1, <4>2, <4>3, OwedInFlight DEF RecordHyp
      <4> HIDE DEF done
      <4> QED
        BY <1>1, <2>3, <4>1, <4>3 DEF FlightOK, Burnt
    <3>2. \A i \in 1 .. depth : depth = 1 /\ i = 1
      BY Alone DEF RecordHyp, RecordInv
    <3> QED
      BY <1>1, <3>1, <3>2 DEF FlightInv
  <2>8. RowsTrue'
    <3> SUFFICES ASSUME NEW r \in RowsOf(csv), done PROVE flash'[r.mac] = r.serial
      BY <1>1, <1>5, <2>3 DEF RecordHyp, RecordInv, RowsTrue
    <3>1. r.mac \in Units /\ flash[r.mac] = r.serial
      <4>1. RowsOf(csv) \subseteq Rows
        BY RowsOfLemma DEF RecordHyp, TypeInv, TypeOK
      <4> QED
        BY <1>5, <4>1 DEF Rows, RecordHyp, RecordInv, RowsTrue
    <3>2. CASE r.mac # plugged
      BY <2>2, <3>1, <3>2
    <3>3. CASE r.mac = plugged
      <4>1. HasRow(plugged, c.serial)
        BY <2>2, <3>3 DEF Owed, IsDuplicateRecord
      <4>2. flash[plugged] = c.serial
        BY <1>5, <4>1 DEF HasRow, RecordHyp, RecordInv, RowsTrue
      <4> QED
        BY <2>2, <3>1, <3>3, <4>2
    <3> QED
      BY <3>2, <3>3
  <2> QED
    BY <2>6, <2>7, <2>8
<1> QED
  BY <1>1, <1>4, <1>5 DEF RecordInv

LEMMA NotifyRecord == RecordHyp /\ Notify /\ Firmware => RecordInv'
PROOF
<1> SUFFICES ASSUME RecordHyp, Notify, Firmware PROVE RecordInv'
  OBVIOUS
<1> DEFINE p == [type |-> "5D", id |-> "OTHER", ok |-> TRUE, mac |-> plugged]
<1>1. UNCHANGED <<plugged, flash, cmdq, device, depth, frame, snMode, saved, nextSerial, csv>>
      /\ respq' = Append(respq, p) /\ plugged # NoUnit
  BY DEF Notify, Firmware, loopVars, uiVars, outVars
<1>2. p \in Packets /\ p.mac = plugged /\ ~SnDone(p) /\ respq \in Seq(Packets)
  BY <1>1 DEF SnDone, Packets, RaceIds, RecordHyp, TypeInv, TypeOK, DutTypeOK
<1> HIDE DEF p
<1>3. RowsOf(respq') = RowsOf(respq) \cup {p}
  BY <1>1, <1>2, RowsOfLemma
<1>4. CounterInv'
  BY <1>1 DEF RecordHyp, RecordInv, CounterInv, Taken
<1>5. ASSUME snMode.preventDuplicate PROVE WireInv' /\ FlightInv' /\ RowsTrue'
  <2>1. \A s : Owed(s) => Owed(s)'
    BY <1>1, SameOwed
  <2>2. WireInv'
    BY <1>1, <1>2, <1>3, <1>5, <2>1 DEF RecordHyp, RecordInv, WireInv
  <2>3. FlightInv'
    BY <1>1, <1>5 DEF RecordHyp, RecordInv, FlightInv, FlightOK
  <2> QED
    BY <1>1, <1>5, <2>2, <2>3 DEF RecordHyp, RecordInv, RowsTrue
<1> QED
  BY <1>1, <1>4, <1>5 DEF RecordInv

\* After a restart the counter is back at the first number.  If that is not
\* where it stood, the first number is taken.
LEMMA RestartRecord == RecordHyp /\ Restart => RecordInv'
PROOF
<1> SUFFICES ASSUME RecordHyp, Restart PROVE RecordInv'
  OBVIOUS
<1>1. /\ depth' = 0 /\ device' = Closed /\ snMode' = snMode /\ nextSerial' = FirstSerial(snMode)
      /\ UNCHANGED <<plugged, flash, cmdq, respq, saved, csv>> /\ saved = snMode
  BY DEF Restart, dutVars, RecordHyp, RecordInv, CounterInv
<1>2. CounterInv'
  <2>1. snMode.validStart => snMode.start <= nextSerial'
    BY <1>1, SettingsAssumption DEF FirstSerial, RecordHyp, TypeInv, TypeOK, SettingsType
  <2> QED
    BY <1>1, <2>1 DEF CounterInv, FirstSerial
<1>3. \A s : Owed(s) => Owed(s)'
  <2>1. Taken(NextSn) => Taken(NextSn)'
    BY <1>1 DEF RecordHyp, RecordInv, CounterInv, Taken, NextSn
  <2>2. NextSn' = NextSn \/ Taken(NextSn)'
    BY <1>1 DEF RecordHyp, RecordInv, CounterInv, Taken, NextSn
  <2>3. UNCHANGED <<plugged, csv>>
    BY <1>1
  <2> QED
    BY <2>1, <2>2, <2>3 DEF Owed, HasRow
<1>4. snMode.preventDuplicate => WireInv'
  BY <1>1, <1>3, HandleAssumption DEF RecordHyp, RecordInv, WireInv
<1>5. FlightInv' /\ (snMode.preventDuplicate => RowsTrue')
  BY <1>1 DEF RecordHyp, RecordInv, FlightInv, RowsTrue
<1> QED
  BY <1>1, <1>2, <1>4, <1>5 DEF RecordInv

LEMMA RecordStep == RecordHyp /\ [Next]_vars => RecordInv'
PROOF
<1> SUFFICES ASSUME RecordHyp, [Next]_vars PROVE RecordInv'
  OBVIOUS
<1>1. CASE UNCHANGED vars
  BY <1>1
     DEF RecordHyp, RecordInv, CounterInv, WireInv, FlightInv, FlightOK, Burnt, RowsTrue,
         Owed, HasRow, Taken, NextSn, vars, dutVars, loopVars, uiVars, outVars
<1>2. CASE Firmware
  BY <1>2, RunCommandRecord, NotifyRecord DEF Firmware
<1>3. CASE Next /\ ~Firmware
  BY <1>3, MacReturnsRecord, WriteReturnsRecord, CommitRecordRecord, WritesRecord, IdleSlots,
     NoDialog, PollRecord, TimeoutRecord, PlugRecord, RestartRecord
     DEF Next, OnAutoSnTick
<1> QED
  BY <1>1, <1>2, <1>3

LEMMA RecordInvariant == ASSUME Undisturbed PROVE Spec => []RecordInv
PROOF
<1>1. Careful
  BY DEF Undisturbed
<1>2. TypeInv /\ FlowInv /\ RecordInv /\ [Next]_vars => RecordInv'
  BY RecordStep DEF RecordHyp
<1>3. Spec => []FlowInv
  BY <1>1, FlowInvariant
<1> QED
  BY <1>2, <1>3, InitRecord, TypeInvariant, PTL DEF Spec
-----------------------------------------------------------------------------
(* What few steps change.                                                  *)

\* Rows are appended by CommitRecord alone; the settings stay, and the counter
\* moves only with a row or back with a restart.
LEMMA OnlyCommit ==
  RecordHyp /\ [Next]_vars =>
    /\ UNCHANGED snMode
    /\ CommitRecord \/ UNCHANGED csv
    /\ CommitRecord \/ Restart \/ UNCHANGED nextSerial
PROOF
<1> SUFFICES ASSUME RecordHyp, [Next]_vars
             PROVE  /\ UNCHANGED snMode
                    /\ CommitRecord \/ UNCHANGED csv
                    /\ CommitRecord \/ Restart \/ UNCHANGED nextSerial
  OBVIOUS
<1>1. CASE CommitRecord
  BY <1>1 DEF CommitRecord
<1>2. CASE Restart
  BY <1>2 DEF Restart, RecordHyp, RecordInv, CounterInv
<1>3. CASE MacReturns \/ WriteReturns \/ PrintLabel \/ OnConnectClicked \/ OnDisconnectClicked
           \/ EditUsbFields \/ OnStopAutoSnClicked
  BY <1>3
     DEF MacReturns, WriteReturns, PrintLabel, OnConnectClicked, OnDisconnectClicked,
         EditUsbFields, OnStopAutoSnClicked, StopAuto, uiVars, outVars
<1>4. CASE SendClicked \/ OnStartAutoSnClicked
  BY <1>4, RaisedSame DEF SendClicked, OnSendClicked, OnStartAutoSnClicked, uiVars, outVars
<1>5. CASE OnWriteNextSerialClicked
  BY <1>5, RaisedSame DEF OnWriteNextSerialClicked, BeginWrite, uiVars, outVars
<1>6. CASE OnAutoSnTick
  BY <1>6, RaisedSame
     DEF OnAutoSnTick, TickBadConfig, TickNoDevice, TickArmed, TickWrites, BeginWrite,
         StopAuto, vars, uiVars, outVars
<1>7. CASE Poll \/ Timeout \/ PlugAny \/ Unplug \/ Firmware \/ UNCHANGED vars
  BY <1>7 DEF Poll, Timeout, Timer, PlugAny, Plug, Unplug, Firmware, vars, uiVars, outVars
<1> QED
  BY <1>1, <1>2, <1>3, <1>4, <1>5, <1>6, <1>7, NoDialog DEF Next

\* Labels come from PrintLabel alone.
LEMMA OnlyPrint == [Next]_vars => PrintLabel \/ UNCHANGED labels
PROOF
<1> SUFFICES ASSUME [Next]_vars PROVE PrintLabel \/ UNCHANGED labels
  OBVIOUS
<1>1. CASE MacReturns \/ WriteReturns \/ CommitRecord \/ OnConnectClicked \/ OnDisconnectClicked
           \/ EditUsbFields \/ OnStopAutoSnClicked \/ SendClicked \/ OnStartAutoSnClicked
  BY <1>1
     DEF MacReturns, WriteReturns, CommitRecord, OnConnectClicked, OnDisconnectClicked,
         EditUsbFields, OnStopAutoSnClicked, StopAuto, SendClicked, OnSendClicked,
         OnStartAutoSnClicked, outVars
<1>2. CASE OnWriteNextSerialClicked
  BY <1>2 DEF OnWriteNextSerialClicked, BeginWrite, outVars
<1>3. CASE OnAutoSnTick
  BY <1>3
     DEF OnAutoSnTick, TickBadConfig, TickNoDevice, TickArmed, TickWrites, BeginWrite,
         StopAuto, vars, outVars
<1>4. CASE OnSnSettingsClicked \/ Dialog \/ DialogReturns
  BY <1>4 DEF OnSnSettingsClicked, Dialog, CloseDialog, DialogReturns, outVars
<1>5. CASE Poll \/ Timeout \/ PlugAny \/ Unplug \/ Firmware \/ Restart \/ UNCHANGED vars
  BY <1>5 DEF Poll, Timeout, Timer, PlugAny, Plug, Unplug, Firmware, Restart, vars, outVars
<1> QED
  BY <1>1, <1>2, <1>3, <1>4, <1>5 DEF Next

\* A flash is written by the firmware alone.
LEMMA OnlyFirmware == [Next]_vars => (RunCommand /\ Firmware) \/ UNCHANGED flash
PROOF
<1> SUFFICES ASSUME [Next]_vars PROVE (RunCommand /\ Firmware) \/ UNCHANGED flash
  OBVIOUS
<1>1. CASE MacReturns \/ WriteReturns \/ PrintLabel \/ CommitRecord
           \/ OnConnectClicked \/ OnDisconnectClicked
           \/ EditUsbFields \/ OnStopAutoSnClicked \/ SendClicked \/ OnStartAutoSnClicked
  BY <1>1
     DEF MacReturns, WriteReturns, PrintLabel, CommitRecord, OnConnectClicked,
         OnDisconnectClicked, EditUsbFields, OnStopAutoSnClicked, StopAuto, SendClicked,
         OnSendClicked, OnStartAutoSnClicked, dutVars
<1>2. CASE OnWriteNextSerialClicked
  BY <1>2 DEF OnWriteNextSerialClicked, BeginWrite, dutVars
<1>3. CASE OnAutoSnTick
  BY <1>3
     DEF OnAutoSnTick, TickBadConfig, TickNoDevice, TickArmed, TickWrites, BeginWrite,
         StopAuto, vars, dutVars
<1>4. CASE OnSnSettingsClicked \/ Dialog \/ DialogReturns
  BY <1>4 DEF OnSnSettingsClicked, Dialog, CloseDialog, DialogReturns, dutVars
<1>5. CASE Poll \/ Timeout \/ Restart \/ UNCHANGED vars
  BY <1>5 DEF Poll, PollRead, Timeout, Timer, Restart, vars, dutVars
<1>6. CASE PlugAny \/ Unplug \/ Firmware
  BY <1>6 DEF PlugAny, Plug, PlugIn, Unplug, PullOut, Firmware, Notify
<1> QED
  BY <1>1, <1>2, <1>3, <1>4, <1>5, <1>6 DEF Next

\* A row, once there, stays.
LEMMA RowsGrow ==
  ASSUME TypeInv, CommitRecord \/ UNCHANGED csv, NEW u, NEW s, HasRow(u, s)
  PROVE  HasRow(u, s)'
PROOF
<1>1. CASE csv' = Append(csv, RowOf(frame[depth]))
  <2> DEFINE r == RowOf(frame[depth])
  <2>1. csv \in Seq(Rows) /\ Len(csv) \in Nat
    BY DEF TypeInv, TypeOK
  <2> HIDE DEF r
  <2>2. Len(csv') = Len(csv) + 1 /\ \A i \in 1 .. Len(csv) : csv'[i] = csv[i]
    BY <1>1, <2>1 DEF r
  <2>3. RowsOf(csv) \subseteq RowsOf(csv)'
    BY <2>1, <2>2 DEF RowsOf
  <2> QED
    BY <2>3 DEF HasRow
<1>2. CASE UNCHANGED csv
  BY <1>2 DEF HasRow
<1> QED
  BY <1>1, <1>2 DEF CommitRecord, AppendCsvRecord

\* Between the label and the row nothing else runs: the slot is in no event
\* loop, and only a crash could part the two.
LEMMA LabelStep ==
  RecordHyp /\ LabelInv /\ "crash" \notin Faults /\ [Next]_vars => LabelInv'
PROOF
<1> SUFFICES ASSUME RecordHyp, LabelInv, "crash" \notin Faults, [Next]_vars PROVE LabelInv'
  OBVIOUS
<1> DEFINE f == frame[1]
<1>1. \A u, s : HasRow(u, s) => HasRow(u, s)'
  BY OnlyCommit, RowsGrow DEF RecordHyp
<1>2. \A l \in labels :
        HasRow(l[1], l[2]) \/ (depth = 1 /\ f.pc = "commit" /\ f.mac = l[1] /\ f.serial = l[2])
  BY Alone DEF LabelInv, RecordHyp, RecordInv
<1>3. CASE PrintLabel
  <2> DEFINE g == [f EXCEPT !.pc = "commit"]
  <2>1. depth = 1 /\ f.pc = "print" /\ f \in Frames /\ 1 \in 1 .. depth /\ 1 \in 1 .. MaxDepth
    BY <1>3, Alone DEF PrintLabel, RecordHyp, RecordInv
  <2>2. g.pc = "commit" /\ g.mac = f.mac /\ g.serial = f.serial
    BY <2>1 DEF Frames
  <2>3. depth' = 1 /\ frame'[1] = g
    BY <1>3, <2>1 DEF PrintLabel, Continue, RecordHyp, TypeInv, TypeOK, LoopTypeOK
  <2> HIDE DEF g
  <2>4. labels' \subseteq labels \cup {<<f.mac, f.serial>>}
    BY <1>3, <2>1 DEF PrintLabel, PrintSerialLabel
  <2> QED
    BY <1>1, <1>2, <2>1, <2>2, <2>3, <2>4 DEF LabelInv
<1>4. CASE UNCHANGED labels /\ ~(depth = 1 /\ f.pc = "commit")
  BY <1>1, <1>2, <1>4 DEF LabelInv
<1>5. CASE UNCHANGED labels /\ depth = 1 /\ f.pc = "commit"
  <2>1. 1 \in 1 .. depth /\ f.pc \notin Waiting \cup {"exec"} /\ ~EventLoopRuns
    BY <1>5 DEF EventLoopRuns, Waiting
  <2>2. CASE CommitRecord
    <3> DEFINE r == RowOf(f)
    <3>1. csv' = Append(csv, r)
      BY <1>5, <2>2 DEF CommitRecord, AppendCsvRecord, RecordHyp, Undisturbed
    <3>2. f \in Frames /\ FrameOK(f)
      BY <1>5, Alone DEF RecordHyp, RecordInv
    <3>3. r \in Rows /\ csv \in Seq(Rows) /\ r.mac = f.mac /\ r.serial = f.serial
      BY <1>5, <3>2
         DEF RowOf, Rows, Frames, FrameOK, Writing, Searched, RecordHyp, TypeInv, TypeOK
    <3> HIDE DEF r
    <3>4. RowsOf(csv') = RowsOf(csv) \cup {r}
      BY <3>1, <3>3, RowsOfLemma
    <3>5. \A u, s : u = f.mac /\ s = f.serial => HasRow(u, s)'
      BY <3>3, <3>4 DEF HasRow
    <3> QED
      BY <1>1, <1>2, <1>5, <3>5 DEF LabelInv
  <2>3. CASE UNCHANGED loopVars
    BY <1>1, <1>2, <1>5, <2>1, <2>3 DEF LabelInv, loopVars
  <2>4. CASE Next /\ ~CommitRecord
    <3>1. ~(MacReturns \/ WriteReturns \/ PrintLabel)
      BY <1>5 DEF MacReturns, WriteReturns, PrintLabel
    <3>2. ~(OnConnectClicked \/ OnDisconnectClicked \/ SendClicked \/ OnWriteNextSerialClicked
              \/ OnStartAutoSnClicked \/ OnStopAutoSnClicked \/ EditUsbFields)
      BY <2>1
         DEF OnConnectClicked, OnDisconnectClicked, SendClicked, OnSendClicked, ManualClick,
             OnWriteNextSerialClicked, OnStartAutoSnClicked, OnStopAutoSnClicked,
             EditUsbFields, Click
    <3>3. ~(OnAutoSnTick \/ Poll \/ Timeout)
      BY <2>1
         DEF OnAutoSnTick, TickBadConfig, TickNoDevice, TickArmed, TickWrites, TickFires,
             Poll, PollRead, Timeout, Timer, RequestTimeout
    <3>4. ~Restart
      BY <1>5 DEF Restart
    <3>5. PlugAny \/ Unplug \/ Firmware
      BY <2>4, <3>1, <3>2, <3>3, <3>4, NoDialog DEF Next
    <3> QED
      BY <2>3, <3>5 DEF PlugAny, Plug, Unplug, Firmware
  <2> QED
    BY <2>2, <2>3, <2>4 DEF vars
<1> QED
  BY <1>3, <1>4, <1>5, OnlyPrint
-----------------------------------------------------------------------------
(* The theorems.                                                           *)

\* With duplicate protection on, a unit that has a row holds the number of
\* that row, for good.  Lost, late, refused and stray answers, failed opens,
\* crashes and quick swaps are all allowed; it asks the careful operator, a
\* history that can be read and written, and settings that stay.
THEOREM RecordsAreTrueTheorem == ASSUME Undisturbed PROVE Spec => []RecordsAreTrue
PROOF
<1>1. RecordInv => RecordsAreTrue
  BY DEF RecordInv, RowsTrue, RecordsAreTrue
<1> QED
  BY <1>1, RecordInvariant, PTL

\* A label shows what the unit holds, if the tool cannot be killed between the
\* label and the row.
THEOREM LabelsAreTrueTheorem ==
  ASSUME Undisturbed, "crash" \notin Faults PROVE Spec => []LabelsAreTrue
PROOF
<1>1. Init => LabelInv
  BY DEF Init, LabelInv
<1>2. TypeInv /\ FlowInv /\ RecordInv /\ LabelInv /\ [Next]_vars => LabelInv'
  BY LabelStep DEF RecordHyp
<1>3. RecordInv /\ LabelInv => LabelsAreTrue
  BY DEF RecordInv, LabelInv, LabelsAreTrue, HasRow, RowsTrue, FlightInv, FlightOK, Burnt
<1>4. Careful
  BY DEF Undisturbed
<1>5. Spec => []FlowInv
  BY <1>4, FlowInvariant
<1> QED
  BY <1>1, <1>2, <1>3, <1>5, RecordInvariant, TypeInvariant, PTL DEF Spec

\* The numbers in the history are consecutive, and the counter stands right
\* behind them, as long as the program runs and the start number is one.
THEOREM SerialsContiguousTheorem ==
  ASSUME Undisturbed, "crash" \notin Faults, "quit" \notin Faults,
         \A s \in Settings : s.validStart
  PROVE  Spec => []SerialsContiguous
PROOF
<1>1. Init => SerialsContiguous
  <2> SUFFICES ASSUME Init PROVE SerialsContiguous
    OBVIOUS
  <2>1. snMode \in Settings /\ snMode.start \in Nat /\ nextSerial = snMode.start /\ csv = << >>
    BY SettingsAssumption DEF Init, FirstSerial, SettingsType
  <2> QED
    BY <2>1 DEF SerialsContiguous
<1>2. TypeInv /\ FlowInv /\ RecordInv /\ SerialsContiguous /\ [Next]_vars => SerialsContiguous'
  <2> SUFFICES ASSUME RecordHyp, SerialsContiguous, [Next]_vars PROVE SerialsContiguous'
    BY DEF RecordHyp
  <2>1. ~Restart /\ snMode' = snMode
    BY OnlyCommit DEF Restart
  <2>2. CASE UNCHANGED <<csv, nextSerial>>
    BY <2>1, <2>2 DEF SerialsContiguous
  <2>3. CASE CommitRecord
    <3> DEFINE r == RowOf(frame[1])
    <3>1. depth = 1 /\ frame[1].serial = NextSn
      BY <2>3, Alone DEF CommitRecord, RecordHyp, RecordInv
    <3>2. csv' = Append(csv, r) /\ nextSerial' = Raised(snMode, nextSerial + 1)
      BY <2>3, <3>1
         DEF CommitRecord, AppendCsvRecord, AfterWrite, RecordHyp, Undisturbed
    <3>3. r.serial.num = nextSerial
      BY <3>1 DEF RowOf, NextSn, SerialOf
    <3>4. /\ csv \in Seq(Rows) /\ Len(csv) \in Nat /\ nextSerial \in Nat
          /\ snMode.start \in Nat /\ nextSerial = snMode.start + Len(csv)
      BY SettingsAssumption
         DEF RecordHyp, TypeInv, TypeOK, SettingsType, SerialsContiguous
    <3> HIDE DEF r
    <3>5. nextSerial' = nextSerial + 1
      BY <3>2, <3>4 DEF Raised
    <3>6. /\ Len(csv') = Len(csv) + 1
          /\ \A i \in 1 .. Len(csv') : csv'[i] = IF i = Len(csv) + 1 THEN r ELSE csv[i]
      BY <3>2, <3>4
    <3>7. ASSUME NEW i \in 1 .. Len(csv') PROVE csv'[i].serial.num = snMode.start + i - 1
      <4>1. CASE i = Len(csv) + 1
        BY <3>3, <3>4, <3>6, <4>1
      <4>2. CASE i # Len(csv) + 1
        <5>1. i \in 1 .. Len(csv) /\ csv'[i] = csv[i]
          BY <3>4, <3>6, <4>2
        <5> QED
          BY <5>1 DEF SerialsContiguous
      <4> QED
        BY <4>1, <4>2
    <3>8. nextSerial' = snMode'.start + Len(csv')
      <4> DEFINE b == snMode.start  m == Len(csv)
      <4>1. b \in Nat /\ m \in Nat /\ nextSerial = b + m /\ nextSerial' = nextSerial + 1
        BY <3>4, <3>5
      <4>2. snMode'.start = b /\ Len(csv') = m + 1
        BY <2>1, <3>6
      <4> HIDE DEF b, m
      <4> QED
        BY <4>1, <4>2
    <3>9. \A i \in 1 .. Len(csv') : csv'[i].serial.num = snMode'.start + i - 1
      BY <2>1, <3>7
    <3> QED
      BY <3>8, <3>9 DEF SerialsContiguous
  <2> QED
    BY <2>1, <2>2, <2>3, OnlyCommit
<1>3. Careful
  BY DEF Undisturbed
<1>4. Spec => []FlowInv
  BY <1>3, FlowInvariant
<1> QED
  BY <1>1, <1>2, <1>4, RecordInvariant, TypeInvariant, PTL DEF Spec
-----------------------------------------------------------------------------
(* The refinement of SerialLedger.                                         *)

\* The ledger the history stands for: the rows without the guarded mark.
LedgerOf(rows) == [i \in 1 .. Len(rows) |-> [mac |-> rows[i].mac, serial |-> rows[i].serial]]

LEMMA LedgerOfLemma ==
  ASSUME NEW rows \in Seq(Rows)
  PROVE  /\ LedgerOf(rows) \in Seq([mac : Units, serial : Serials])
         /\ Len(LedgerOf(rows)) = Len(rows)
         /\ \A i \in 1 .. Len(rows) :
              LedgerOf(rows)[i].mac = rows[i].mac /\ LedgerOf(rows)[i].serial = rows[i].serial
         /\ \A r \in Rows :
              LedgerOf(Append(rows, r))
                = Append(LedgerOf(rows), [mac |-> r.mac, serial |-> r.serial])
PROOF
<1>1. Len(rows) \in Nat /\ \A i \in 1 .. Len(rows) : rows[i] \in Rows
  OBVIOUS
<1>2. /\ LedgerOf(rows) \in Seq([mac : Units, serial : Serials])
      /\ Len(LedgerOf(rows)) = Len(rows)
      /\ \A i \in 1 .. Len(rows) :
           LedgerOf(rows)[i].mac = rows[i].mac /\ LedgerOf(rows)[i].serial = rows[i].serial
  BY <1>1 DEF LedgerOf, Rows
<1>3. ASSUME NEW r \in Rows
      PROVE  LedgerOf(Append(rows, r))
               = Append(LedgerOf(rows), [mac |-> r.mac, serial |-> r.serial])
  <2> DEFINE e == [mac |-> r.mac, serial |-> r.serial]
             new == Append(rows, r)
  <2>1. new \in Seq(Rows) /\ Len(new) = Len(rows) + 1
        /\ \A i \in 1 .. Len(rows) + 1 : new[i] = IF i = Len(rows) + 1 THEN r ELSE rows[i]
    BY <1>1
  <2>2. e \in [mac : Units, serial : Serials]
    BY DEF Rows
  <2> HIDE DEF e, new
  <2>3. LedgerOf(new) \in Seq([mac : Units, serial : Serials])
        /\ Len(LedgerOf(new)) = Len(rows) + 1
    BY <1>1, <2>1 DEF LedgerOf, Rows
  <2>4. Append(LedgerOf(rows), e) \in Seq([mac : Units, serial : Serials])
        /\ Len(Append(LedgerOf(rows), e)) = Len(rows) + 1
        /\ \A i \in 1 .. Len(rows) + 1 :
             Append(LedgerOf(rows), e)[i] = IF i = Len(rows) + 1 THEN e ELSE LedgerOf(rows)[i]
    BY <1>1, <1>2, <2>2
  <2>5. \A i \in 1 .. Len(rows) + 1 : LedgerOf(new)[i] = Append(LedgerOf(rows), e)[i]
    <3> SUFFICES ASSUME NEW i \in 1 .. Len(rows) + 1
                 PROVE  LedgerOf(new)[i] = Append(LedgerOf(rows), e)[i]
      OBVIOUS
    <3>1. LedgerOf(new)[i] = [mac |-> new[i].mac, serial |-> new[i].serial]
      BY <2>1 DEF LedgerOf
    <3>2. CASE i = Len(rows) + 1
      BY <2>1, <2>4, <3>1, <3>2 DEF e
    <3>3. CASE i # Len(rows) + 1
      <4>1. i \in 1 .. Len(rows)
        BY <1>1, <3>3
      <4>2. LedgerOf(rows)[i] = [mac |-> rows[i].mac, serial |-> rows[i].serial]
        BY <4>1 DEF LedgerOf
      <4> QED
        BY <2>1, <2>4, <3>1, <3>3, <4>2
    <3> QED
      BY <3>2, <3>3
  <2> QED
    BY <2>3, <2>4, <2>5, SeqEqual DEF e, new
<1> QED
  BY <1>2, <1>3

\* A unit or a number is in the ledger exactly if the search of the history
\* finds it.
LEMMA InLedgerLemma ==
  ASSUME csv \in Seq(Rows), NEW u, NEW s
  PROVE  Ledger!InLedger(u, s) <=> IsDuplicateRecord(RowsOf(csv), u, s)
PROOF
<1>1. /\ Len(LedgerOf(csv)) = Len(csv)
      /\ \A i \in 1 .. Len(csv) :
           LedgerOf(csv)[i].mac = csv[i].mac /\ LedgerOf(csv)[i].serial = csv[i].serial
  BY LedgerOfLemma
<1> QED
  BY <1>1 DEF Ledger!InLedger, LedgerOf, IsDuplicateRecord, RowsOf

\* The firmware runs a serial write: Burn, or nothing if the unit holds the
\* number already.
LEMMA BurnStep ==
  RecordHyp /\ snMode.preventDuplicate /\ RunCommand /\ Firmware
    => UNCHANGED <<flash, csv>> \/ \E u \in Units, s \in Serials : Ledger!Burn(u, s)
PROOF
<1> SUFFICES ASSUME RecordHyp, snMode.preventDuplicate, RunCommand, Firmware, UNCHANGED csv,
                    flash' # flash
             PROVE  \E u \in Units, s \in Serials : Ledger!Burn(u, s)
  BY DEF Firmware, outVars
<1> DEFINE c == Head(cmdq)
<1>1. c.id = "SN" /\ flash' = [flash EXCEPT ![plugged] = c.serial] /\ cmdq # << >>
  BY DEF RunCommand
<1>2. /\ c \in RowsOf(cmdq) /\ plugged \in Units /\ csv \in Seq(Rows)
      /\ flash \in [Units -> Serials \cup {NoSerial}]
  BY <1>1, RowsOfLemma DEF RecordHyp, TypeInv, TypeOK, DutTypeOK, WireOK
<1> HIDE DEF c
<1>3. c.serial \in Serials /\ Owed(c.serial)
  BY <1>1, <1>2 DEF RecordHyp, RecordInv, WireInv
<1>4. ~HasRow(plugged, c.serial)
  <2>1. ASSUME HasRow(plugged, c.serial) PROVE FALSE
    <3>1. flash[plugged] = c.serial
      BY <2>1 DEF HasRow, RecordHyp, RecordInv, RowsTrue
    <3> QED
      BY <1>1, <1>2, <3>1
  <2> QED
    BY <2>1
<1>5. ~Ledger!InLedger(plugged, c.serial)
  BY <1>2, <1>3, <1>4, InLedgerLemma DEF Owed
<1>6. Ledger!Burn(plugged, c.serial)
  BY <1>1, <1>5 DEF Ledger!Burn
<1> QED
  BY <1>2, <1>3, <1>6

\* The row is appended: Enter, with the unit and the number of the slot.
LEMMA EnterStep ==
  RecordHyp /\ snMode.preventDuplicate /\ CommitRecord
    => \E u \in Units, s \in Serials : Ledger!Enter(u, s)
PROOF
<1> SUFFICES ASSUME RecordHyp, snMode.preventDuplicate, CommitRecord
             PROVE  \E u \in Units, s \in Serials : Ledger!Enter(u, s)
  OBVIOUS
<1> DEFINE f == frame[1]
           r == RowOf(f)
<1>1. depth = 1 /\ f.pc = "commit" /\ f \in Frames /\ FrameOK(f) /\ 1 \in 1 .. depth
  BY Alone DEF RecordHyp, RecordInv, CommitRecord
<1>2. csv' = Append(csv, r) /\ UNCHANGED flash
  BY <1>1 DEF CommitRecord, AppendCsvRecord, dutVars, RecordHyp, Undisturbed
<1>3. /\ r \in Rows /\ r.mac = f.mac /\ r.serial = f.serial /\ csv \in Seq(Rows)
      /\ f.mac \in Units /\ f.serial \in Serials
  BY <1>1
     DEF RowOf, Rows, Frames, FrameOK, Writing, Searched, RecordHyp, TypeInv, TypeOK
<1> HIDE DEF r
<1>4. flash[f.mac] = f.serial /\ f.guarded
  BY <1>1 DEF RecordHyp, RecordInv, FlightInv, FlightOK, Burnt, Searched
<1>5. ~IsDuplicateRecord(RowsOf(csv), f.mac, f.serial)
  BY <1>1, <1>4 DEF RecordHyp, FlowInv, GuardInv, Searched
<1>6. ~Ledger!InLedger(f.mac, f.serial)
  BY <1>3, <1>5, InLedgerLemma
<1>7. LedgerOf(csv') = Append(LedgerOf(csv), [mac |-> f.mac, serial |-> f.serial])
  BY <1>2, <1>3, LedgerOfLemma
<1>8. ASSUME NEW u \in Units, NEW s \in Serials, u = f.mac, s = f.serial
      PROVE  Ledger!Enter(u, s)
  BY <1>2, <1>4, <1>6, <1>7, <1>8 DEF Ledger!Enter, LedgerOf
<1> HIDE DEF f
<1> QED
  BY <1>3, <1>8

\* With duplicate protection on in all settings, the flow implements the
\* ledger: a unit's flash changes only while neither the unit nor the number is
\* in the history, and a row is appended only for a unit that holds its number.
THEOREM ImplementsLedgerTheorem ==
  ASSUME Undisturbed, \A s \in Settings : s.preventDuplicate
  PROVE  Spec => ImplementsLedger
PROOF
<1>1. Init => Ledger!LedgerInit
  <2> SUFFICES ASSUME Init PROVE Ledger!LedgerInit
    OBVIOUS
  <2>1. csv = << >> /\ flash = [u \in Units |-> NoSerial]
    BY DEF Init, DutInit
  <2>2. LedgerOf(csv) \in Seq([mac : Units, serial : Serials]) /\ Len(LedgerOf(csv)) = 0
    <3>1. csv \in Seq(Rows) /\ Len(csv) = 0
      BY <2>1
    <3> QED
      BY <3>1, LedgerOfLemma
  <2>3. LedgerOf(csv) = << >>
    BY <2>2
  <2> QED
    BY <2>1, <2>3 DEF Ledger!LedgerInit, LedgerOf
<1>2. TypeInv /\ FlowInv /\ RecordInv /\ [Next]_vars => [Ledger!LedgerNext]_(Ledger!ledgerVars)
  <2> SUFFICES ASSUME RecordHyp, [Next]_vars
               PROVE  [Ledger!LedgerNext]_(Ledger!ledgerVars)
    BY DEF RecordHyp
  <2>1. snMode.preventDuplicate
    BY DEF RecordHyp, TypeInv, TypeOK
  <2>2. CASE CommitRecord
    BY <2>1, <2>2, EnterStep DEF Ledger!LedgerNext
  <2>3. CASE RunCommand /\ Firmware
    BY <2>1, <2>3, BurnStep DEF Ledger!LedgerNext, Ledger!ledgerVars
  <2>4. CASE UNCHANGED <<flash, csv>>
    BY <2>4 DEF Ledger!ledgerVars
  <2> QED
    BY <2>2, <2>3, <2>4, OnlyCommit, OnlyFirmware
<1>3. Careful
  BY DEF Undisturbed
<1>4. Spec => []FlowInv
  BY <1>3, FlowInvariant
<1> QED
  BY <1>1, <1>2, <1>4, RecordInvariant, TypeInvariant, PTL
     DEF Spec, ImplementsLedger, Ledger!LedgerSpec
=============================================================================
