----------------------------- MODULE MainWindow -----------------------------
(***************************************************************************)
(* MainWindow (src/src/ui/main_window.cpp) over the service, the transport *)
(* and the unit on the fixture: what the operator's clicks and the two     *)
(* timers do, and what ends up in the units, the CSV history and on the    *)
(* labels.  A step is what the GUI thread does between two event loops; it *)
(* is cut where the unit may be swapped, or the tool killed, meanwhile.    *)
(***************************************************************************)
EXTENDS RaceService

CONSTANTS
  Clicks,       \* the operator actions a run allows
  Disciplined,  \* TRUE: the operator lets a running write finish first, and
                \* keeps out of the session while auto mode runs
  SlowSwap,     \* TRUE: in auto mode the operator plugs a unit only after a
                \* tick has looked at the empty fixture
  MaxLines,     \* BOUND: commands of one normal-mode sequence
  MaxRows       \* BOUND: no write begins when rows and slots in progress are so many

ASSUME MainWindowAssumption ==
  /\ Disciplined \in BOOLEAN
  /\ SlowSwap \in BOOLEAN
  /\ MaxLines \in Nat
  /\ MaxRows \in Nat

(***************************************************************************)
(* SnModeSettings as the flow reads it.  fmt stands for the parts of the   *)
(* serial string around the number, limit for the largest number that fits *)
(* in snWidth digits; validStart and validWidth say that snStart and       *)
(* snWidth are numbers, validPoll that snPollMs is one of at least 100.    *)
(***************************************************************************)
CONSTANT Formats

SettingsType ==
  [fmt : Formats, start : Nat, limit : Nat, validStart : BOOLEAN,
   validWidth : BOOLEAN, validPoll : BOOLEAN,
   preventDuplicate : BOOLEAN, enablePrint : BOOLEAN]

ASSUME SettingsAssumption ==
  /\ Settings \subseteq SettingsType
  /\ Settings # {}
  /\ \A s \in Settings : \A n \in s.start .. s.limit :
       [fmt |-> s.fmt, num |-> n] \in Serials

\* A successful burn in the CSV history.  Rows with any other burn_result are
\* never read back and are left out.  guarded is not in the file: it records
\* that the history was searched before the write.
Rows == [mac : Units, serial : Serials, guarded : BOOLEAN]

Results == {"none", "OK", "SETUP_FAIL", "MAC_READ_FAIL", "DUPLICATE_SKIP", "WRITE_FAIL"}

VARIABLES
  snMode,       \* snMode_
  saved,        \* the settings file
  nextSerial,   \* nextSerial_
  armed,        \* autoSnArmed_: the unit was written, wait for its removal
  autoTimer,    \* autoSnTimer_.isActive()
  usbOk,        \* the VID, PID and report id fields parse
  csv,          \* the OK rows of the CSV history, oldest first
  labels,       \* the labels printed, as <<mac, serial>> pairs
  seenEmpty,    \* a tick has found the fixture empty since the last unit was
                \* taken off; not in the program, and kept only for SlowSwap
  lastResult    \* how the latest write ended, the "Last:" line

uiVars  == <<snMode, saved, nextSerial, armed, autoTimer, usbOk, seenEmpty>>
outVars == <<csv, labels, lastResult>>
vars    == <<dutVars, device, loopVars, uiVars, outVars>>

TypeOK ==
  /\ DutTypeOK
  /\ HidTypeOK
  /\ LoopTypeOK
  /\ snMode \in Settings
  /\ saved \in Settings
  /\ nextSerial \in Nat
  /\ armed \in BOOLEAN
  /\ autoTimer \in BOOLEAN
  /\ usbOk \in BOOLEAN
  /\ seenEmpty \in BOOLEAN
  /\ csv \in Seq(Rows)
  /\ labels \in SUBSET (Units \X Serials)
  /\ lastResult \in Results

\* The constructor: nextSerial_ keeps its initializer 1 if snStart is invalid.
FirstSerial(s) == IF s.validStart THEN s.start ELSE 1

Init ==
  /\ DutInit
  /\ device = Closed
  /\ LoopInit
  /\ saved \in Settings
  /\ snMode = saved
  /\ nextSerial = FirstSerial(saved)
  /\ armed = FALSE
  /\ autoTimer = FALSE
  /\ usbOk = TRUE
  /\ seenEmpty = FALSE
  /\ csv = << >>
  /\ labels = {}
  /\ lastResult = "none"

-----------------------------------------------------------------------------
(* The serial-write flow, writeCurrentSerialOnce, as a slot of kind "tick" *)
(* or "manual" runs it.                                                    *)

\* validateSerialRange succeeds if start and width are numbers.
ValidRange(s) == s.validStart /\ s.validWidth

\* A mutant: the counter is set to the start number, not raised to it.
SetToStart(s, n) == IF ValidRange(s) THEN s.start ELSE n

\* validateSerialRange then raises the counter n to the start number.
Raised(s, n) == IF ValidRange(s) /\ n < s.start THEN s.start ELSE n

SerialOf(s, n) == [fmt |-> s.fmt, num |-> n]

\* What a slot of kind k does to the session when its flow has returned: a
\* tick closes it, a click leaves it as it is.
SessionAfter(k, d) == IF k = "tick" THEN Closed ELSE d

WriteFrame(k, s) ==
  [NoFrame EXCEPT !.kind = k, !.pc = "macWait", !.live = (k = "tick"), !.serial = s]

\* A mutant: one number too many.
FitsOneMore(s, n) == n <= s.limit + 1

\* buildSerialString: the number has not outgrown the width.
Fits(s, n) == n <= s.limit

\* The flow up to its first event loop, on handle d: set the counter, build
\* the serial string, ask for the MAC.
BeginWrite(k, d) ==
  /\ Len(csv) + depth < MaxRows
  /\ nextSerial' = Raised(snMode, nextSerial)
  /\ UNCHANGED <<plugged, flash, respq, snMode, saved, armed, autoTimer, usbOk, seenEmpty>>
  /\ UNCHANGED <<csv, labels>>
  /\ \/ /\ ~ValidRange(snMode) \/ ~Fits(snMode, nextSerial')
        /\ lastResult' = "SETUP_FAIL"
        /\ device' = SessionAfter(k, d)
        /\ UNCHANGED <<cmdq, loopVars>>
     \/ /\ ValidRange(snMode) /\ Fits(snMode, nextSerial')
        /\ ~WriteSucceeds(d)
        /\ lastResult' = "MAC_READ_FAIL"
        /\ device' = SessionAfter(k, d)
        /\ UNCHANGED <<cmdq, loopVars>>
     \/ /\ ValidRange(snMode) /\ Fits(snMode, nextSerial')
        /\ WriteSucceeds(d)
        /\ cmdq' = Append(cmdq, MacCmd)
        /\ Call(WriteFrame(k, SerialOf(snMode, nextSerial')))
        /\ device' = d
        /\ UNCHANGED lastResult

\* The flow returns false to its slot, which ends.
Fail(f, result) ==
  /\ lastResult' = result
  /\ device' = SessionAfter(f.kind, device)
  /\ Leave
  /\ UNCHANGED cmdq

\* readMacAddress takes the answer for a MAC only if it is a 0x5B answer to
\* the MAC request with status 0x00.
AcceptsMac(p) == p # NoPacket /\ p.type = "5B" /\ p.id = "MAC" /\ p.ok

\* Mutants: an answer to anything will do; a refusal will do.
AnySuccess(cmd, p) == p # NoPacket /\ p.type = "5B" /\ p.ok
AnyAnswer(cmd, p)  == p # NoPacket /\ p.type = "5B" /\ p.id = cmd.id

\* checkRaceGeneralSuccess: 0x5B, the id of the command, status 0x00.
CheckRaceGeneralSuccess(cmd, p) ==
  p # NoPacket /\ p.type = "5B" /\ p.id = cmd.id /\ p.ok

RowsOf(seq) == {seq[i] : i \in 1 .. Len(seq)}

\* Mutants: only one of the two columns is compared.
SameSerial(rows, m, s) == \E r \in rows : r.serial = s
SameMac(rows, m, s)    == \E r \in rows : r.mac = m

\* isDuplicateRecord, over the rows it managed to read.
IsDuplicateRecord(rows, m, s) == \E r \in rows : r.mac = m \/ r.serial = s

\* A history file that cannot be opened is passed over ("unreadable").
ReadableRows == {RowsOf(csv)} \cup (IF "unreadable" \in Faults THEN {{}} ELSE {})

\* The MAC request returns: check the answer, search the history, send the
\* serial, begin to wait for the result.
MacReturns ==
  LET f == frame[depth]
      m == f.resp.mac
      g == snMode.preventDuplicate
  IN
  /\ depth > 0
  /\ f.pc = "macWait" /\ f.quit
  /\ UNCHANGED <<plugged, flash, respq, uiVars, csv, labels>>
  /\ \/ ~AcceptsMac(f.resp) /\ Fail(f, "MAC_READ_FAIL")
     \/ /\ AcceptsMac(f.resp)
        /\ \E rows \in ReadableRows :
             \/ g /\ IsDuplicateRecord(rows, m, f.serial) /\ Fail(f, "DUPLICATE_SKIP")
             \/ /\ ~(g /\ IsDuplicateRecord(rows, m, f.serial))
                /\ \/ ~WriteSucceeds(device) /\ Fail(f, "WRITE_FAIL")
                   \/ /\ WriteSucceeds(device)
                      /\ cmdq' = Append(cmdq, SnCmd(f.serial))
                      /\ Continue([f EXCEPT !.pc = "writeWait", !.mac = m, !.guarded = g,
                                            !.resp = NoPacket, !.quit = FALSE])
                      /\ UNCHANGED <<device, lastResult>>

\* The write request returns: accept or refuse the result.
WriteReturns ==
  LET f == frame[depth]
  IN
  /\ depth > 0
  /\ f.pc = "writeWait" /\ f.quit
  /\ UNCHANGED <<plugged, flash, respq, uiVars, csv, labels>>
  /\ \/ /\ ~CheckRaceGeneralSuccess(SnCmd(f.serial), f.resp)
        /\ Fail(f, "WRITE_FAIL")
     \/ /\ CheckRaceGeneralSuccess(SnCmd(f.serial), f.resp)
        /\ Continue([f EXCEPT !.pc = "print"])
        /\ UNCHANGED <<device, cmdq, lastResult>>

\* printSerialLabel blocks the thread on the printer for up to three seconds.
\* It may fail.
PrintSerialLabel(m, s) == labels' \in {labels, labels \cup {<<m, s>>}}

\* The flow goes on whether the label was printed or not.
PrintLabel ==
  LET f == frame[depth]
  IN
  /\ depth > 0
  /\ f.pc = "print"
  /\ IF snMode.enablePrint THEN PrintSerialLabel(f.mac, f.serial) ELSE UNCHANGED labels
  /\ Continue([f EXCEPT !.pc = "commit"])
  /\ UNCHANGED <<dutVars, device, uiVars, csv, lastResult>>

RowOf(f) == [mac |-> f.mac, serial |-> f.serial, guarded |-> f.guarded]

\* appendCsvRecord fails on a file another program holds ("lock"), a
\* spreadsheet for one; the flow goes on.
AppendCsvRecord(r) ==
  \/ csv' = Append(csv, r)
  \/ "lock" \in Faults /\ csv' = csv

\* ++nextSerial_, then updateSnModePreview validates the range again.
AfterWrite == Raised(snMode, nextSerial + 1)

\* The rest of the flow: the OK row, the counter and the end of the slot.
CommitRecord ==
  LET f == frame[depth]
  IN
  /\ depth > 0
  /\ f.pc = "commit"
  /\ AppendCsvRecord(RowOf(f))
  /\ lastResult' = "OK"
  /\ nextSerial' = AfterWrite
  /\ armed' = IF f.kind = "tick" THEN TRUE ELSE armed
  /\ device' = SessionAfter(f.kind, device)
  /\ Leave
  /\ UNCHANGED <<dutVars, snMode, saved, autoTimer, usbOk, seenEmpty, labels>>

-----------------------------------------------------------------------------
(* The slots the operator's clicks call.                                   *)

\* The settings dialog is modal: it takes all clicks until it is closed.
ModalOpen == \E i \in 1 .. depth : frame[i].kind = "dialog" /\ ~frame[i].quit

Click(b) ==
  /\ b \in Clicks
  /\ EventLoopRuns
  /\ ~ModalOpen
  /\ Disciplined => depth = 0

\* A click on something that works on the session by hand.
ManualClick(b) == Click(b) /\ (Disciplined => ~autoTimer)

OnConnectClicked ==
  /\ ManualClick("connect")
  /\ usbOk
  /\ device' \in OpenResults
  /\ UNCHANGED <<dutVars, loopVars, uiVars, outVars>>

OnDisconnectClicked ==
  /\ ManualClick("disconnect")
  /\ device' = Closed
  /\ UNCHANGED <<dutVars, loopVars, uiVars, outVars>>

\* sendSingle, or sendSequence over n lines, which stops at the first line
\* that cannot be sent.
OnSendClicked(n) ==
  /\ ManualClick("send")
  /\ device \in Units
  /\ LET room == QueueSize - Len(cmdq)
         sent == IF n <= room THEN n ELSE room
     IN  cmdq' = cmdq \o [i \in 1 .. sent |-> OtherCmd]
  /\ UNCHANGED <<plugged, flash, respq, device, loopVars, uiVars, outVars>>

\* The session is opened only if there is none: a stale handle counts as one.
OnWriteNextSerialClicked ==
  /\ ManualClick("manual")
  /\ usbOk
  /\ \E d \in (IF IsOpen THEN {device} ELSE OpenResults) :
       \/ /\ d = Closed
          /\ device' = Closed
          /\ UNCHANGED <<dutVars, loopVars, uiVars, outVars>>
       \/ d # Closed /\ BeginWrite("manual", d)

\* Starting or stopping a QTimer ends its registration: ticks still in
\* progress no longer keep the next registration from firing.
RetireTicks ==
  frame' = [i \in 1 .. MaxDepth |->
              IF frame[i].kind = "tick" THEN [frame[i] EXCEPT !.live = FALSE] ELSE frame[i]]

OnStartAutoSnClicked ==
  /\ Click("start")
  /\ ~IsOpen
  /\ snMode.validPoll
  /\ usbOk
  /\ ValidRange(snMode)
  /\ nextSerial' = Raised(snMode, nextSerial)
  /\ armed' = FALSE
  /\ autoTimer' = TRUE
  /\ RetireTicks
  /\ UNCHANGED <<dutVars, device, depth, snMode, saved, usbOk, seenEmpty, outVars>>

StopAuto ==
  /\ autoTimer' = FALSE
  /\ armed' = FALSE
  /\ device' = Closed
  /\ RetireTicks
  /\ UNCHANGED <<dutVars, depth, snMode, saved, nextSerial, usbOk, seenEmpty, outVars>>

OnStopAutoSnClicked == Click("stop") /\ StopAuto

\* The operator edits the VID, PID or report id fields.
EditUsbFields ==
  /\ Click("edit")
  /\ usbOk' = ~usbOk
  /\ UNCHANGED <<dutVars, device, loopVars, outVars>>
  /\ UNCHANGED <<snMode, saved, nextSerial, armed, autoTimer, seenEmpty>>

OnSnSettingsClicked ==
  /\ Click("settings")
  /\ Call([NoFrame EXCEPT !.kind = "dialog", !.pc = "exec"])
  /\ UNCHANGED <<dutVars, device, uiVars, outVars>>

\* A mutant: the settings are taken over before exec() has returned.
ApplyAtOnce(i, c) ==
  /\ EventLoopRuns
  /\ i <= depth
  /\ frame[i].kind = "dialog" /\ ~frame[i].quit
  /\ frame' = [frame EXCEPT ![i].quit = TRUE]
  /\ snMode' = IF c = NoSettings THEN snMode ELSE c
  /\ UNCHANGED <<dutVars, device, depth, saved, nextSerial, armed, autoTimer, usbOk, seenEmpty>>
  /\ UNCHANGED outVars

\* OK or Cancel.  The dialog sits under any tick its own loop dispatched, and
\* exec() does not return before that tick has.
CloseDialog(i, c) ==
  /\ EventLoopRuns
  /\ i <= depth
  /\ frame[i].kind = "dialog" /\ ~frame[i].quit
  /\ frame' = [frame EXCEPT ![i].quit = TRUE, ![i].choice = c]
  /\ UNCHANGED <<dutVars, device, depth, uiVars, outVars>>

\* saveToFile replaces the file in one step (QSaveFile), or leaves it ("save").
SaveToFile(s) == saved' \in {s} \cup (IF "save" \in Faults THEN {saved} ELSE {})

\* exec() returns: take over and save the settings, raise the counter.
DialogReturns ==
  LET f == frame[depth]
  IN
  /\ depth > 0
  /\ f.kind = "dialog" /\ f.quit
  /\ IF f.choice = NoSettings
     THEN UNCHANGED <<snMode, saved, nextSerial>>
     ELSE /\ snMode' = f.choice
          /\ SaveToFile(f.choice)
          /\ nextSerial' = IF f.choice.validStart /\ nextSerial < f.choice.start
                            THEN f.choice.start ELSE nextSerial
  /\ Leave
  /\ UNCHANGED <<dutVars, device, armed, autoTimer, usbOk, seenEmpty, outVars>>

-----------------------------------------------------------------------------
(* onAutoSnTick.                                                           *)

\* Qt does not call a timer's slot again while a call from the same
\* registration is in progress, whatever loop is running.
TickFires ==
  /\ autoTimer
  /\ EventLoopRuns
  /\ ~ \E i \in 1 .. depth : frame[i].kind = "tick" /\ frame[i].live

TickBadConfig == TickFires /\ ~usbOk /\ StopAuto

\* A mutant: the latch is not opened when the fixture is empty.
TickKeepsLatch ==
  /\ TickFires
  /\ usbOk
  /\ ~DeviceExists
  /\ device' = Closed
  /\ seenEmpty' = SlowSwap
  /\ UNCHANGED <<dutVars, loopVars, outVars>>
  /\ UNCHANGED <<snMode, saved, nextSerial, armed, autoTimer, usbOk>>

TickNoDevice ==
  /\ TickFires
  /\ usbOk
  /\ ~DeviceExists
  /\ armed' = FALSE
  /\ device' = Closed
  /\ seenEmpty' = SlowSwap
  /\ UNCHANGED <<dutVars, loopVars, outVars>>
  /\ UNCHANGED <<snMode, saved, nextSerial, autoTimer, usbOk>>

TickArmed ==
  /\ TickFires
  /\ usbOk
  /\ DeviceExists
  /\ armed
  /\ UNCHANGED vars

\* A mutant: a unit is written whenever one is there.
UnitThere == usbOk /\ DeviceExists

\* A unit that has not been written since it was plugged.
NewUnit == usbOk /\ DeviceExists /\ ~armed

TickWrites ==
  /\ TickFires
  /\ NewUnit
  /\ \E d \in OpenResults :
       \/ /\ d = Closed
          /\ device' = Closed
          /\ UNCHANGED <<dutVars, loopVars, uiVars, outVars>>
       \/ d # Closed /\ BeginWrite("tick", d)

OnAutoSnTick == TickBadConfig \/ TickNoDevice \/ TickArmed \/ TickWrites

-----------------------------------------------------------------------------
(* The rest of the world.                                                  *)

\* With SlowSwap, auto mode has seen the fixture empty before the next unit.
Plug(u) ==
  /\ SlowSwap /\ autoTimer => seenEmpty
  /\ PlugIn(u)
  /\ UNCHANGED <<device, loopVars, uiVars, outVars>>

Unplug ==
  /\ PullOut
  /\ device' = HandleAfterPull
  /\ seenEmpty' = FALSE
  /\ UNCHANGED <<loopVars, snMode, saved, nextSerial, armed, autoTimer, usbOk, outVars>>

Firmware ==
  /\ RunCommand \/ Notify
  /\ UNCHANGED <<device, loopVars, uiVars, outVars>>

\* The tool is killed at any point ("crash"), or is closed while no slot is in
\* progress ("quit"), and is started again.  Only the settings file, the
\* history and the units survive; nextSerial_ starts over.
Restart ==
  /\ "crash" \in Faults \/ ("quit" \in Faults /\ depth = 0)
  /\ depth' = 0
  /\ frame' = [i \in 1 .. MaxDepth |-> NoFrame]
  /\ device' = Closed
  /\ snMode' = saved
  /\ nextSerial' = FirstSerial(saved)
  /\ armed' = FALSE
  /\ autoTimer' = FALSE
  /\ usbOk' = TRUE
  /\ seenEmpty' = FALSE
  /\ lastResult' = "none"
  /\ UNCHANGED <<dutVars, saved, csv, labels>>

Poll    == PollRead /\ UNCHANGED <<uiVars, outVars>>
Timer(i) == RequestTimeout(i) /\ UNCHANGED <<dutVars, device, uiVars, outVars>>
Timeout == \E i \in 1 .. MaxDepth : Timer(i)
Dialog  == \E i \in 1 .. MaxDepth : \E c \in Settings \cup {NoSettings} : CloseDialog(i, c)
SendClicked == \E n \in 1 .. MaxLines : OnSendClicked(n)
PlugAny == \E u \in Units : Plug(u)

Next ==
  \/ MacReturns \/ WriteReturns \/ PrintLabel \/ CommitRecord
  \/ OnConnectClicked \/ OnDisconnectClicked \/ SendClicked
  \/ OnWriteNextSerialClicked
  \/ OnStartAutoSnClicked \/ OnStopAutoSnClicked \/ EditUsbFields
  \/ OnSnSettingsClicked \/ Dialog \/ DialogReturns
  \/ OnAutoSnTick
  \/ Poll \/ Timeout
  \/ PlugAny \/ Unplug \/ Firmware \/ Restart

Spec == Init /\ [][Next]_vars
-----------------------------------------------------------------------------
(* Properties.                                                             *)

\* README.md:18: "block write when same MAC or serial exists in historical
\* successful records".  A row whose write was checked against the history
\* repeats neither the MAC nor the serial of an earlier row.
UniqueRecords ==
  \A i, j \in 1 .. Len(csv) :
    i < j /\ csv[j].guarded => csv[i].mac # csv[j].mac /\ csv[i].serial # csv[j].serial

\* README.md:16: with duplicate protection on, the history says what is in the
\* units.  A unit with an OK row holds the serial number of that row, now and
\* not only when it was written: no late, refused, repeated or stray answer or
\* command makes the row wrong.
RecordsAreTrue ==
  snMode.preventDuplicate => \A r \in RowsOf(csv) : flash[r.mac] = r.serial

\* README.md:19: a label is printed after the write has succeeded, so with
\* duplicate protection on the unit it is stuck on holds the number printed.
LabelsAreTrue == snMode.preventDuplicate => \A l \in labels : flash[l[1]] = l[2]

\* README.md:14: the history is a run of consecutive numbers from the start
\* number, and the counter stands right behind it: no number is skipped by a
\* write that fails, no number is used up twice.
SerialsContiguous ==
  /\ \A i \in 1 .. Len(csv) : csv[i].serial.num = snMode.start + i - 1
  /\ nextSerial = snMode.start + Len(csv)

\* The counter is beyond every number in the history, however the slots nest:
\* a request that begins now does not build a number that was recorded.
CounterAhead == \A r \in RowsOf(csv) : r.serial.num < nextSerial

\* The number a request is about to burn and record is the one the counter
\* stands at, in the format now set: no other slot has moved the counter or
\* changed the settings since the serial string was built.
InFlightIsNext ==
  \A i \in 1 .. depth :
    frame[i].kind \in {"tick", "manual"} => frame[i].serial = SerialOf(snMode, nextSerial)

\* README.md:13: auto mode writes a unit once.  A tick that records a unit
\* finds the latch open and closes it, and the latch opens again only when the
\* fixture is empty or the operator starts or stops auto mode.
AutoWritesOnce ==
  [][/\ csv' # csv /\ frame[depth].kind = "tick" => ~armed /\ armed'
     /\ armed /\ ~armed' => ~DeviceExists \/ ~autoTimer' \/ OnStartAutoSnClicked]_vars

\* The flow implements the ledger: see SerialLedger.
Ledger == INSTANCE SerialLedger
  WITH content <- flash,
       ledger <- [i \in 1 .. Len(csv) |-> [mac |-> csv[i].mac, serial |-> csv[i].serial]]

\* README.md:16 to 18: with duplicate protection on, a unit's flash changes
\* only while neither the unit nor the number is in the history, and a row is
\* appended only for a unit that holds its number then; crashes, losses and
\* delays included.
ImplementsLedger == Ledger!LedgerSpec

-----------------------------------------------------------------------------
(* Fairness and liveness.  The GUI thread returns from its loops and runs  *)
(* on; QTimers keep firing; the firmware works its queue off.  The timer   *)
(* of a request stays due while no loop dispatches events, between the     *)
(* return of one slot and the next, so its fairness is strong.  The        *)
(* operator and the plugging of units are under no obligation.             *)

Fairness ==
  /\ WF_vars(MacReturns) /\ WF_vars(WriteReturns)
  /\ WF_vars(PrintLabel) /\ WF_vars(CommitRecord) /\ WF_vars(DialogReturns)
  /\ WF_vars(OnAutoSnTick)
  /\ WF_vars(Poll) /\ WF_vars(Firmware)
  /\ \A i \in 1 .. MaxDepth : SF_vars(Timer(i))

FairSpec == Spec /\ Fairness

Recorded(u) == \E r \in RowsOf(csv) : r.mac = u

\* README.md:13: "write once when new unit is plugged".  In auto mode a unit
\* that stays on the fixture gets its record, if a serial number is left.
PluggedUnitIsWritten ==
  \A u \in Units :
    plugged = u /\ autoTimer
      ~> Recorded(u) \/ plugged # u \/ ~autoTimer \/ nextSerial > snMode.limit

\* Every request comes back, those in whose loop another began included, which
\* wait for that one first: whatever is clicked meanwhile, and however often, no
\* write is kept for ever in a loop of its own.
RequestsReturn ==
  \A i \in 1 .. MaxDepth :
    frame[i].kind \in {"tick", "manual"} ~> frame[i].kind \notin {"tick", "manual"}
=============================================================================
