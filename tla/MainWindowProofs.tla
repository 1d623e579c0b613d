-------------------------- MODULE MainWindowProofs --------------------------
(***************************************************************************)
(* What holds of MainWindow for any number of units, settings, nested      *)
(* slots and queue entries: first with any faults, then for a disciplined  *)
(* operator.                                                               *)
(***************************************************************************)
EXTENDS MainWindow, SequenceTheorems, TLAPS

Writing   == {"macWait", "writeWait", "print", "commit"}
Searched  == {"writeWait", "print", "commit"}

\* A slot that is writing has a serial number, and past the MAC request a MAC.
FrameOK(f) ==
  /\ f.pc \in Writing => f.serial \in Serials
  /\ f.pc \in Searched => f.mac \in Units

FramesOK == \A i \in 1 .. MaxDepth : FrameOK(frame[i])

\* Only a plugged unit has commands, and a handle reaches the plugged unit.
WireOK ==
  /\ plugged = NoUnit => cmdq = << >>
  /\ device \in Units => device = plugged

TypeInv == TypeOK /\ FramesOK /\ WireOK

-----------------------------------------------------------------------------
(* The call stack.                                                         *)

LEMMA NoFrameOK == NoFrame \in Frames /\ FrameOK(NoFrame)
BY StackAssumption DEF NoFrame, Frames, Kinds, Pcs, FrameOK, Writing, Searched

LEMMA CallLemma ==
  ASSUME LoopTypeOK, FramesOK, NEW f \in Frames, FrameOK(f), Call(f)
  PROVE  LoopTypeOK' /\ FramesOK'
PROOF
<1>1. depth \in 0 .. MaxDepth /\ depth < MaxDepth /\ depth + 1 \in 1 .. MaxDepth
  BY StackAssumption DEF LoopTypeOK, Call
<1>2. depth' \in 0 .. MaxDepth
  BY <1>1, StackAssumption DEF Call
<1> QED
  BY <1>1, <1>2 DEF LoopTypeOK, FramesOK, Call

LEMMA ContinueLemma ==
  ASSUME LoopTypeOK, FramesOK, depth > 0, NEW f \in Frames, FrameOK(f), Continue(f)
  PROVE  LoopTypeOK' /\ FramesOK'
PROOF
<1>1. depth \in 1 .. MaxDepth
  BY StackAssumption DEF LoopTypeOK
<1> QED
  BY <1>1 DEF LoopTypeOK, FramesOK, Continue

LEMMA LeaveLemma ==
  ASSUME LoopTypeOK, FramesOK, depth > 0, Leave
  PROVE  LoopTypeOK' /\ FramesOK'
PROOF
<1>1. depth \in 1 .. MaxDepth
  BY StackAssumption DEF LoopTypeOK
<1>2. depth' \in 0 .. MaxDepth
  BY <1>1, StackAssumption DEF Leave
<1> QED
  BY <1>1, <1>2, NoFrameOK DEF LoopTypeOK, FramesOK, Leave

LEMMA DeliverLemma ==
  ASSUME LoopTypeOK, FramesOK, NEW p \in Packets, Deliver(p)
  PROVE  LoopTypeOK' /\ FramesOK'
PROOF
<1>1. \A f \in Frames : FrameOK(f) =>
        /\ [f EXCEPT !.resp = p, !.quit = TRUE] \in Frames
        /\ FrameOK([f EXCEPT !.resp = p, !.quit = TRUE])
  BY DEF Frames, FrameOK
<1> QED
  BY <1>1 DEF LoopTypeOK, FramesOK, Deliver

LEMMA TimeoutLemma ==
  ASSUME LoopTypeOK, FramesOK, NEW i \in 1 .. MaxDepth, RequestTimeout(i)
  PROVE  LoopTypeOK' /\ FramesOK'
PROOF
<1>1. \A f \in Frames : FrameOK(f) =>
        [f EXCEPT !.quit = TRUE] \in Frames /\ FrameOK([f EXCEPT !.quit = TRUE])
  BY DEF Frames, FrameOK
<1> QED
  BY <1>1 DEF LoopTypeOK, FramesOK, RequestTimeout

LEMMA RetireLemma ==
  ASSUME LoopTypeOK, FramesOK, RetireTicks, UNCHANGED depth
  PROVE  LoopTypeOK' /\ FramesOK'
PROOF
<1>1. \A f \in Frames : FrameOK(f) =>
        [f EXCEPT !.live = FALSE] \in Frames /\ FrameOK([f EXCEPT !.live = FALSE])
  BY DEF Frames, FrameOK
<1> QED
  BY <1>1 DEF LoopTypeOK, FramesOK, RetireTicks
-----------------------------------------------------------------------------
(* The flow and the slots.                                                 *)

LEMMA InitType == Init => TypeInv
PROOF
<1> SUFFICES ASSUME Init PROVE TypeInv
  OBVIOUS
<1>1. DutTypeOK
  BY DEF Init, DutInit, DutTypeOK
<1>2. LoopTypeOK /\ FramesOK
  BY StackAssumption, NoFrameOK DEF Init, LoopInit, LoopTypeOK, FramesOK
<1>3. saved \in Settings /\ FirstSerial(saved) \in Nat
  BY SettingsAssumption DEF Init, SettingsType, FirstSerial
<1>4. WireOK
  BY HandleAssumption DEF Init, DutInit, WireOK
<1>5. csv \in Seq(Rows) /\ labels \in SUBSET (Units \X Serials)
  BY DEF Init
<1>6. HidTypeOK /\ lastResult \in Results
  BY DEF Init, HidTypeOK, Results
<1>7. snMode \in Settings /\ nextSerial \in Nat
  BY <1>3 DEF Init
<1> QED
  BY <1>1, <1>2, <1>3, <1>4, <1>5, <1>6, <1>7 DEF Init, TypeInv, TypeOK

\* A counter is raised to a natural number, and into the range if it fits.
LEMMA RaisedLemma ==
  ASSUME NEW s \in Settings, NEW n \in Nat
  PROVE  /\ Raised(s, n) \in Nat
         /\ ValidRange(s) /\ Fits(s, Raised(s, n)) => SerialOf(s, Raised(s, n)) \in Serials
PROOF
<1>1. s.start \in Nat /\ s.limit \in Nat
  BY SettingsAssumption DEF SettingsType
<1>2. ASSUME ValidRange(s), Fits(s, Raised(s, n)) PROVE Raised(s, n) \in s.start .. s.limit
  BY <1>1, <1>2 DEF Raised, Fits
<1> QED
  BY <1>1, <1>2, SettingsAssumption DEF Raised, SerialOf

\* Frames of the flow.
LEMMA WriteFrameLemma ==
  ASSUME NEW k \in {"tick", "manual"}, NEW s \in Serials
  PROVE  WriteFrame(k, s) \in Frames /\ FrameOK(WriteFrame(k, s))
BY NoFrameOK DEF WriteFrame, NoFrame, Frames, Kinds, Pcs, FrameOK, Writing, Searched

LEMMA BeginWriteType ==
  ASSUME TypeInv, NEW k \in {"tick", "manual"}, NEW d \in Units \cup {Closed, Stale},
         d \in Units => d = plugged, BeginWrite(k, d)
  PROVE  TypeInv'
PROOF
<1>1. nextSerial' \in Nat
  BY RaisedLemma DEF TypeInv, TypeOK, BeginWrite
<1>2. device' \in {d, Closed}
  BY DEF BeginWrite, SessionAfter
<1>3. device' \in Units \cup {Closed, Stale} /\ (device' \in Units => device' = plugged)
  BY <1>2, HandleAssumption
<1>4. lastResult' \in Results
  BY DEF BeginWrite, Results, TypeInv, TypeOK
<1>5. /\ LoopTypeOK' /\ FramesOK'
      /\ cmdq' \in Seq(Commands)
      /\ plugged = NoUnit => cmdq' = << >>
  <2>1. CASE UNCHANGED <<cmdq, loopVars>>
    BY <2>1 DEF TypeInv, TypeOK, DutTypeOK, LoopTypeOK, FramesOK, WireOK, loopVars
  <2>2. CASE /\ ValidRange(snMode) /\ Fits(snMode, nextSerial')
             /\ WriteSucceeds(d)
             /\ cmdq' = Append(cmdq, MacCmd)
             /\ Call(WriteFrame(k, SerialOf(snMode, nextSerial')))
    <3>1. SerialOf(snMode, nextSerial') \in Serials
      BY <2>2, RaisedLemma DEF TypeInv, TypeOK, BeginWrite
    <3>2. LoopTypeOK' /\ FramesOK'
      BY <2>2, <3>1, WriteFrameLemma, CallLemma DEF TypeInv, TypeOK
    <3>3. MacCmd \in Commands
      BY DEF MacCmd, Commands, RaceIds
    <3>4. plugged # NoUnit
      BY <2>2, DutAssumption DEF WriteSucceeds
    <3> QED
      BY <2>2, <3>2, <3>3, <3>4 DEF TypeInv, TypeOK, DutTypeOK
  <2> QED
    BY <2>1, <2>2 DEF BeginWrite
<1> QED
  BY <1>1, <1>3, <1>4, <1>5
     DEF BeginWrite, TypeInv, TypeOK, DutTypeOK, HidTypeOK, WireOK

LEMMA FailType ==
  ASSUME LoopTypeOK, FramesOK, HidTypeOK, WireOK, depth > 0, NEW r \in Results,
         Fail(frame[depth], r), UNCHANGED plugged
  PROVE  LoopTypeOK' /\ FramesOK' /\ HidTypeOK' /\ WireOK' /\ lastResult' \in Results
         /\ UNCHANGED cmdq
PROOF
<1>1. LoopTypeOK' /\ FramesOK'
  BY LeaveLemma DEF Fail
<1> QED
  BY <1>1, HandleAssumption DEF Fail, SessionAfter, HidTypeOK, WireOK

LEMMA MacReturnsType == TypeInv /\ MacReturns => TypeInv'
PROOF
<1> SUFFICES ASSUME TypeInv, MacReturns PROVE TypeInv'
  OBVIOUS
<1> DEFINE f == frame[depth]
<1>1. LoopTypeOK /\ FramesOK /\ HidTypeOK /\ WireOK /\ DutTypeOK /\ depth > 0
  BY DEF TypeInv, TypeOK, MacReturns
<1>2. depth \in 1 .. MaxDepth /\ f \in Frames /\ FrameOK(f) /\ f.pc = "macWait"
  BY <1>1, StackAssumption DEF LoopTypeOK, FramesOK, MacReturns
<1> DEFINE Failed == \E r \in {"MAC_READ_FAIL", "DUPLICATE_SKIP", "WRITE_FAIL"} : Fail(f, r)
           Sent == /\ AcceptsMac(f.resp) /\ WriteSucceeds(device)
                   /\ cmdq' = Append(cmdq, SnCmd(f.serial))
                   /\ Continue([f EXCEPT !.pc = "writeWait", !.mac = f.resp.mac,
                                         !.guarded = snMode.preventDuplicate,
                                         !.resp = NoPacket, !.quit = FALSE])
                   /\ UNCHANGED <<device, lastResult>>
<1>3. LoopTypeOK' /\ FramesOK' /\ HidTypeOK' /\ WireOK' /\ lastResult' \in Results
      /\ cmdq' \in Seq(Commands)
  <2>1. CASE Failed
    <3>1. PICK r \in {"MAC_READ_FAIL", "DUPLICATE_SKIP", "WRITE_FAIL"} : Fail(f, r)
      BY <2>1
    <3>2. r \in Results /\ UNCHANGED plugged
      BY DEF Results, MacReturns
    <3> QED
      BY <1>1, <3>1, <3>2, FailType DEF DutTypeOK
  <2>2. CASE Sent
    <3> DEFINE g == [f EXCEPT !.pc = "writeWait", !.mac = f.resp.mac,
                              !.guarded = snMode.preventDuplicate,
                              !.resp = NoPacket, !.quit = FALSE]
    <3>1. f.resp.mac \in Units /\ f.serial \in Serials
      BY <1>2, <2>2 DEF AcceptsMac, Frames, Packets, FrameOK, Writing
    <3>2. snMode.preventDuplicate \in BOOLEAN
      BY SettingsAssumption DEF TypeInv, TypeOK, SettingsType
    <3>3. g \in Frames /\ FrameOK(g)
      BY <1>2, <3>1, <3>2 DEF Frames, Pcs, FrameOK
    <3>4. LoopTypeOK' /\ FramesOK'
      BY <1>1, <2>2, <3>3, ContinueLemma
    <3>5. SnCmd(f.serial) \in Commands
      BY <3>1 DEF SnCmd, Commands, RaceIds
    <3>6. plugged' # NoUnit
      BY <1>1, <2>2, DutAssumption DEF WriteSucceeds, WireOK, MacReturns
    <3> QED
      BY <1>1, <2>2, <3>4, <3>5, <3>6 DEF DutTypeOK, HidTypeOK, WireOK, TypeInv, TypeOK, MacReturns
  <2>3. Failed \/ Sent
    BY Zenon DEF MacReturns
  <2> QED
    BY <2>1, <2>2, <2>3
<1> QED
  BY <1>3 DEF MacReturns, TypeInv, TypeOK, DutTypeOK, uiVars

LEMMA WriteReturnsType == TypeInv /\ WriteReturns => TypeInv'
PROOF
<1> SUFFICES ASSUME TypeInv, WriteReturns PROVE TypeInv'
  OBVIOUS
<1> DEFINE f == frame[depth]
<1>1. LoopTypeOK /\ FramesOK /\ HidTypeOK /\ WireOK /\ DutTypeOK /\ depth > 0
  BY DEF TypeInv, TypeOK, WriteReturns
<1>2. depth \in 1 .. MaxDepth /\ f \in Frames /\ FrameOK(f) /\ f.pc = "writeWait"
  BY <1>1, StackAssumption DEF LoopTypeOK, FramesOK, WriteReturns
<1>3. LoopTypeOK' /\ FramesOK' /\ HidTypeOK' /\ WireOK' /\ lastResult' \in Results
      /\ UNCHANGED cmdq
  <2>1. CASE Fail(f, "WRITE_FAIL")
    <3>1. "WRITE_FAIL" \in Results /\ UNCHANGED plugged
      BY DEF Results, WriteReturns
    <3> QED
      BY <1>1, <2>1, <3>1, FailType
  <2>2. CASE Continue([f EXCEPT !.pc = "print"]) /\ UNCHANGED <<device, cmdq, lastResult>>
    <3>1. [f EXCEPT !.pc = "print"] \in Frames /\ FrameOK([f EXCEPT !.pc = "print"])
      BY <1>2 DEF Frames, Pcs, FrameOK, Writing, Searched
    <3>2. LoopTypeOK' /\ FramesOK'
      BY <1>1, <2>2, <3>1, ContinueLemma
    <3> QED
      BY <1>1, <2>2, <3>2 DEF HidTypeOK, WireOK, TypeInv, TypeOK, WriteReturns
  <2> QED
    BY <2>1, <2>2 DEF WriteReturns
<1> QED
  BY <1>1, <1>3 DEF WriteReturns, TypeInv, TypeOK, DutTypeOK, uiVars

LEMMA PrintLabelType == TypeInv /\ PrintLabel => TypeInv'
PROOF
<1> SUFFICES ASSUME TypeInv, PrintLabel PROVE TypeInv'
  OBVIOUS
<1> DEFINE f == frame[depth]
<1>1. LoopTypeOK /\ FramesOK /\ depth > 0
  BY DEF TypeInv, TypeOK, PrintLabel
<1>2. depth \in 1 .. MaxDepth /\ f \in Frames /\ FrameOK(f) /\ f.pc = "print"
  BY <1>1, StackAssumption DEF LoopTypeOK, FramesOK, PrintLabel
<1>3. f.mac \in Units /\ f.serial \in Serials
  BY <1>2 DEF FrameOK, Writing, Searched
<1>4. labels' \in SUBSET (Units \X Serials)
  <2>1. labels \in SUBSET (Units \X Serials) /\ <<f.mac, f.serial>> \in Units \X Serials
    BY <1>3 DEF TypeInv, TypeOK
  <2>2. labels' = labels \cup {<<f.mac, f.serial>>} \/ labels' = labels
    BY DEF PrintLabel, PrintSerialLabel
  <2> QED
    BY <2>1, <2>2
<1>5. [f EXCEPT !.pc = "commit"] \in Frames /\ FrameOK([f EXCEPT !.pc = "commit"])
  BY <1>2 DEF Frames, Pcs, FrameOK, Writing, Searched
<1>6. LoopTypeOK' /\ FramesOK'
  BY <1>1, <1>5, ContinueLemma DEF PrintLabel
<1> QED
  BY <1>4, <1>6
     DEF PrintLabel, TypeInv, TypeOK, DutTypeOK, HidTypeOK, WireOK, dutVars, uiVars

LEMMA CommitRecordType == TypeInv /\ CommitRecord => TypeInv'
PROOF
<1> SUFFICES ASSUME TypeInv, CommitRecord PROVE TypeInv'
  OBVIOUS
<1> DEFINE f == frame[depth]
<1>1. LoopTypeOK /\ FramesOK /\ depth > 0
  BY DEF TypeInv, TypeOK, CommitRecord
<1>2. f \in Frames /\ FrameOK(f) /\ f.pc = "commit"
  BY <1>1, StackAssumption DEF LoopTypeOK, FramesOK, CommitRecord
<1>3. RowOf(f) \in Rows
  BY <1>2 DEF FrameOK, Writing, Searched, Frames, RowOf, Rows
<1>4. csv' \in Seq(Rows)
  BY <1>3 DEF TypeInv, TypeOK, CommitRecord, AppendCsvRecord
<1>5. LoopTypeOK' /\ FramesOK'
  BY <1>1, LeaveLemma DEF CommitRecord
<1>6. nextSerial' \in Nat
  <2>1. snMode \in Settings /\ nextSerial + 1 \in Nat
    BY DEF TypeInv, TypeOK
  <2> QED
    BY <2>1, RaisedLemma DEF CommitRecord, AfterWrite
<1>7. HidTypeOK' /\ WireOK'
  BY HandleAssumption
     DEF CommitRecord, SessionAfter, TypeInv, TypeOK, HidTypeOK, WireOK, dutVars
<1>8. lastResult' \in Results /\ armed' \in BOOLEAN
  BY DEF CommitRecord, Results, TypeInv, TypeOK
<1> QED
  BY <1>4, <1>5, <1>6, <1>7, <1>8 DEF CommitRecord, TypeInv, TypeOK, DutTypeOK, dutVars

\* A handle from open() is none, or reaches the plugged unit.
LEMMA OpenLemma ==
  ASSUME DutTypeOK, NEW d \in OpenResults
  PROVE  d \in Units \cup {Closed} /\ (d \in Units => d = plugged)
BY HandleAssumption DEF DutTypeOK, OpenResults, DeviceExists

LEMMA ManualType == TypeInv /\ OnWriteNextSerialClicked => TypeInv'
PROOF
<1> SUFFICES ASSUME TypeInv, OnWriteNextSerialClicked PROVE TypeInv'
  OBVIOUS
<1>1. PICK d \in (IF IsOpen THEN {device} ELSE OpenResults) :
        \/ /\ d = Closed
           /\ device' = Closed
           /\ UNCHANGED <<dutVars, loopVars, uiVars, outVars>>
        \/ d # Closed /\ BeginWrite("manual", d)
  BY DEF OnWriteNextSerialClicked
<1>2. d \in Units \cup {Closed, Stale} /\ (d \in Units => d = plugged)
  BY OpenLemma DEF TypeInv, TypeOK, HidTypeOK, WireOK
<1>3. CASE /\ device' = Closed
           /\ UNCHANGED <<dutVars, loopVars, uiVars, outVars>>
  BY <1>3, HandleAssumption
     DEF TypeInv, TypeOK, DutTypeOK, HidTypeOK, LoopTypeOK, FramesOK, WireOK,
         dutVars, loopVars, uiVars, outVars
<1>4. CASE BeginWrite("manual", d)
  BY <1>2, <1>4, BeginWriteType
<1> QED
  BY <1>1, <1>3, <1>4

LEMMA TickWritesType == TypeInv /\ TickWrites => TypeInv'
PROOF
<1> SUFFICES ASSUME TypeInv, TickWrites PROVE TypeInv'
  OBVIOUS
<1>1. PICK d \in OpenResults :
        \/ /\ d = Closed
           /\ device' = Closed
           /\ UNCHANGED <<dutVars, loopVars, uiVars, outVars>>
        \/ d # Closed /\ BeginWrite("tick", d)
  BY DEF TickWrites
<1>2. d \in Units \cup {Closed, Stale} /\ (d \in Units => d = plugged)
  BY OpenLemma DEF TypeInv, TypeOK
<1>3. CASE /\ device' = Closed
           /\ UNCHANGED <<dutVars, loopVars, uiVars, outVars>>
  BY <1>3, HandleAssumption
     DEF TypeInv, TypeOK, DutTypeOK, HidTypeOK, LoopTypeOK, FramesOK, WireOK,
         dutVars, loopVars, uiVars, outVars
<1>4. CASE BeginWrite("tick", d)
  BY <1>2, <1>4, BeginWriteType
<1> QED
  BY <1>1, <1>3, <1>4

\* Slots that only open or close the session, or change the auto-mode state.
LEMMA SessionType ==
  TypeInv /\ (OnConnectClicked \/ OnDisconnectClicked \/ EditUsbFields
              \/ TickNoDevice \/ TickArmed) => TypeInv'
PROOF
<1> SUFFICES ASSUME TypeInv,
                    OnConnectClicked \/ OnDisconnectClicked \/ EditUsbFields
                      \/ TickNoDevice \/ TickArmed
             PROVE  TypeInv'
  OBVIOUS
<1> USE DEF TypeInv, TypeOK, DutTypeOK, HidTypeOK, LoopTypeOK, FramesOK, WireOK,
            dutVars, loopVars, uiVars, outVars
<1>1. CASE OnConnectClicked
  BY <1>1, OpenLemma DEF OnConnectClicked
<1>2. CASE OnDisconnectClicked
  BY <1>2, HandleAssumption DEF OnDisconnectClicked
<1>3. CASE EditUsbFields
  BY <1>3 DEF EditUsbFields
<1>4. CASE TickNoDevice
  BY <1>4, HandleAssumption, MainWindowAssumption DEF TickNoDevice
<1>5. CASE TickArmed
  BY <1>5 DEF TickArmed, vars
<1> QED
  BY <1>1, <1>2, <1>3, <1>4, <1>5

LEMMA SendType == TypeInv /\ SendClicked => TypeInv'
PROOF
<1> SUFFICES ASSUME TypeInv, NEW n \in 1 .. MaxLines, OnSendClicked(n) PROVE TypeInv'
  BY DEF SendClicked
<1> DEFINE room == QueueSize - Len(cmdq)
           lines == IF n <= room THEN n ELSE room
<1>1. /\ cmdq \in Seq(Commands)
      /\ cmdq' = cmdq \o [i \in 1 .. lines |-> OtherCmd]
  BY DEF TypeInv, TypeOK, DutTypeOK, OnSendClicked
<1>2. cmdq' \in Seq(Commands)
  <2>1. OtherCmd \in Commands
    BY DEF OtherCmd, Commands, RaceIds
  <2>2. lines \in Int
    BY <1>1, DutAssumption, MainWindowAssumption
  <2>3. [i \in 1 .. lines |-> OtherCmd] \in Seq(Commands)
    <3> HIDE DEF lines
    <3>1. CASE lines \in Nat
      BY <2>1, <3>1
    <3>2. CASE lines < 0
      <4>1. 1 .. lines = 1 .. 0
        BY <2>2, <3>2
      <4>2. [i \in 1 .. lines |-> OtherCmd] = [i \in 1 .. 0 |-> OtherCmd]
        BY <4>1
      <4>3. [i \in 1 .. 0 |-> OtherCmd] \in Seq(Commands)
        BY <2>1
      <4> QED
        BY <4>2, <4>3
    <3> QED
      BY <2>2, <3>1, <3>2
  <2> HIDE DEF lines
  <2> QED
    BY <1>1, <2>3
<1>3. plugged # NoUnit
  BY DutAssumption DEF OnSendClicked, TypeInv, WireOK
<1> QED
  BY <1>2, <1>3
     DEF OnSendClicked, TypeInv, TypeOK, DutTypeOK, HidTypeOK, LoopTypeOK, FramesOK, WireOK,
         loopVars, uiVars, outVars

\* The slots that start and stop auto mode.
LEMMA AutoType ==
  TypeInv /\ (OnStartAutoSnClicked \/ OnStopAutoSnClicked \/ TickBadConfig) => TypeInv'
PROOF
<1> SUFFICES ASSUME TypeInv, OnStartAutoSnClicked \/ StopAuto PROVE TypeInv'
  BY DEF OnStopAutoSnClicked, TickBadConfig
<1>1. LoopTypeOK' /\ FramesOK'
  BY RetireLemma DEF TypeInv, TypeOK, OnStartAutoSnClicked, StopAuto
<1>2. nextSerial' \in Nat
  BY RaisedLemma DEF TypeInv, TypeOK, OnStartAutoSnClicked, StopAuto
<1>3. device' \in {device, Closed}
  BY DEF OnStartAutoSnClicked, StopAuto
<1> QED
  BY <1>1, <1>2, <1>3, HandleAssumption
     DEF OnStartAutoSnClicked, StopAuto, TypeInv, TypeOK, DutTypeOK, HidTypeOK, WireOK,
         dutVars, outVars

LEMMA DialogType ==
  TypeInv /\ (OnSnSettingsClicked \/ Dialog \/ DialogReturns) => TypeInv'
PROOF
<1> SUFFICES ASSUME TypeInv, OnSnSettingsClicked \/ Dialog \/ DialogReturns PROVE TypeInv'
  OBVIOUS
<1>1. CASE OnSnSettingsClicked
  <2> DEFINE f == [NoFrame EXCEPT !.kind = "dialog", !.pc = "exec"]
  <2>1. f \in Frames /\ FrameOK(f)
    BY NoFrameOK DEF NoFrame, Frames, Kinds, Pcs, FrameOK, Writing, Searched
  <2>2. LoopTypeOK' /\ FramesOK'
    BY <1>1, <2>1, CallLemma DEF TypeInv, TypeOK, OnSnSettingsClicked
  <2> QED
    BY <1>1, <2>2
       DEF OnSnSettingsClicked, TypeInv, TypeOK, DutTypeOK, HidTypeOK, WireOK,
           dutVars, uiVars, outVars
<1>2. CASE Dialog
  <2>1. PICK i \in 1 .. MaxDepth, c \in Settings \cup {NoSettings} : CloseDialog(i, c)
    BY <1>2 DEF Dialog
  <2>2. \A f \in Frames : FrameOK(f) =>
          /\ [f EXCEPT !.quit = TRUE, !.choice = c] \in Frames
          /\ FrameOK([f EXCEPT !.quit = TRUE, !.choice = c])
    BY DEF Frames, FrameOK
  <2>3. LoopTypeOK' /\ FramesOK'
    BY <2>1, <2>2 DEF TypeInv, TypeOK, LoopTypeOK, FramesOK, CloseDialog
  <2> QED
    BY <2>1, <2>3
       DEF CloseDialog, TypeInv, TypeOK, DutTypeOK, HidTypeOK, WireOK, dutVars, uiVars, outVars
<1>3. CASE DialogReturns
  <2> DEFINE f == frame[depth]
  <2>1. f \in Frames /\ depth > 0
    BY <1>3, StackAssumption DEF TypeInv, TypeOK, LoopTypeOK, DialogReturns
  <2>2. f.choice \in Settings \cup {NoSettings}
    BY <2>1 DEF Frames
  <2>3. snMode' \in Settings /\ saved' \in Settings /\ nextSerial' \in Nat
    <3>1. CASE f.choice = NoSettings
      BY <1>3, <3>1 DEF DialogReturns, SaveToFile, TypeInv, TypeOK
    <3>2. CASE f.choice \in Settings
      <4>1. f.choice.start \in Nat
        BY <3>2, SettingsAssumption DEF SettingsType
      <4> QED
        BY <1>3, <3>2, <4>1, StackAssumption DEF DialogReturns, SaveToFile, TypeInv, TypeOK
    <3> QED
      BY <2>2, <3>1, <3>2
  <2>4. LoopTypeOK' /\ FramesOK'
    BY <1>3, <2>1, LeaveLemma DEF TypeInv, TypeOK, DialogReturns
  <2> QED
    BY <1>3, <2>3, <2>4
       DEF DialogReturns, TypeInv, TypeOK, DutTypeOK, HidTypeOK, WireOK, dutVars, outVars
<1> QED
  BY <1>1, <1>2, <1>3

LEMMA LoopType == TypeInv /\ (Poll \/ Timeout) => TypeInv'
PROOF
<1> SUFFICES ASSUME TypeInv, Poll \/ Timeout PROVE TypeInv'
  OBVIOUS
<1>1. CASE Poll
  <2>1. Head(respq) \in Packets /\ Tail(respq) \in Seq(Packets)
    BY <1>1 DEF Poll, PollRead, TypeInv, TypeOK, DutTypeOK
  <2>2. LoopTypeOK' /\ FramesOK'
    BY <1>1, <2>1, DeliverLemma DEF Poll, PollRead, TypeInv, TypeOK
  <2> QED
    BY <1>1, <2>1, <2>2
       DEF Poll, PollRead, TypeInv, TypeOK, DutTypeOK, HidTypeOK, WireOK, uiVars, outVars
<1>2. CASE Timeout
  <2>1. LoopTypeOK' /\ FramesOK'
    BY <1>2, TimeoutLemma DEF Timeout, Timer, TypeInv, TypeOK
  <2> QED
    BY <1>2, <2>1
       DEF Timeout, Timer, TypeInv, TypeOK, DutTypeOK, HidTypeOK, WireOK, dutVars, uiVars, outVars
<1> QED
  BY <1>1, <1>2

LEMMA DutType == TypeInv /\ (PlugAny \/ Unplug \/ Firmware) => TypeInv'
PROOF
<1> SUFFICES ASSUME TypeInv, PlugAny \/ Unplug \/ Firmware PROVE TypeInv'
  OBVIOUS
<1>1. CASE PlugAny
  <2>1. PICK u \in Units : PlugIn(u) /\ UNCHANGED <<device, loopVars, uiVars, outVars>>
    BY <1>1 DEF PlugAny, Plug
  <2>2. u # NoUnit /\ plugged = NoUnit
    BY <2>1, DutAssumption DEF PlugIn
  <2>3. device \notin Units
    BY <2>2, DutAssumption DEF TypeInv, WireOK
  <2> QED
    BY <2>1, <2>2, <2>3
       DEF PlugIn, TypeInv, TypeOK, DutTypeOK, HidTypeOK, LoopTypeOK, FramesOK, WireOK,
           loopVars, uiVars, outVars
<1>2. CASE Unplug
  <2>1. DutTypeOK' /\ HidTypeOK' /\ WireOK'
    BY <1>2, HandleAssumption
       DEF Unplug, PullOut, HandleAfterPull, TypeInv, TypeOK, DutTypeOK, HidTypeOK, WireOK
  <2>2. LoopTypeOK' /\ FramesOK'
    BY <1>2 DEF Unplug, TypeInv, TypeOK, LoopTypeOK, FramesOK, loopVars
  <2> QED
    BY <1>2, <2>1, <2>2 DEF Unplug, TypeInv, TypeOK, outVars
<1>3. CASE Firmware
  <2>1. \A cmd \in Commands, status \in BOOLEAN :
          plugged \in Units => Answer(cmd, status) \in Packets
    BY DEF Answer, Commands, Packets
  <2>2. /\ plugged' = plugged
        /\ flash' \in [Units -> Serials \cup {NoSerial}]
        /\ cmdq' \in Seq(Commands)
        /\ respq' \in Seq(Packets)
        /\ plugged = NoUnit => cmdq' = << >>
    <3>1. CASE RunCommand
      <4>1. /\ Head(cmdq) \in Commands
            /\ Tail(cmdq) \in Seq(Commands)
            /\ plugged \in Units /\ plugged # NoUnit
        BY <3>1, DutAssumption DEF RunCommand, TypeInv, TypeOK, DutTypeOK, WireOK
      <4>2. PICK status \in BOOLEAN :
              /\ flash' = IF Head(cmdq).id = "SN" /\ status
                          THEN [flash EXCEPT ![plugged] = Head(cmdq).serial]
                          ELSE flash
              /\ \/ respq' = Append(respq, Answer(Head(cmdq), status))
                 \/ respq' = respq
        BY <3>1 DEF RunCommand
      <4>3. flash' \in [Units -> Serials \cup {NoSerial}]
        BY <4>1, <4>2 DEF TypeInv, TypeOK, DutTypeOK, Commands
      <4>4. respq' \in Seq(Packets)
        <5>1. respq \in Seq(Packets)
          BY DEF TypeInv, TypeOK, DutTypeOK
        <5>2. Answer(Head(cmdq), status) \in Packets
          BY <2>1, <4>1
        <5> QED
          BY <4>2, <5>1, <5>2
      <4> QED
        BY <3>1, <4>1, <4>3, <4>4 DEF RunCommand
    <3>2. CASE Notify
      <4>1. [type |-> "5D", id |-> "OTHER", ok |-> TRUE, mac |-> plugged] \in Packets
        BY <3>2 DEF Notify, Packets, RaceIds, TypeInv, TypeOK, DutTypeOK
      <4> QED
        BY <3>2, <4>1 DEF Notify, TypeInv, TypeOK, DutTypeOK, WireOK
    <3> QED
      BY <1>3, <3>1, <3>2 DEF Firmware
  <2> QED
    BY <1>3, <2>2
       DEF Firmware, TypeInv, TypeOK, DutTypeOK, HidTypeOK, LoopTypeOK, FramesOK, WireOK,
           loopVars, uiVars, outVars
<1> QED
  BY <1>1, <1>2, <1>3

LEMMA RestartType == TypeInv /\ Restart => TypeInv'
PROOF
<1> SUFFICES ASSUME TypeInv, Restart PROVE TypeInv'
  OBVIOUS
<1>1. LoopTypeOK' /\ FramesOK'
  BY StackAssumption, NoFrameOK DEF Restart, LoopTypeOK, FramesOK
<1>2. nextSerial' \in Nat
  BY SettingsAssumption DEF Restart, FirstSerial, TypeInv, TypeOK, SettingsType
<1> QED
  BY <1>1, <1>2, HandleAssumption
     DEF Restart, TypeInv, TypeOK, DutTypeOK, HidTypeOK, WireOK, dutVars, Results

LEMMA StutterType == TypeInv /\ UNCHANGED vars => TypeInv'
BY DEF vars, dutVars, loopVars, uiVars, outVars, TypeInv, TypeOK, DutTypeOK, HidTypeOK,
       LoopTypeOK, FramesOK, WireOK

LEMMA TypeInvariant == Spec => []TypeInv
PROOF
<1>1. TypeInv /\ [Next]_vars => TypeInv'
  BY MacReturnsType, WriteReturnsType, PrintLabelType, CommitRecordType, SessionType, SendType,
     ManualType, AutoType, DialogType, TickWritesType, LoopType, DutType, RestartType, StutterType
     DEF Next, OnAutoSnTick
<1> QED
  BY InitType, <1>1, PTL DEF Spec

\* Every variable keeps its type in every behaviour: in particular the serial
\* number of a write in progress is one the width can hold, and the history
\* and the labels name units and serial numbers only.
THEOREM TypeCorrect == Spec => []TypeOK
PROOF
<1>1. TypeInv => TypeOK
  BY DEF TypeInv
<1> QED
  BY <1>1, TypeInvariant, PTL
-----------------------------------------------------------------------------
(* The counter.  Nothing here asks for a careful operator: slots may nest  *)
(* in any order.                                                           *)

\* A sequence seen as the set of its entries.
LEMMA RowsOfLemma ==
  ASSUME NEW S, NEW q \in Seq(S)
  PROVE  /\ \A e \in S : RowsOf(Append(q, e)) = RowsOf(q) \cup {e}
         /\ q # << >> => Head(q) \in RowsOf(q) /\ RowsOf(Tail(q)) \subseteq RowsOf(q)
         /\ RowsOf(q) \subseteq S
PROOF
<1>1. Len(q) \in Nat /\ \A i \in 1 .. Len(q) : q[i] \in S
  OBVIOUS
<1>2. ASSUME NEW e \in S PROVE RowsOf(Append(q, e)) = RowsOf(q) \cup {e}
  <2>1. /\ Len(Append(q, e)) = Len(q) + 1
        /\ \A i \in 1 .. Len(q) + 1 : Append(q, e)[i] = IF i = Len(q) + 1 THEN e ELSE q[i]
    BY <1>1
  <2>2. 1 .. Len(q) + 1 = (1 .. Len(q)) \cup {Len(q) + 1} /\ Len(q) + 1 \notin 1 .. Len(q)
    BY <1>1
  <2> QED
    BY <2>1, <2>2 DEF RowsOf
<1>3. ASSUME q # << >>
      PROVE  Head(q) \in RowsOf(q) /\ RowsOf(Tail(q)) \subseteq RowsOf(q)
  <2>1. Len(q) > 0 /\ Head(q) = q[1]
    BY <1>3
  <2>2. Len(Tail(q)) = Len(q) - 1 /\ \A i \in 1 .. Len(q) - 1 : Tail(q)[i] = q[i + 1]
    BY <1>3, <2>1
  <2>3. 1 \in 1 .. Len(q) /\ \A i \in 1 .. Len(q) - 1 : i + 1 \in 1 .. Len(q)
    BY <1>1, <2>1
  <2> QED
    BY <2>1, <2>2, <2>3 DEF RowsOf
<1> QED
  BY <1>1, <1>2, <1>3 DEF RowsOf

\* The counter is at or beyond every number in flight, and beyond every number
\* in the history.
CountInv ==
  /\ \A i \in 1 .. MaxDepth :
       frame[i].pc \in Writing => frame[i].serial.num \in Nat /\ frame[i].serial.num <= nextSerial
  /\ \A r \in RowsOf(csv) : r.serial.num \in Nat /\ r.serial.num < nextSerial

\* The slots that write after the step wrote before, with the same number.
SameNumbers ==
  \A i \in 1 .. MaxDepth :
    frame'[i].pc \in Writing => frame[i].pc \in Writing /\ frame'[i].serial = frame[i].serial

LEMMA CountKeep ==
  ASSUME TypeInv, CountInv, UNCHANGED csv, nextSerial' \in Nat, nextSerial <= nextSerial',
         \A i \in 1 .. MaxDepth :
           frame'[i].pc \in Writing =>
             \/ frame[i].pc \in Writing /\ frame'[i].serial = frame[i].serial
             \/ frame'[i].serial = SerialOf(snMode, nextSerial')
  PROVE  CountInv'
PROOF
<1>1. nextSerial \in Nat
  BY DEF TypeInv, TypeOK
<1>2. SerialOf(snMode, nextSerial').num = nextSerial'
  BY DEF SerialOf
<1>3. ASSUME NEW i \in 1 .. MaxDepth, frame'[i].pc \in Writing
      PROVE  frame'[i].serial.num \in Nat /\ frame'[i].serial.num <= nextSerial'
  <2>1. CASE frame[i].pc \in Writing /\ frame'[i].serial = frame[i].serial
    BY <1>1, <2>1 DEF CountInv
  <2>2. CASE frame'[i].serial = SerialOf(snMode, nextSerial')
    BY <1>2, <2>2
  <2> QED
    BY <1>3, <2>1, <2>2
<1>4. ASSUME NEW r \in RowsOf(csv) PROVE r.serial.num \in Nat /\ r.serial.num < nextSerial'
  BY <1>1 DEF CountInv
<1> QED
  BY <1>3, <1>4 DEF CountInv

LEMMA LeaveNumbers == TypeInv /\ depth > 0 /\ Leave => SameNumbers
BY DEF TypeInv, TypeOK, LoopTypeOK, Leave, SameNumbers, NoFrame, Writing

\* The counter of a slot that begins to write is raised at most.
LEMMA RaisedBeyond ==
  ASSUME TypeInv PROVE Raised(snMode, nextSerial) \in Nat /\ nextSerial <= Raised(snMode, nextSerial)
BY SettingsAssumption DEF TypeInv, TypeOK, SettingsType, Raised

LEMMA BeginWriteCount ==
  ASSUME TypeInv, CountInv, NEW k \in {"tick", "manual"}, NEW d, BeginWrite(k, d)
  PROVE  CountInv'
PROOF
<1> DEFINE s == SerialOf(snMode, nextSerial')
           f == WriteFrame(k, s)
<1>1. UNCHANGED csv /\ nextSerial' \in Nat /\ nextSerial <= nextSerial'
  BY RaisedBeyond DEF BeginWrite
<1>2. f.serial = s
  BY DEF WriteFrame, NoFrame
<1>3. CASE UNCHANGED loopVars
  BY <1>1, <1>3, CountKeep DEF loopVars
<1>4. CASE Call(f)
  <2> HIDE DEF f, s
  <2>1. \A i \in 1 .. MaxDepth : frame'[i] = frame[i] \/ frame'[i] = f
    BY <1>4 DEF Call, TypeInv, TypeOK, LoopTypeOK
  <2> QED
    BY <1>1, <1>2, <2>1, CountKeep DEF s
<1> QED
  BY <1>3, <1>4 DEF BeginWrite

\* The row that is appended has a number the counter then passes.
LEMMA CommitCount == TypeInv /\ CountInv /\ CommitRecord => CountInv'
PROOF
<1> SUFFICES ASSUME TypeInv, CountInv, CommitRecord PROVE CountInv'
  OBVIOUS
<1> DEFINE f == frame[depth]
           r == RowOf(f)
<1>1. /\ depth \in 1 .. MaxDepth /\ f.pc \in Writing /\ f \in Frames /\ FrameOK(f)
      /\ f.mac \in Units /\ depth > 0
  BY StackAssumption
     DEF CommitRecord, TypeInv, TypeOK, LoopTypeOK, FramesOK, FrameOK, Writing, Searched
<1>2. f.serial.num \in Nat /\ f.serial.num <= nextSerial
  BY <1>1 DEF CountInv
<1>3. r \in Rows /\ r.serial = f.serial /\ csv \in Seq(Rows) /\ nextSerial \in Nat
  BY <1>1 DEF RowOf, Rows, Frames, FrameOK, TypeInv, TypeOK
<1>4. nextSerial' \in Nat /\ nextSerial + 1 <= nextSerial'
  BY SettingsAssumption
     DEF CommitRecord, AfterWrite, Raised, TypeInv, TypeOK, SettingsType
<1> HIDE DEF r
<1>5. RowsOf(csv') \subseteq RowsOf(csv) \cup {r}
  <2>1. csv' = Append(csv, r) \/ csv' = csv
    BY DEF CommitRecord, AppendCsvRecord, r
  <2>2. RowsOf(Append(csv, r)) = RowsOf(csv) \cup {r}
    BY <1>3, RowsOfLemma
  <2> QED
    BY <2>1, <2>2
<1>6. SameNumbers
  BY <1>1, LeaveNumbers DEF CommitRecord
<1>7. ASSUME NEW i \in 1 .. MaxDepth, frame'[i].pc \in Writing
      PROVE  frame'[i].serial.num \in Nat /\ frame'[i].serial.num <= nextSerial'
  BY <1>3, <1>4, <1>6, <1>7 DEF SameNumbers, CountInv
<1>8. ASSUME NEW q \in RowsOf(csv') PROVE q.serial.num \in Nat /\ q.serial.num < nextSerial'
  BY <1>2, <1>3, <1>4, <1>5 DEF CountInv
<1> QED
  BY <1>7, <1>8 DEF CountInv

\* The other steps leave the history alone, and no slot starts to write.
LEMMA OtherCount ==
  TypeInv /\ CountInv /\ [Next]_vars /\ ~CommitRecord /\ ~Restart => CountInv'
PROOF
<1> SUFFICES ASSUME TypeInv, CountInv, [Next]_vars, ~CommitRecord, ~Restart PROVE CountInv'
  OBVIOUS
<1>1. nextSerial \in Nat /\ nextSerial <= nextSerial
  BY DEF TypeInv, TypeOK
<1>2. ASSUME SameNumbers, UNCHANGED csv, nextSerial' \in Nat, nextSerial <= nextSerial'
      PROVE  CountInv'
  BY <1>2, CountKeep DEF SameNumbers
<1>3. CASE MacReturns \/ WriteReturns \/ PrintLabel
  <2>1. UNCHANGED <<csv, nextSerial>>
    BY <1>3 DEF MacReturns, WriteReturns, PrintLabel, uiVars
  <2>2. depth \in 1 .. MaxDepth /\ depth > 0 /\ frame[depth] \in Frames
        /\ frame[depth].pc \in Writing
    BY <1>3, StackAssumption
       DEF MacReturns, WriteReturns, PrintLabel, TypeInv, TypeOK, LoopTypeOK, Writing
  <2>3. CASE Leave
    BY <1>1, <1>2, <2>1, <2>2, <2>3, LeaveNumbers
  <2>4. ASSUME NEW f, Continue(f), f.serial = frame[depth].serial PROVE CountInv'
    <3>1. SameNumbers
      BY <2>2, <2>4 DEF Continue, SameNumbers, TypeInv, TypeOK, LoopTypeOK
    <3> QED
      BY <1>1, <1>2, <2>1, <3>1
  <2>5. CASE MacReturns
    <3> DEFINE g == [frame[depth] EXCEPT !.pc = "writeWait", !.mac = frame[depth].resp.mac,
                                         !.guarded = snMode.preventDuplicate,
                                         !.resp = NoPacket, !.quit = FALSE]
    <3>1. Leave \/ Continue(g)
      BY <2>5 DEF MacReturns, Fail
    <3>2. g.serial = frame[depth].serial
      BY <2>2 DEF Frames
    <3> HIDE DEF g
    <3> QED
      BY <2>3, <2>4, <3>1, <3>2
  <2>6. CASE WriteReturns \/ PrintLabel
    <3>1. \/ Leave
          \/ Continue([frame[depth] EXCEPT !.pc = "print"])
          \/ Continue([frame[depth] EXCEPT !.pc = "commit"])
      BY <2>6 DEF WriteReturns, PrintLabel, Fail
    <3>2. /\ [frame[depth] EXCEPT !.pc = "print"].serial = frame[depth].serial
          /\ [frame[depth] EXCEPT !.pc = "commit"].serial = frame[depth].serial
      BY <2>2 DEF Frames
    <3> QED
      BY <2>3, <2>4, <3>1, <3>2
  <2> QED
    BY <1>3, <2>5, <2>6
<1>4. CASE UNCHANGED <<loopVars, csv, nextSerial>>
  BY <1>1, <1>2, <1>4 DEF SameNumbers, loopVars
<1>5. CASE OnConnectClicked \/ OnDisconnectClicked \/ SendClicked \/ EditUsbFields
  BY <1>4, <1>5
     DEF OnConnectClicked, OnDisconnectClicked, SendClicked, OnSendClicked, EditUsbFields,
         uiVars, outVars
<1>6. CASE OnWriteNextSerialClicked
  BY <1>4, <1>6, BeginWriteCount DEF OnWriteNextSerialClicked, uiVars, outVars
<1>7. CASE TickWrites
  BY <1>4, <1>7, BeginWriteCount DEF TickWrites, uiVars, outVars
<1>8. CASE OnStartAutoSnClicked \/ OnStopAutoSnClicked \/ TickBadConfig
  <2>1. RetireTicks /\ UNCHANGED csv
    BY <1>8 DEF OnStartAutoSnClicked, OnStopAutoSnClicked, TickBadConfig, StopAuto, outVars
  <2>2. nextSerial' \in Nat /\ nextSerial <= nextSerial'
    BY <1>1, <1>8, RaisedBeyond
       DEF OnStartAutoSnClicked, OnStopAutoSnClicked, TickBadConfig, StopAuto
  <2>3. \A f \in Frames : LET g == [f EXCEPT !.live = FALSE]
                          IN  g.pc = f.pc /\ g.serial = f.serial
    BY DEF Frames
  <2>4. SameNumbers
    BY <2>1, <2>3 DEF RetireTicks, SameNumbers, TypeInv, TypeOK, LoopTypeOK
  <2> QED
    BY <1>2, <2>1, <2>2, <2>4
<1>9. CASE OnSnSettingsClicked
  <2> DEFINE f == [NoFrame EXCEPT !.kind = "dialog", !.pc = "exec"]
  <2>1. Call(f) /\ UNCHANGED <<csv, nextSerial>>
    BY <1>9 DEF OnSnSettingsClicked, uiVars, outVars
  <2>2. f.pc \notin Writing
    BY DEF NoFrame, Writing
  <2> HIDE DEF f
  <2>3. SameNumbers
    BY <2>1, <2>2 DEF Call, SameNumbers, TypeInv, TypeOK, LoopTypeOK
  <2> QED
    BY <1>1, <1>2, <2>1, <2>3
<1>10. CASE Dialog \/ Timeout
  <2>1. PICK i \in 1 .. MaxDepth :
          \/ \E c : frame' = [frame EXCEPT ![i].quit = TRUE, ![i].choice = c]
          \/ frame' = [frame EXCEPT ![i].quit = TRUE]
    BY <1>10, Zenon DEF Dialog, CloseDialog, Timeout, Timer, RequestTimeout
  <2>2. \A j \in 1 .. MaxDepth :
          frame[j] \in Frames /\ (j # i => frame'[j] = frame[j])
    BY <2>1 DEF TypeInv, TypeOK, LoopTypeOK
  <2>3. frame'[i].pc = frame[i].pc /\ frame'[i].serial = frame[i].serial
    <3>1. CASE frame' = [frame EXCEPT ![i].quit = TRUE]
      <4>1. frame'[i] = [frame[i] EXCEPT !.quit = TRUE]
        BY <3>1 DEF TypeInv, TypeOK, LoopTypeOK
      <4> QED
        BY <2>2, <4>1 DEF Frames
    <3>2. ASSUME NEW c, frame' = [frame EXCEPT ![i].quit = TRUE, ![i].choice = c]
          PROVE  frame'[i].pc = frame[i].pc /\ frame'[i].serial = frame[i].serial
      <4>1. frame'[i] = [frame[i] EXCEPT !.quit = TRUE, !.choice = c]
        BY <3>2 DEF TypeInv, TypeOK, LoopTypeOK
      <4> QED
        BY <2>2, <4>1 DEF Frames
    <3> QED
      BY <2>1, <3>1, <3>2
  <2>5. SameNumbers
    BY <2>2, <2>3 DEF SameNumbers
  <2>4. UNCHANGED <<csv, nextSerial>>
    BY <1>10 DEF Dialog, CloseDialog, Timeout, Timer, RequestTimeout, uiVars, outVars
  <2> QED
    BY <1>1, <1>2, <2>4, <2>5
<1>11. CASE DialogReturns
  <2>1. SameNumbers /\ UNCHANGED csv
    BY <1>11, LeaveNumbers DEF DialogReturns, outVars
  <2>2. nextSerial' \in Nat /\ nextSerial <= nextSerial'
    <3>1. frame[depth] \in Frames
      BY <1>11, StackAssumption DEF DialogReturns, TypeInv, TypeOK, LoopTypeOK
    <3>2. frame[depth].choice # NoSettings => frame[depth].choice.start \in Nat
      BY <3>1, SettingsAssumption DEF Frames, SettingsType
    <3> QED
      BY <1>1, <1>11, <3>2 DEF DialogReturns
  <2> QED
    BY <1>2, <2>1, <2>2
<1>12. CASE Poll
  <2>1. PICK p : Deliver(p)
    BY <1>12 DEF Poll, PollRead
  <2>2. \A f \in Frames : LET g == [f EXCEPT !.resp = p, !.quit = TRUE]
                          IN  g.pc = f.pc /\ g.serial = f.serial
    BY DEF Frames
  <2>3. SameNumbers
    BY <2>1, <2>2 DEF Deliver, SameNumbers, TypeInv, TypeOK, LoopTypeOK
  <2> QED
    BY <1>1, <1>2, <1>12, <2>3 DEF Poll, uiVars, outVars
<1>13. CASE TickNoDevice \/ TickArmed \/ PlugAny \/ Unplug \/ Firmware \/ UNCHANGED vars
  BY <1>4, <1>13
     DEF TickNoDevice, TickArmed, PlugAny, Plug, Unplug, Firmware, vars, uiVars, outVars
<1> QED
  BY <1>3, <1>5, <1>6, <1>7, <1>8, <1>9, <1>10, <1>11, <1>12, <1>13 DEF Next, OnAutoSnTick

\* While the program runs, no request builds a number that the history has,
\* whatever the operator clicks, however the slots nest, and with rows that are
\* lost.  (A restart begins at the start number again.)
THEOREM CounterAheadTheorem ==
  ASSUME "crash" \notin Faults, "quit" \notin Faults PROVE Spec => []CounterAhead
PROOF
<1>1. Init => CountInv
  BY DEF Init, LoopInit, CountInv, NoFrame, Writing, RowsOf
<1>2. ~Restart
  BY DEF Restart
<1>3. TypeInv /\ CountInv /\ [Next]_vars => CountInv'
  BY <1>2, CommitCount, OtherCount
<1>4. CountInv => CounterAhead
  BY DEF CountInv, CounterAhead
<1> QED
  BY <1>1, <1>3, <1>4, TypeInvariant, PTL DEF Spec

-----------------------------------------------------------------------------
(***************************************************************************)
(* The history repeats nothing: UniqueRecords for a disciplined operator   *)
(* and a history that can be read, whatever the number of units, the       *)
(* settings and the other faults.                                          *)
(*                                                                         *)
(* The hazard is the distance between the search of the history and the    *)
(* append: two event loops, a printer and any number of other slots may    *)
(* come between.  The invariant that bridges it has three parts: the shape *)
(* of the call stack (one write at a time, over a dialog at most), what    *)
(* the search has found for a write that is past it, and that the number   *)
(* in flight is the one the counter stands at.                             *)
(***************************************************************************)

\* One slot writes at a time; a second slot is a tick over an open dialog.
StackInv ==
  /\ \A i \in 1 .. MaxDepth : i > depth => frame[i] = NoFrame
  /\ \A i \in 1 .. depth :
       /\ frame[i].kind \in {"tick", "manual", "dialog"}
       /\ frame[i].kind = "dialog" <=> frame[i].pc = "exec"
       /\ frame[i].kind = "tick" => frame[i].live
       /\ frame[i].kind = "manual" => ~autoTimer
  /\ \A i, j \in 1 .. depth : i < j => frame[i].kind = "dialog" /\ frame[j].kind = "tick"

\* A write that was checked against the history is still not in it.
GuardInv ==
  \A i \in 1 .. depth :
    frame[i].pc \in Searched /\ frame[i].guarded
      => ~IsDuplicateRecord(RowsOf(csv), frame[i].mac, frame[i].serial)

FlowInv == StackInv /\ GuardInv /\ InFlightIsNext /\ UniqueRecords

\* What the proof asks of the operator and of the file system.
Careful == Disciplined = TRUE /\ "unreadable" \notin Faults

-----------------------------------------------------------------------------
(* The call stack.                                                         *)

LEMMA StackSize ==
  ASSUME TypeInv, StackInv
  PROVE  /\ depth \in 0 .. MaxDepth /\ MaxDepth \in Nat
         /\ depth <= 2
         /\ depth = 2 => frame[1].kind = "dialog" /\ frame[2].kind = "tick"
PROOF
<1>1. depth \in 0 .. MaxDepth /\ MaxDepth \in Nat
  BY StackAssumption DEF TypeInv, TypeOK, LoopTypeOK
<1>2. depth <= 2
  <2>1. SUFFICES ASSUME depth > 2 PROVE FALSE
    BY <1>1
  <2>2. 1 \in 1 .. depth /\ 2 \in 1 .. depth /\ 3 \in 1 .. depth
    BY <1>1, <2>1
  <2>3. frame[2].kind = "tick" /\ frame[2].kind = "dialog"
    BY <2>2 DEF StackInv
  <2> QED
    BY <2>3
<1> QED
  BY <1>1, <1>2 DEF StackInv

\* When a slot that may be called is called, no write is in progress.
LEMMA NoWriter ==
  ASSUME TypeInv, StackInv, Careful, depth = 0 \/ TickFires
  PROVE  /\ depth <= 1
         /\ \A i \in 1 .. depth : frame[i].kind = "dialog"
PROOF
<1>1. CASE depth = 0
  BY <1>1
<1>2. CASE TickFires
  <2>1. \A i \in 1 .. depth : frame[i].kind = "dialog"
    BY <1>2 DEF TickFires, StackInv
  <2> QED
    BY <2>1, StackSize
<1> QED
  BY <1>1, <1>2

\* The slot on top of another is a tick, so under any but a lone slot there is
\* a dialog.
LEMMA BelowTop ==
  ASSUME TypeInv, StackInv, depth > 0
  PROVE  /\ depth \in 1 .. MaxDepth
         /\ MaxDepth \in Nat
         /\ \A i \in 1 .. depth - 1 :
              i \in 1 .. MaxDepth /\ i # depth /\ frame[i].kind = "dialog"
BY StackSize DEF StackInv

\* Leaving a slot keeps the shape of the stack, and what the slots below know.
LEMMA LeaveStack ==
  ASSUME TypeInv, StackInv, depth > 0, Leave, UNCHANGED autoTimer
  PROVE  /\ StackInv'
         /\ \A i \in 1 .. depth' : frame'[i] = frame[i] /\ frame[i].kind = "dialog"
PROOF
<1>1. /\ depth \in 1 .. MaxDepth
      /\ MaxDepth \in Nat
      /\ \A i \in 1 .. depth - 1 :
           i \in 1 .. MaxDepth /\ i # depth /\ frame[i].kind = "dialog"
  BY BelowTop
<1>2. /\ depth' = depth - 1
      /\ \A i \in 1 .. MaxDepth : frame'[i] = IF i = depth THEN NoFrame ELSE frame[i]
  BY DEF Leave, TypeInv, TypeOK, LoopTypeOK
<1>3. \A i \in 1 .. depth' : frame'[i] = frame[i] /\ frame[i].kind = "dialog"
  BY <1>1, <1>2
<1>4. \A i \in 1 .. MaxDepth : i > depth' => frame'[i] = NoFrame
  BY <1>1, <1>2 DEF StackInv
<1> QED
  BY <1>1, <1>2, <1>3, <1>4 DEF StackInv

\* Calling a slot over dialogs keeps it, if the slot is one the stack allows.
LEMMA CallStack ==
  ASSUME TypeInv, StackInv, NEW f \in Frames, Call(f), UNCHANGED autoTimer,
         depth <= 1, \A i \in 1 .. depth : frame[i].kind = "dialog",
         f.kind \in {"tick", "manual", "dialog"},
         f.kind = "dialog" <=> f.pc = "exec",
         f.kind = "tick" => f.live,
         f.kind = "manual" => ~autoTimer,
         depth = 1 => f.kind = "tick"
  PROVE  /\ StackInv'
         /\ depth' = depth + 1
         /\ frame'[depth'] = f
         /\ \A i \in 1 .. depth' :
              i # depth' => frame'[i] = frame[i] /\ frame[i].kind = "dialog" /\ i \in 1 .. depth
PROOF
<1>1. depth \in 0 .. MaxDepth /\ depth + 1 \in 1 .. MaxDepth /\ MaxDepth \in Nat
  BY StackSize DEF Call
<1>2. /\ depth' = depth + 1
      /\ \A i \in 1 .. MaxDepth : frame'[i] = IF i = depth + 1 THEN f ELSE frame[i]
  BY DEF Call, TypeInv, TypeOK, LoopTypeOK
<1>3. frame'[depth'] = f
  BY <1>1, <1>2
<1>4. \A i \in 1 .. depth' :
        i # depth' => frame'[i] = frame[i] /\ frame[i].kind = "dialog" /\ i \in 1 .. depth
  BY <1>1, <1>2
<1>5. \A i \in 1 .. MaxDepth : i > depth' => frame'[i] = NoFrame
  BY <1>1, <1>2 DEF StackInv
<1>6. \A i \in 1 .. depth' :
       /\ frame'[i].kind \in {"tick", "manual", "dialog"}
       /\ frame'[i].kind = "dialog" <=> frame'[i].pc = "exec"
       /\ frame'[i].kind = "tick" => frame'[i].live
       /\ frame'[i].kind = "manual" => ~autoTimer'
  <2> SUFFICES ASSUME NEW i \in 1 .. depth'
               PROVE  /\ frame'[i].kind \in {"tick", "manual", "dialog"}
                      /\ frame'[i].kind = "dialog" <=> frame'[i].pc = "exec"
                      /\ frame'[i].kind = "tick" => frame'[i].live
                      /\ frame'[i].kind = "manual" => ~autoTimer'
    OBVIOUS
  <2>1. CASE i = depth'
    BY <1>3, <2>1
  <2>2. CASE i # depth'
    BY <1>4, <2>2 DEF StackInv
  <2> QED
    BY <2>1, <2>2
<1>7. \A i, j \in 1 .. depth' : i < j => frame'[i].kind = "dialog" /\ frame'[j].kind = "tick"
  BY <1>1, <1>2, <1>3, <1>4
<1> QED
  BY <1>2, <1>3, <1>4, <1>5, <1>6, <1>7 DEF StackInv

\* A step that leaves the slots where they are keeps everything.
LEMMA SameSlots ==
  ASSUME TypeInv, FlowInv,
         UNCHANGED <<depth, csv, snMode, nextSerial>>,
         autoTimer' => autoTimer \/ depth = 0,
         \A i \in 1 .. MaxDepth :
           /\ frame'[i].kind = frame[i].kind /\ frame'[i].pc = frame[i].pc
           /\ frame'[i].live = frame[i].live /\ frame'[i].serial = frame[i].serial
           /\ frame'[i].mac = frame[i].mac /\ frame'[i].guarded = frame[i].guarded
           /\ i > depth => frame'[i] = frame[i]
  PROVE  FlowInv'
PROOF
<1>1. depth \in 0 .. MaxDepth /\ MaxDepth \in Nat
  BY StackSize DEF FlowInv
<1>2. \A i \in 1 .. depth : i \in 1 .. MaxDepth
  BY <1>1
<1>3. StackInv'
  BY <1>1, <1>2 DEF FlowInv, StackInv
<1>4. GuardInv'
  BY <1>2 DEF FlowInv, GuardInv
<1>5. InFlightIsNext'
  BY <1>2 DEF FlowInv, InFlightIsNext, SerialOf
<1>6. UniqueRecords'
  BY DEF FlowInv, UniqueRecords
<1> QED
  BY <1>3, <1>4, <1>5, <1>6 DEF FlowInv
-----------------------------------------------------------------------------
(* The actions.                                                            *)

LEMMA InitFlow == Init => FlowInv
BY StackAssumption
   DEF Init, LoopInit, FlowInv, StackInv, GuardInv, InFlightIsNext, UniqueRecords

\* A slot that ends without a record leaves no writer behind.
LEMMA LeaveFlow ==
  ASSUME TypeInv, FlowInv, depth > 0, Leave, UNCHANGED <<autoTimer, csv>>
  PROVE  FlowInv'
PROOF
<1>1. /\ StackInv'
      /\ \A i \in 1 .. depth' : frame'[i] = frame[i] /\ frame[i].kind = "dialog"
  BY LeaveStack DEF FlowInv
<1>2. \A i \in 1 .. depth' : frame'[i].pc = "exec"
  BY <1>1 DEF StackInv
<1>3. GuardInv' /\ InFlightIsNext'
  BY <1>1, <1>2 DEF GuardInv, InFlightIsNext, Searched
<1>4. UniqueRecords'
  BY DEF FlowInv, UniqueRecords
<1> QED
  BY <1>1, <1>3, <1>4 DEF FlowInv

\* The top slot goes on.
LEMMA ContinueFlow ==
  ASSUME TypeInv, FlowInv, depth > 0, NEW f \in Frames, Continue(f),
         UNCHANGED <<autoTimer, csv, snMode, nextSerial>>,
         frame[depth].pc \in Writing, f.pc \in Writing,
         f.kind = frame[depth].kind, f.live = frame[depth].live, f.serial = frame[depth].serial,
         f.pc \in Searched /\ f.guarded => ~IsDuplicateRecord(RowsOf(csv), f.mac, f.serial)
  PROVE  FlowInv'
PROOF
<1>1. depth \in 1 .. MaxDepth /\ MaxDepth \in Nat /\ depth' = depth
  BY BelowTop DEF FlowInv, Continue
<1>2. \A i \in 1 .. MaxDepth : frame'[i] = IF i = depth THEN f ELSE frame[i]
  BY DEF Continue, TypeInv, TypeOK, LoopTypeOK
<1>3. f.kind # "dialog" /\ f.pc # "exec"
  BY <1>1 DEF FlowInv, StackInv, Writing
<1>4. StackInv'
  <2>1. \A i \in 1 .. MaxDepth : i > depth' => frame'[i] = NoFrame
    BY <1>1, <1>2 DEF FlowInv, StackInv
  <2>2. \A i \in 1 .. depth' :
         /\ frame'[i].kind \in {"tick", "manual", "dialog"}
         /\ frame'[i].kind = "dialog" <=> frame'[i].pc = "exec"
         /\ frame'[i].kind = "tick" => frame'[i].live
         /\ frame'[i].kind = "manual" => ~autoTimer'
    BY <1>1, <1>2, <1>3 DEF FlowInv, StackInv
  <2>3. \A i, j \in 1 .. depth' : i < j => frame'[i].kind = "dialog" /\ frame'[j].kind = "tick"
    BY <1>1, <1>2 DEF FlowInv, StackInv
  <2> QED
    BY <2>1, <2>2, <2>3 DEF StackInv
<1>5. GuardInv'
  BY <1>1, <1>2 DEF FlowInv, GuardInv
<1>6. InFlightIsNext'
  BY <1>1, <1>2 DEF FlowInv, InFlightIsNext, SerialOf
<1>7. UniqueRecords'
  BY DEF FlowInv, UniqueRecords
<1> QED
  BY <1>4, <1>5, <1>6, <1>7 DEF FlowInv

LEMMA MacReturnsFlow == TypeInv /\ FlowInv /\ Careful /\ MacReturns => FlowInv'
PROOF
<1> SUFFICES ASSUME TypeInv, FlowInv, Careful, MacReturns PROVE FlowInv'
  OBVIOUS
<1> DEFINE f == frame[depth]
           g == [f EXCEPT !.pc = "writeWait", !.mac = f.resp.mac,
                          !.guarded = snMode.preventDuplicate,
                          !.resp = NoPacket, !.quit = FALSE]
<1>1. depth > 0 /\ UNCHANGED <<autoTimer, csv, snMode, nextSerial>>
  BY DEF MacReturns, uiVars
<1>2. f \in Frames /\ f.pc = "macWait"
  BY <1>1, BelowTop DEF FlowInv, TypeInv, TypeOK, LoopTypeOK, MacReturns
<1>3. CASE Leave
  BY <1>1, <1>3, LeaveFlow
<1>4. CASE /\ AcceptsMac(f.resp)
           /\ Continue(g)
           /\ ~(snMode.preventDuplicate /\ IsDuplicateRecord(RowsOf(csv), f.resp.mac, f.serial))
  <2>1. f.resp.mac \in Units /\ snMode.preventDuplicate \in BOOLEAN
    BY <1>2, <1>4, SettingsAssumption
       DEF AcceptsMac, Frames, Packets, TypeInv, TypeOK, SettingsType
  <2>2. /\ g \in Frames
        /\ g.pc = "writeWait" /\ g.kind = f.kind /\ g.live = f.live /\ g.serial = f.serial
        /\ g.mac = f.resp.mac /\ g.guarded = snMode.preventDuplicate
    BY <1>2, <2>1 DEF Frames, Pcs
  <2> HIDE DEF g
  <2> QED
    BY <1>1, <1>2, <1>4, <2>2, ContinueFlow DEF Writing
<1>5. Leave \/ <1>4!1
  BY Zenon DEF MacReturns, Fail, ReadableRows, Careful
<1> QED
  BY <1>3, <1>4, <1>5

LEMMA WriteReturnsFlow == TypeInv /\ FlowInv /\ WriteReturns => FlowInv'
PROOF
<1> SUFFICES ASSUME TypeInv, FlowInv, WriteReturns PROVE FlowInv'
  OBVIOUS
<1> DEFINE f == frame[depth]
           g == [f EXCEPT !.pc = "print"]
<1>1. depth > 0 /\ UNCHANGED <<autoTimer, csv, snMode, nextSerial>>
  BY DEF WriteReturns, uiVars
<1>2. f \in Frames /\ f.pc = "writeWait" /\ depth \in 1 .. depth
  BY <1>1, BelowTop DEF FlowInv, TypeInv, TypeOK, LoopTypeOK, WriteReturns
<1>3. CASE Leave
  BY <1>1, <1>3, LeaveFlow
<1>4. CASE Continue(g)
  <2>1. /\ g \in Frames
        /\ g.pc = "print" /\ g.kind = f.kind /\ g.live = f.live /\ g.serial = f.serial
        /\ g.mac = f.mac /\ g.guarded = f.guarded
    BY <1>2 DEF Frames, Pcs
  <2>2. g.guarded => ~IsDuplicateRecord(RowsOf(csv), g.mac, g.serial)
    BY <1>2, <2>1 DEF FlowInv, GuardInv, Searched
  <2> HIDE DEF g
  <2> QED
    BY <1>1, <1>2, <1>4, <2>1, <2>2, ContinueFlow DEF Writing
<1> QED
  BY <1>3, <1>4 DEF WriteReturns, Fail

LEMMA PrintLabelFlow == TypeInv /\ FlowInv /\ PrintLabel => FlowInv'
PROOF
<1> SUFFICES ASSUME TypeInv, FlowInv, PrintLabel PROVE FlowInv'
  OBVIOUS
<1> DEFINE f == frame[depth]
           g == [f EXCEPT !.pc = "commit"]
<1>1. depth > 0 /\ UNCHANGED <<autoTimer, csv, snMode, nextSerial>> /\ Continue(g)
  BY DEF PrintLabel, uiVars
<1>2. f \in Frames /\ f.pc = "print" /\ depth \in 1 .. depth
  BY <1>1, BelowTop DEF FlowInv, TypeInv, TypeOK, LoopTypeOK, PrintLabel
<1>3. /\ g \in Frames
      /\ g.pc = "commit" /\ g.kind = f.kind /\ g.live = f.live /\ g.serial = f.serial
      /\ g.mac = f.mac /\ g.guarded = f.guarded
  BY <1>2 DEF Frames, Pcs
<1>4. g.guarded => ~IsDuplicateRecord(RowsOf(csv), g.mac, g.serial)
  BY <1>2, <1>3 DEF FlowInv, GuardInv, Searched
<1> HIDE DEF g
<1> QED
  BY <1>1, <1>2, <1>3, <1>4, ContinueFlow DEF Writing

\* With no write in progress there is nothing to know but the history.
LEMMA IdleFlow ==
  ASSUME FlowInv, StackInv', UNCHANGED csv, \A i \in 1 .. depth' : frame'[i].kind = "dialog"
  PROVE  FlowInv'
PROOF
<1>1. \A i \in 1 .. depth' : frame'[i].pc = "exec"
  BY DEF StackInv
<1>2. GuardInv' /\ InFlightIsNext'
  BY <1>1 DEF GuardInv, InFlightIsNext, Searched
<1>3. UniqueRecords'
  BY DEF FlowInv, UniqueRecords
<1> QED
  BY <1>2, <1>3 DEF FlowInv

\* The stack is empty after the step, or was and stays so.
LEMMA EmptyFlow ==
  ASSUME FlowInv, UNCHANGED csv, depth' = 0, \A i \in 1 .. MaxDepth : frame'[i] = NoFrame
  PROVE  FlowInv'
PROOF
<1>1. StackInv'
  BY DEF StackInv
<1> QED
  BY <1>1, IdleFlow

\* The row appended is that of the top slot, which the search has not found,
\* and the slots left are dialogs.
LEMMA CommitRecordFlow == TypeInv /\ FlowInv /\ CommitRecord => FlowInv'
PROOF
<1> SUFFICES ASSUME TypeInv, FlowInv, CommitRecord PROVE FlowInv'
  OBVIOUS
<1> DEFINE f == frame[depth]
           r == RowOf(f)
<1>1. depth > 0 /\ Leave /\ UNCHANGED autoTimer /\ f.pc = "commit" /\ AppendCsvRecord(r)
  BY DEF CommitRecord
<1>2. CASE UNCHANGED csv
  BY <1>1, <1>2, LeaveFlow
<1>3. CASE csv' = Append(csv, r)
  <2>1. /\ StackInv'
        /\ \A i \in 1 .. depth' : frame'[i] = frame[i] /\ frame[i].kind = "dialog"
    BY <1>1, LeaveStack DEF FlowInv
  <2>2. \A i \in 1 .. depth' : frame'[i].pc = "exec"
    BY <2>1 DEF StackInv
  <2>3. GuardInv' /\ InFlightIsNext'
    BY <2>1, <2>2 DEF GuardInv, InFlightIsNext, Searched
  <2>4. depth \in 1 .. depth /\ csv \in Seq(Rows) /\ Len(csv) \in Nat
    BY <1>1, BelowTop DEF FlowInv, TypeInv, TypeOK
  <2>5. r.guarded = f.guarded /\ r.mac = f.mac /\ r.serial = f.serial
    BY DEF RowOf
  <2>6. \A i \in 1 .. Len(csv) :
          f.guarded => csv[i].mac # f.mac /\ csv[i].serial # f.serial
    BY <1>1, <2>4 DEF FlowInv, GuardInv, Searched, IsDuplicateRecord, RowsOf
  <2>7. /\ Len(csv') = Len(csv) + 1
        /\ csv'[Len(csv) + 1] = r
        /\ \A i \in 1 .. Len(csv) : csv'[i] = csv[i]
    <3> HIDE DEF r
    <3> QED
      BY <1>3, <2>4
  <2>8. UniqueRecords'
    <3> SUFFICES ASSUME NEW i \in 1 .. Len(csv'), NEW j \in 1 .. Len(csv'),
                        i < j, csv'[j].guarded
                 PROVE  csv'[i].mac # csv'[j].mac /\ csv'[i].serial # csv'[j].serial
      BY DEF UniqueRecords
    <3>1. i \in 1 .. Len(csv) /\ csv'[i] = csv[i]
      BY <2>4, <2>7
    <3>2. CASE j = Len(csv) + 1
      <4>1. csv'[j] = r
        BY <2>7, <3>2
      <4> HIDE DEF r, f
      <4> QED
        BY <2>5, <2>6, <3>1, <4>1
    <3>3. CASE j # Len(csv) + 1
      <4>1. j \in 1 .. Len(csv) /\ csv'[j] = csv[j]
        BY <2>4, <2>7, <3>3
      <4> QED
        BY <3>1, <4>1 DEF FlowInv, UniqueRecords
    <3> QED
      BY <3>2, <3>3
  <2> QED
    BY <2>1, <2>3, <2>8 DEF FlowInv
<1> QED
  BY <1>1, <1>2, <1>3 DEF AppendCsvRecord

\* A write begins with the number the counter has just been set to.
LEMMA BeginWriteFlow ==
  ASSUME TypeInv, FlowInv, NEW k \in {"tick", "manual"}, NEW d, BeginWrite(k, d),
         depth <= 1, \A i \in 1 .. depth : frame[i].kind = "dialog",
         k = "manual" => ~autoTimer /\ depth = 0
  PROVE  FlowInv'
PROOF
<1> DEFINE f == WriteFrame(k, SerialOf(snMode, nextSerial'))
<1>1. UNCHANGED <<snMode, autoTimer, csv>> /\ nextSerial' = Raised(snMode, nextSerial)
  BY DEF BeginWrite
<1>2. CASE UNCHANGED loopVars
  <2>1. StackInv'
    BY <1>1, <1>2 DEF FlowInv, StackInv, loopVars
  <2> QED
    BY <1>1, <1>2, <2>1, IdleFlow DEF loopVars
<1>3. CASE ValidRange(snMode) /\ Fits(snMode, nextSerial') /\ Call(f)
  <2>1. SerialOf(snMode, nextSerial') \in Serials
    BY <1>1, <1>3, RaisedLemma DEF TypeInv, TypeOK
  <2>2. /\ f \in Frames
        /\ f.kind = k /\ f.pc = "macWait" /\ f.serial = SerialOf(snMode, nextSerial')
        /\ f.kind = "tick" => f.live
    BY <2>1, WriteFrameLemma DEF WriteFrame, NoFrame
  <2> HIDE DEF f
  <2>3. /\ StackInv'
        /\ depth' = depth + 1
        /\ frame'[depth'] = f
        /\ \A i \in 1 .. depth' :
             i # depth' => frame'[i] = frame[i] /\ frame[i].kind = "dialog" /\ i \in 1 .. depth
    <3>1. depth = 0 \/ depth = 1
      BY StackSize DEF FlowInv
    <3>2. depth = 1 => f.kind = "tick"
      BY <2>2
    <3>3. StackInv
      BY DEF FlowInv
    <3> QED
      BY <1>1, <1>3, <2>2, <3>2, <3>3, CallStack
  <2>4. \A i \in 1 .. depth' : i # depth' => frame'[i].pc = "exec" /\ frame'[i].kind = "dialog"
    BY <2>3 DEF StackInv
  <2>5. GuardInv'
    BY <2>2, <2>3, <2>4 DEF GuardInv, Searched
  <2>6. InFlightIsNext'
    BY <1>1, <2>2, <2>3, <2>4 DEF InFlightIsNext, SerialOf
  <2>7. UniqueRecords'
    BY <1>1 DEF FlowInv, UniqueRecords
  <2> QED
    BY <2>3, <2>5, <2>6, <2>7 DEF FlowInv
<1>4. UNCHANGED loopVars \/ <1>3!1
  BY Zenon DEF BeginWrite
<1> QED
  BY <1>2, <1>3, <1>4

\* A careful operator clicks only while no slot is in progress.
LEMMA IdleClick ==
  ASSUME TypeInv, FlowInv, Careful, NEW b, Click(b)
  PROVE  depth = 0 /\ \A i \in 1 .. MaxDepth : frame[i] = NoFrame
BY DEF Click, Careful, FlowInv, StackInv, TypeInv, TypeOK, LoopTypeOK

LEMMA ManualFlow == TypeInv /\ FlowInv /\ Careful /\ OnWriteNextSerialClicked => FlowInv'
PROOF
<1> SUFFICES ASSUME TypeInv, FlowInv, Careful, OnWriteNextSerialClicked PROVE FlowInv'
  OBVIOUS
<1>1. depth = 0 /\ ~autoTimer /\ \A i \in 1 .. MaxDepth : frame[i] = NoFrame
  BY IdleClick DEF OnWriteNextSerialClicked, ManualClick, Careful
<1>2. CASE UNCHANGED <<loopVars, uiVars, outVars>>
  BY <1>1, <1>2, EmptyFlow DEF loopVars, outVars
<1>3. ASSUME NEW d, BeginWrite("manual", d) PROVE FlowInv'
  <2>1. \A i \in 1 .. depth : frame[i].kind = "dialog"
    BY <1>1
  <2> QED
    BY <1>1, <1>3, <2>1, BeginWriteFlow
<1> QED
  BY <1>2, <1>3 DEF OnWriteNextSerialClicked

LEMMA TickWritesFlow == TypeInv /\ FlowInv /\ Careful /\ TickWrites => FlowInv'
PROOF
<1> SUFFICES ASSUME TypeInv, FlowInv, Careful, TickWrites PROVE FlowInv'
  OBVIOUS
<1>1. depth <= 1 /\ \A i \in 1 .. depth : frame[i].kind = "dialog"
  BY NoWriter DEF FlowInv, TickWrites
<1>2. CASE UNCHANGED <<loopVars, uiVars, outVars>>
  BY <1>2, SameSlots DEF loopVars, uiVars, outVars
<1>3. ASSUME NEW d, BeginWrite("tick", d) PROVE FlowInv'
  BY <1>1, <1>3, BeginWriteFlow
<1> QED
  BY <1>2, <1>3 DEF TickWrites

\* Starting, stopping and the other clicks happen over an empty stack.
LEMMA ClickFlow ==
  TypeInv /\ FlowInv /\ Careful
    /\ (OnConnectClicked \/ OnDisconnectClicked \/ SendClicked \/ EditUsbFields
        \/ OnStartAutoSnClicked \/ OnStopAutoSnClicked) => FlowInv'
PROOF
<1> SUFFICES ASSUME TypeInv, FlowInv, Careful,
                    OnConnectClicked \/ OnDisconnectClicked \/ SendClicked \/ EditUsbFields
                      \/ OnStartAutoSnClicked \/ OnStopAutoSnClicked
             PROVE  FlowInv'
  OBVIOUS
<1>1. depth = 0 /\ \A i \in 1 .. MaxDepth : frame[i] = NoFrame
  BY IdleClick
     DEF OnConnectClicked, OnDisconnectClicked, SendClicked, OnSendClicked, ManualClick,
         EditUsbFields, OnStartAutoSnClicked, OnStopAutoSnClicked
<1>2. depth' = 0 /\ UNCHANGED csv /\ (UNCHANGED frame \/ RetireTicks)
  BY <1>1
     DEF OnConnectClicked, OnDisconnectClicked, SendClicked, OnSendClicked, EditUsbFields,
         OnStartAutoSnClicked, OnStopAutoSnClicked, StopAuto, loopVars, outVars
<1>3. NoFrame.kind # "tick"
  BY DEF NoFrame
<1>4. \A i \in 1 .. MaxDepth : frame'[i] = NoFrame
  BY <1>1, <1>2, <1>3 DEF RetireTicks
<1> QED
  BY <1>2, <1>4, EmptyFlow

LEMMA DialogFlow ==
  TypeInv /\ FlowInv /\ Careful /\ (OnSnSettingsClicked \/ Dialog \/ DialogReturns) => FlowInv'
PROOF
<1> SUFFICES ASSUME TypeInv, FlowInv, Careful, OnSnSettingsClicked \/ Dialog \/ DialogReturns
             PROVE  FlowInv'
  OBVIOUS
<1>1. CASE OnSnSettingsClicked
  <2> DEFINE f == [NoFrame EXCEPT !.kind = "dialog", !.pc = "exec"]
  <2>1. depth = 0
    BY <1>1, IdleClick DEF OnSnSettingsClicked
  <2>2. f \in Frames /\ f.kind = "dialog" /\ f.pc = "exec"
    BY NoFrameOK DEF NoFrame, Frames, Kinds, Pcs
  <2>3. Call(f) /\ UNCHANGED <<autoTimer, csv>>
    BY <1>1 DEF OnSnSettingsClicked, uiVars, outVars
  <2> HIDE DEF f
  <2>4. /\ StackInv'
        /\ depth' = depth + 1
        /\ frame'[depth'] = f
    BY <2>1, <2>2, <2>3, CallStack DEF FlowInv
  <2> QED
    BY <2>1, <2>2, <2>3, <2>4, IdleFlow
<1>2. CASE Dialog
  <2>1. PICK i \in 1 .. MaxDepth, c \in Settings \cup {NoSettings} : CloseDialog(i, c)
    BY <1>2 DEF Dialog
  <2>2. depth \in 0 .. MaxDepth /\ i \in 1 .. depth
    BY <2>1, StackSize DEF CloseDialog, FlowInv
  <2>3. \A j \in 1 .. MaxDepth :
          frame'[j] = IF j = i THEN [frame[j] EXCEPT !.quit = TRUE, !.choice = c] ELSE frame[j]
    BY <2>1 DEF CloseDialog, TypeInv, TypeOK, LoopTypeOK
  <2>4. \A g \in Frames :
          LET h == [g EXCEPT !.quit = TRUE, !.choice = c]
          IN  /\ h.kind = g.kind /\ h.pc = g.pc /\ h.live = g.live
              /\ h.serial = g.serial /\ h.mac = g.mac /\ h.guarded = g.guarded
    BY DEF Frames
  <2>5. \A j \in 1 .. MaxDepth :
           /\ frame'[j].kind = frame[j].kind /\ frame'[j].pc = frame[j].pc
           /\ frame'[j].live = frame[j].live /\ frame'[j].serial = frame[j].serial
           /\ frame'[j].mac = frame[j].mac /\ frame'[j].guarded = frame[j].guarded
           /\ j > depth => frame'[j] = frame[j]
    <3> TAKE j \in 1 .. MaxDepth
    <3>1. frame[j] \in Frames
      BY DEF TypeInv, TypeOK, LoopTypeOK
    <3>2. CASE j = i
      <4>1. frame'[j] = [frame[j] EXCEPT !.quit = TRUE, !.choice = c]
        BY <2>3, <3>2, Zenon
      <4>2. j <= depth
        BY <2>2, <3>2
      <4> QED
        BY <2>2, <2>4, <3>1, <4>1, <4>2
    <3>3. CASE j # i
      BY <2>3, <3>3
    <3> QED
      BY <3>2, <3>3
  <2>6. UNCHANGED <<depth, csv, snMode, nextSerial, autoTimer>>
    BY <2>1 DEF CloseDialog, uiVars, outVars
  <2> QED
    BY <2>5, <2>6, SameSlots
<1>3. CASE DialogReturns
  BY <1>3, LeaveFlow DEF DialogReturns, outVars
<1> QED
  BY <1>1, <1>2, <1>3

\* Ticks that write nothing.
LEMMA TickFlow ==
  TypeInv /\ FlowInv /\ (TickBadConfig \/ TickNoDevice \/ TickArmed) => FlowInv'
PROOF
<1> SUFFICES ASSUME TypeInv, FlowInv, TickBadConfig \/ TickNoDevice \/ TickArmed PROVE FlowInv'
  OBVIOUS
<1>1. CASE TickBadConfig
  <2>1. depth \in 0 .. MaxDepth /\ MaxDepth \in Nat
    BY StackSize DEF FlowInv
  <2>2. \A i \in 1 .. depth : frame[i].kind # "tick"
    BY <1>1 DEF TickBadConfig, TickFires, FlowInv, StackInv
  <2>3. \A i \in 1 .. MaxDepth : frame[i].kind # "tick"
    BY <2>1, <2>2 DEF FlowInv, StackInv, NoFrame
  <2>4. \A i \in 1 .. MaxDepth : frame'[i] = frame[i]
    BY <1>1, <2>3 DEF TickBadConfig, StopAuto, RetireTicks
  <2>5. UNCHANGED <<depth, csv, snMode, nextSerial>> /\ ~autoTimer'
    BY <1>1 DEF TickBadConfig, StopAuto, outVars
  <2> QED
    BY <2>4, <2>5, SameSlots
<1>2. CASE TickNoDevice
  BY <1>2, SameSlots DEF TickNoDevice, loopVars, outVars
<1>3. CASE TickArmed
  BY <1>3, SameSlots DEF TickArmed, vars, loopVars, uiVars, outVars
<1> QED
  BY <1>1, <1>2, <1>3

\* An answer and a timer reach the slots, but only what they wait with.
LEMMA LoopFlow == TypeInv /\ FlowInv /\ (Poll \/ Timeout) => FlowInv'
PROOF
<1> SUFFICES ASSUME TypeInv, FlowInv, Poll \/ Timeout PROVE FlowInv'
  OBVIOUS
<1>1. UNCHANGED <<depth, csv, snMode, nextSerial, autoTimer>>
  BY DEF Poll, PollRead, Deliver, Timeout, Timer, RequestTimeout, uiVars, outVars
<1>2. depth \in 0 .. MaxDepth /\ MaxDepth \in Nat
  BY StackSize DEF FlowInv
<1>3. \A j \in 1 .. MaxDepth :
        /\ frame'[j].kind = frame[j].kind /\ frame'[j].pc = frame[j].pc
        /\ frame'[j].live = frame[j].live /\ frame'[j].serial = frame[j].serial
        /\ frame'[j].mac = frame[j].mac /\ frame'[j].guarded = frame[j].guarded
        /\ j > depth => frame'[j] = frame[j]
  <2>1. CASE Poll
    <3>1. PICK p : Deliver(p)
      BY <2>1 DEF Poll, PollRead
    <3>2. \A g \in Frames :
            LET h == [g EXCEPT !.resp = p, !.quit = TRUE]
            IN  /\ h.kind = g.kind /\ h.pc = g.pc /\ h.live = g.live
                /\ h.serial = g.serial /\ h.mac = g.mac /\ h.guarded = g.guarded
      BY DEF Frames
    <3> TAKE j \in 1 .. MaxDepth
    <3>3. frame[j] \in Frames
      BY DEF TypeInv, TypeOK, LoopTypeOK
    <3>4. CASE j <= depth /\ frame[j].pc \in Waiting
      <4>1. frame'[j] = [frame[j] EXCEPT !.resp = p, !.quit = TRUE]
        BY <3>1, <3>4 DEF Deliver
      <4> QED
        BY <1>2, <3>2, <3>3, <3>4, <4>1
    <3>5. CASE ~(j <= depth /\ frame[j].pc \in Waiting)
      BY <3>1, <3>5 DEF Deliver
    <3> QED
      BY <3>4, <3>5
  <2>2. CASE Timeout
    <3>1. PICK i \in 1 .. MaxDepth : i <= depth /\ frame' = [frame EXCEPT ![i].quit = TRUE]
      BY <2>2 DEF Timeout, Timer, RequestTimeout
    <3>2. \A g \in Frames :
            LET h == [g EXCEPT !.quit = TRUE]
            IN  /\ h.kind = g.kind /\ h.pc = g.pc /\ h.live = g.live
                /\ h.serial = g.serial /\ h.mac = g.mac /\ h.guarded = g.guarded
      BY DEF Frames
    <3> QED
      BY <1>2, <3>1, <3>2 DEF TypeInv, TypeOK, LoopTypeOK
  <2> QED
    BY <2>1, <2>2
<1> QED
  BY <1>1, <1>3, SameSlots

LEMMA WorldFlow ==
  TypeInv /\ FlowInv /\ (PlugAny \/ Unplug \/ Firmware \/ UNCHANGED vars) => FlowInv'
PROOF
<1> SUFFICES ASSUME TypeInv, FlowInv, PlugAny \/ Unplug \/ Firmware \/ UNCHANGED vars
             PROVE  FlowInv'
  OBVIOUS
<1>1. UNCHANGED <<depth, frame, csv, snMode, nextSerial, autoTimer>>
  BY DEF PlugAny, Plug, Unplug, Firmware, vars, loopVars, uiVars, outVars
<1> QED
  BY <1>1, SameSlots

LEMMA RestartFlow == TypeInv /\ FlowInv /\ Restart => FlowInv'
BY EmptyFlow DEF Restart

LEMMA FlowStep == TypeInv /\ FlowInv /\ Careful /\ [Next]_vars => FlowInv'
BY MacReturnsFlow, WriteReturnsFlow, PrintLabelFlow, CommitRecordFlow, ClickFlow, ManualFlow,
   DialogFlow, TickFlow, TickWritesFlow, LoopFlow, WorldFlow, RestartFlow
   DEF Next, OnAutoSnTick

LEMMA FlowInvariant == ASSUME Careful PROVE Spec => []FlowInv
PROOF
<1>1. TypeInv /\ FlowInv /\ [Next]_vars => FlowInv'
  BY FlowStep
<1> QED
  BY <1>1, InitFlow, TypeInvariant, PTL DEF Spec
-----------------------------------------------------------------------------
(* The theorems.                                                           *)

\* README.md:18 of the tool: neither a MAC nor a serial number is recorded
\* twice.  It asks an operator who lets a running write finish and keeps out
\* of the session in auto mode, and a history file that can be read; lost,
\* late, refused and stray answers, lost rows, failed opens and crashes are
\* all allowed.
THEOREM UniqueRecordsTheorem == ASSUME Careful PROVE Spec => []UniqueRecords
PROOF
<1>1. FlowInv => UniqueRecords
  BY DEF FlowInv
<1> QED
  BY <1>1, FlowInvariant, PTL

\* No slot moves the counter or changes the settings under a write in
\* progress: the number being burnt is the one the counter stands at.
THEOREM InFlightIsNextTheorem == ASSUME Careful PROVE Spec => []InFlightIsNext
PROOF
<1>1. FlowInv => InFlightIsNext
  BY DEF FlowInv
<1> QED
  BY <1>1, FlowInvariant, PTL
-----------------------------------------------------------------------------
(* The latch of auto mode.                                                 *)

\* While a tick is in progress the latch is open.
LatchInv == \A i \in 1 .. MaxDepth : frame[i].kind = "tick" => ~armed

\* The ticks after the step were in progress before.
SameTicks == \A i \in 1 .. MaxDepth : frame'[i].kind = "tick" => frame[i].kind = "tick"

LEMMA LatchKeep == LatchInv /\ SameTicks /\ (armed' => armed) => LatchInv'
BY DEF LatchInv, SameTicks

LEMMA LeaveTicks == TypeInv /\ depth > 0 /\ Leave => SameTicks
BY DEF TypeInv, TypeOK, LoopTypeOK, Leave, SameTicks, NoFrame

\* The slot on top goes on as what it is.
LEMMA ContinueTicks ==
  ASSUME TypeInv, depth > 0, NEW f, Continue(f), f.kind = frame[depth].kind
  PROVE  SameTicks
BY DEF TypeInv, TypeOK, LoopTypeOK, Continue, SameTicks

\* A request begins with the latch open, if a tick begins it.
LEMMA BeginWriteLatch ==
  ASSUME TypeInv, LatchInv, NEW k \in {"tick", "manual"}, NEW d, BeginWrite(k, d),
         k = "tick" => ~armed
  PROVE  LatchInv'
PROOF
<1> DEFINE f == WriteFrame(k, SerialOf(snMode, nextSerial'))
<1>1. UNCHANGED armed
  BY DEF BeginWrite
<1>2. f.kind = k
  BY DEF WriteFrame, NoFrame
<1>3. CASE UNCHANGED loopVars
  BY <1>1, <1>3 DEF loopVars, LatchInv
<1>4. CASE Call(f)
  <2> HIDE DEF f
  <2> SUFFICES ASSUME NEW i \in 1 .. MaxDepth, frame'[i].kind = "tick" PROVE ~armed'
    BY DEF LatchInv
  <2>1. frame'[i] = frame[i] \/ frame'[i] = f
    BY <1>4 DEF Call, TypeInv, TypeOK, LoopTypeOK
  <2> QED
    BY <1>1, <1>2, <2>1 DEF LatchInv
<1> QED
  BY <1>3, <1>4 DEF BeginWrite

\* A tick that ends has closed the latch, and no other is in progress.
LEMMA CommitLatch == TypeInv /\ StackInv /\ CommitRecord => LatchInv'
PROOF
<1> SUFFICES ASSUME TypeInv, StackInv, CommitRecord,
                    NEW i \in 1 .. MaxDepth, frame'[i].kind = "tick"
             PROVE  ~armed'
  BY DEF LatchInv
<1>1. /\ StackInv'
      /\ \A j \in 1 .. depth' : frame'[j] = frame[j] /\ frame[j].kind = "dialog"
  BY LeaveStack DEF CommitRecord
<1>2. MaxDepth \in Nat /\ depth' = depth - 1 /\ depth \in 0 .. MaxDepth
  BY StackSize DEF CommitRecord, Leave
<1>3. i > depth' => frame'[i] = NoFrame
  BY <1>1 DEF StackInv
<1> QED
  BY <1>1, <1>2, <1>3 DEF NoFrame

LEMMA OtherLatch ==
  TypeInv /\ StackInv /\ LatchInv /\ [Next]_vars /\ ~CommitRecord => LatchInv'
PROOF
<1> SUFFICES ASSUME TypeInv, StackInv, LatchInv, [Next]_vars, ~CommitRecord PROVE LatchInv'
  OBVIOUS
<1>1. \A i \in 1 .. MaxDepth : frame[i] \in Frames
  BY DEF TypeInv, TypeOK, LoopTypeOK
<1>2. depth \in 0 .. MaxDepth
  BY StackSize
<1>3. CASE MacReturns
  <2> DEFINE g == [frame[depth] EXCEPT !.pc = "writeWait", !.mac = frame[depth].resp.mac,
                                       !.guarded = snMode.preventDuplicate,
                                       !.resp = NoPacket, !.quit = FALSE]
  <2>1. depth > 0 /\ (Leave \/ Continue(g)) /\ UNCHANGED armed
    BY <1>3 DEF MacReturns, Fail, uiVars
  <2>2. g.kind = frame[depth].kind
    BY <1>1, <1>2, <2>1 DEF Frames
  <2> HIDE DEF g
  <2> QED
    BY <2>1, <2>2, LeaveTicks, ContinueTicks, LatchKeep
<1>4. CASE WriteReturns \/ PrintLabel
  <2>1. /\ depth > 0
        /\ \/ Leave
           \/ Continue([frame[depth] EXCEPT !.pc = "print"])
           \/ Continue([frame[depth] EXCEPT !.pc = "commit"])
        /\ UNCHANGED armed
    BY <1>4 DEF WriteReturns, PrintLabel, Fail, uiVars
  <2>2. /\ [frame[depth] EXCEPT !.pc = "print"].kind = frame[depth].kind
        /\ [frame[depth] EXCEPT !.pc = "commit"].kind = frame[depth].kind
    BY <1>1, <1>2, <2>1 DEF Frames
  <2> QED
    BY <2>1, <2>2, LeaveTicks, ContinueTicks, LatchKeep
<1>5. CASE UNCHANGED loopVars /\ (armed' => armed)
  BY <1>5, LatchKeep DEF SameTicks, loopVars
<1>6. CASE OnConnectClicked \/ OnDisconnectClicked \/ SendClicked \/ EditUsbFields
  BY <1>5, <1>6
     DEF OnConnectClicked, OnDisconnectClicked, SendClicked, OnSendClicked, EditUsbFields, uiVars
<1>7. CASE OnWriteNextSerialClicked
  BY <1>5, <1>7, BeginWriteLatch DEF OnWriteNextSerialClicked, uiVars
<1>8. CASE TickWrites
  <2>1. ~armed
    BY <1>8 DEF TickWrites, NewUnit
  <2>2. ASSUME NEW d, BeginWrite("tick", d) PROVE LatchInv'
    BY <2>1, <2>2, BeginWriteLatch
  <2>3. CASE UNCHANGED <<loopVars, uiVars>>
    BY <1>5, <2>3 DEF uiVars
  <2> QED
    BY <1>8, <2>2, <2>3 DEF TickWrites
<1>9. CASE OnStartAutoSnClicked \/ OnStopAutoSnClicked \/ TickBadConfig \/ Restart
  BY <1>9
     DEF OnStartAutoSnClicked, OnStopAutoSnClicked, TickBadConfig, StopAuto, Restart, LatchInv
<1>10. CASE OnSnSettingsClicked
  <2> DEFINE f == [NoFrame EXCEPT !.kind = "dialog", !.pc = "exec"]
  <2>1. Call(f) /\ UNCHANGED armed
    BY <1>10 DEF OnSnSettingsClicked, uiVars
  <2>2. f.kind # "tick"
    BY DEF NoFrame
  <2> HIDE DEF f
  <2>3. SameTicks
    BY <2>1, <2>2 DEF Call, SameTicks, TypeInv, TypeOK, LoopTypeOK
  <2> QED
    BY <2>1, <2>3, LatchKeep
<1>11. CASE Dialog
  <2>1. PICK i \in 1 .. MaxDepth, c \in Settings \cup {NoSettings} : CloseDialog(i, c)
    BY <1>11 DEF Dialog
  <2>2. /\ frame'[i] = [frame[i] EXCEPT !.quit = TRUE, !.choice = c]
        /\ \A j \in 1 .. MaxDepth : j # i => frame'[j] = frame[j]
        /\ UNCHANGED armed
    BY <2>1 DEF CloseDialog, TypeInv, TypeOK, LoopTypeOK, uiVars
  <2>3. frame'[i].kind = frame[i].kind
    BY <1>1, <2>2 DEF Frames
  <2> QED
    BY <2>2, <2>3, LatchKeep DEF SameTicks
<1>12. CASE DialogReturns
  BY <1>12, LeaveTicks, LatchKeep DEF DialogReturns
<1>13. CASE Timeout
  <2>1. PICK i \in 1 .. MaxDepth : frame' = [frame EXCEPT ![i].quit = TRUE]
    BY <1>13 DEF Timeout, Timer, RequestTimeout
  <2>2. /\ frame'[i] = [frame[i] EXCEPT !.quit = TRUE]
        /\ \A j \in 1 .. MaxDepth : j # i => frame'[j] = frame[j]
        /\ UNCHANGED armed
    BY <1>13, <2>1 DEF Timeout, Timer, TypeInv, TypeOK, LoopTypeOK, uiVars
  <2>3. frame'[i].kind = frame[i].kind
    BY <1>1, <2>2 DEF Frames
  <2> QED
    BY <2>2, <2>3, LatchKeep DEF SameTicks
<1>14. CASE Poll
  <2>1. PICK p : Deliver(p)
    BY <1>14 DEF Poll, PollRead
  <2>2. \A f \in Frames : [f EXCEPT !.resp = p, !.quit = TRUE].kind = f.kind
    BY DEF Frames
  <2>3. SameTicks
    BY <1>1, <2>1, <2>2 DEF Deliver, SameTicks
  <2> QED
    BY <1>14, <2>3, LatchKeep DEF Poll, uiVars
<1>15. CASE TickNoDevice \/ TickArmed \/ PlugAny \/ Unplug \/ Firmware \/ UNCHANGED vars
  BY <1>5, <1>15
     DEF TickNoDevice, TickArmed, PlugAny, Plug, Unplug, Firmware, vars, uiVars
<1> QED
  BY <1>3, <1>4, <1>6, <1>7, <1>8, <1>9, <1>10, <1>11, <1>12, <1>13, <1>14, <1>15
     DEF Next, OnAutoSnTick

\* Only the end of a write appends to the history.
LEMMA CsvMoves == [Next]_vars /\ csv' # csv => CommitRecord
BY DEF Next, OnAutoSnTick, MacReturns, WriteReturns, PrintLabel, OnConnectClicked,
       OnDisconnectClicked, SendClicked, OnSendClicked, OnWriteNextSerialClicked, BeginWrite,
       OnStartAutoSnClicked, OnStopAutoSnClicked, StopAuto, EditUsbFields, OnSnSettingsClicked,
       Dialog, CloseDialog, DialogReturns, TickBadConfig, TickNoDevice, TickArmed, TickWrites,
       Poll, Timeout, Timer, PlugAny, Plug, Unplug, Firmware, Restart, outVars, vars

\* Only these open the latch.
LEMMA LatchMoves ==
  Next /\ armed /\ ~armed' => ~DeviceExists \/ ~autoTimer' \/ OnStartAutoSnClicked
BY DEF Next, OnAutoSnTick, MacReturns, WriteReturns, PrintLabel, CommitRecord, OnConnectClicked,
       OnDisconnectClicked, SendClicked, OnSendClicked, OnWriteNextSerialClicked, BeginWrite,
       OnStopAutoSnClicked, StopAuto, EditUsbFields, OnSnSettingsClicked,
       Dialog, CloseDialog, DialogReturns, TickBadConfig, TickNoDevice, TickArmed, TickWrites,
       Poll, Timeout, Timer, PlugAny, Plug, Unplug, Firmware, Restart, uiVars, vars

\* README.md:13 of the tool, one write for each plugged unit: a tick that
\* records a unit closes the latch, and only an empty fixture, the operator or
\* the end of auto mode opens it again.  The operator lets a running write
\* finish; faults and crashes are all allowed.
THEOREM AutoWritesOnceTheorem == ASSUME Careful PROVE Spec => AutoWritesOnce
PROOF
<1> DEFINE Written == csv' # csv /\ frame[depth].kind = "tick" => ~armed /\ armed'
           Opened  == armed /\ ~armed' => ~DeviceExists \/ ~autoTimer' \/ OnStartAutoSnClicked
<1>1. Init => LatchInv
  BY DEF Init, LoopInit, LatchInv, NoFrame
<1>2. TypeInv /\ FlowInv /\ LatchInv /\ [Next]_vars => LatchInv'
  BY CommitLatch, OtherLatch DEF FlowInv
<1>3. TypeInv /\ FlowInv /\ LatchInv /\ [Next]_vars => [Written]_vars
  <2> SUFFICES ASSUME TypeInv, FlowInv, LatchInv, Next, csv' # csv, frame[depth].kind = "tick"
               PROVE  ~armed /\ armed'
    BY DEF vars, outVars
  <2>1. CommitRecord
    BY CsvMoves
  <2>2. depth \in 1 .. MaxDepth
    BY <2>1, StackSize DEF CommitRecord, FlowInv
  <2> QED
    BY <2>1, <2>2 DEF CommitRecord, LatchInv
<1>4. [Next]_vars => [Opened]_vars
  <2> SUFFICES ASSUME Next, armed, ~armed'
               PROVE  ~DeviceExists \/ ~autoTimer' \/ OnStartAutoSnClicked
    BY DEF vars, uiVars
  <2> QED
    BY LatchMoves
<1>5. [Written]_vars /\ [Opened]_vars => [Written /\ Opened]_vars
  OBVIOUS
<1> QED
  BY <1>1, <1>2, <1>3, <1>4, <1>5, FlowInvariant, TypeInvariant, PTL DEF Spec, AutoWritesOnce
=============================================================================
