------------------------- MODULE HidBackendsProofs -------------------------
(***************************************************************************)
(* The backends of hidapi, each with the invariant that says where its     *)
(* threads stand relative to each other and what is allocated then.        *)
(***************************************************************************)
EXTENDS HidBackends, WellFoundedInduction, TLAPS

\* Where the application thread may be, in any of the backends.
AppPcs ==
  {"out", "entry", "create", "open", "barrier", "at_barrier", "try", "wrap", "get_config",
   "find_interface", "detach", "claim", "opened", "buffers", "caps", "ioctl", "idle", "check", "sleep", "wait", "woken", "sync",
   "poll", "writing", "cancel", "join", "shutdown", "signal", "close_barrier",
   "at_close_barrier"}

\* What holds whatever the backend.
HidOK ==
  /\ sent \in 0..MaxReports /\ plugged \in BOOLEAN
  /\ app \in [pc : AppPcs, wait : Waits] /\ last \in Results

-----------------------------------------------------------------------------
(* macOS *)

\* Before the read thread is created, while the two threads meet at the first
\* barrier, while the device is in use, and at the second barrier.
MacUnopened == {"out", "entry", "create", "open"}
MacInUse == {"idle", "check", "sleep", "wait", "woken", "shutdown", "signal", "close_barrier"}
MacOpened == {"at_barrier", "loop", "run", "wake", "shutdown_barrier", "at_shutdown_barrier"}

\* Who has arrived at which barrier.
MacBarriers ==
  \/ /\ app.pc \in MacUnopened
     /\ thr = "none" /\ dev.barrier = 0 /\ dev.shutdown_barrier = 0
  \/ /\ app.pc = "barrier" /\ dev.shutdown_barrier = 0
     /\ \/ thr = "start" /\ dev.barrier = 0
        \/ thr = "at_barrier" /\ dev.barrier = 1
  \/ /\ app.pc = "at_barrier" /\ dev.shutdown_barrier = 0
     /\ thr = "start" /\ dev.barrier = 1
  \/ /\ app.pc \in MacInUse \cup {"at_barrier"}
     /\ thr \in MacOpened /\ dev.barrier = 0
     /\ dev.shutdown_barrier = IF thr = "at_shutdown_barrier" THEN 1 ELSE 0
  \/ /\ app.pc = "at_close_barrier" /\ dev.barrier = 0 /\ dev.shutdown_barrier = 1
     /\ thr \in MacOpened \ {"at_shutdown_barrier"}
  \/ /\ app.pc = "at_close_barrier" /\ dev.barrier = 0 /\ dev.shutdown_barrier = 0
     /\ thr \in {"at_shutdown_barrier", "ended"}

\* What is allocated and registered when.
MacHeld ==
  /\ held \subseteq {"dev", "entry", "handle", "opened", "source"}
  /\ "dev" \in held => ~Closed
  /\ "entry" \in held => app.pc \in {"create", "open", "barrier", "at_barrier"}
  /\ "handle" \in held => app.pc \notin {"out", "entry", "create"}
  /\ "opened" \in held /\ os.modern => app.pc \notin MacUnopened
  /\ "source" \in held <=> thr \notin {"none", "start"}
  /\ app.pc \in {"barrier", "at_barrier", "idle", "check", "sleep", "wait", "woken"}
       => os.registered

MacInv ==
  /\ Mac!TypeOK /\ queue \in Seq(Reports)
  /\ MacBarriers /\ MacHeld
  /\ thr = "none" => queue = <<>>

-----------------------------------------------------------------------------
(* libusb *)

\* Before the kernel driver is looked at, and before the read thread is created.
UsbBefore == {"out", "try", "wrap", "get_config", "find_interface", "detach"}

\* The read thread is created, and has met the application at the barrier.
UsbBarrier ==
  \/ /\ app.pc \in UsbBefore \cup {"claim"}
     /\ thr = "none" /\ dev.barrier = 0
  \/ /\ app.pc = "barrier"
     /\ \/ thr \in {"start", "barrier"} /\ dev.barrier = 0
        \/ thr = "at_barrier" /\ dev.barrier = 1
  \/ app.pc = "at_barrier" /\ thr \in {"start", "barrier"} /\ dev.barrier = 1
  \/ /\ app.pc \in {"opened", "idle", "check", "sleep", "wait", "woken", "sync", "cancel", "join"}
     /\ thr \in {"loop", "events", "cancel", "drain", "wake", "ended"} /\ dev.barrier = 0

\* The transfer is over for good before the read thread ends.
UsbTransfer ==
  /\ thr \in {"none", "start"} =>
       ~dev.transfer_loop_finished /\ os.xfer = "none" /\ os.cb = "none"
  /\ thr = "none" => queue = <<>>
  /\ os.cb # "none" => os.xfer = "none"
  /\ thr \in {"wake", "ended"} => dev.transfer_loop_finished
  /\ dev.transfer_loop_finished => os.xfer = "none" /\ os.cb = "none"

\* The kernel driver is missing only while the device remembers to put it back.
UsbDriver ==
  os.driver \/ os.lost \/ (dev.is_driver_detached /\ app.pc \notin UsbBefore)

\* A configuration is held while a device is opened, the list only by path; what
\* hid_libusb_wrap_sys_device has never freed stays.
UsbHeld ==
  /\ held \subseteq {"dev", "list", "config", "handle", "interface", "transfer",
                     "config_never_freed"}
  /\ "dev" \in held => ~Closed
  /\ "list" \in held =>
       os.path /\ app.pc \in {"try", "detach", "claim", "barrier", "at_barrier", "opened"}
  /\ "config" \in held =>
       app.pc \in {"try", "find_interface", "detach", "claim", "barrier", "at_barrier", "opened"}
  /\ "handle" \in held => app.pc \notin {"out", "try", "wrap"}
  /\ "interface" \in held \/ "transfer" \in held => app.pc \notin UsbBefore \cup {"claim"}
  /\ app.pc = "try" => os.path

\* The records of Libusb!TypeOK.
UsbOs == [xfer : Libusb!Finished \cup {"none", "submitted", "cancelling"},
          flight : 0..MaxReports, cb : {"none", "thread", "app"}, resubmit : BOOLEAN,
          path : BOOLEAN, alts : 0..Alts, driver : BOOLEAN, lost : BOOLEAN]
UsbDev == [shutdown_thread : BOOLEAN, transfer_loop_finished : BOOLEAN,
           is_driver_detached : BOOLEAN, barrier : 0..1]

UsbInv ==
  /\ Libusb!TypeOK /\ queue \in Seq(Reports)
  /\ UsbBarrier /\ UsbTransfer /\ UsbDriver /\ UsbHeld
  /\ os.xfer = "completed" <=> os.flight # 0

-----------------------------------------------------------------------------
(* Windows *)

WinHeld ==
  /\ held \subseteq {"interface_path", "handle", "pp_data", "dev"}
  /\ "interface_path" \in held => app.pc \in {"open", "buffers", "caps"}
  /\ "handle" \in held <=> app.pc \notin {"out", "open"}
  /\ "pp_data" \in held => app.pc = "caps"
  /\ "dev" \in held => app.pc \notin {"out", "open", "buffers", "caps"}

\* As long as no write has timed out, only the call in progress has a write in
\* the driver, and dev->write_ol tells how that one went.
WinWrites ==
  /\ app.pc \in {"out", "open", "buffers", "caps"} => last.res # "written"
  /\ ~os.late =>
       /\ last.res = "written" => last.report \in os.done
       /\ app.pc # "writing" => os.writes = <<>>
       /\ app.pc = "writing" =>
            \/ os.writes = <<os.count>> /\ os.write_ol = "pending" /\ ~os.write_ev
            \/ os.writes = <<>> /\ (os.write_ol = "done" => os.count \in os.done)

WinOs == [ring : Seq(Reports), io : {"none", "pending", "done", "failed"},
          got : Nat, ev : BOOLEAN, writes : Seq(1..MaxWrites),
          done : SUBSET (1..MaxWrites), count : 0..MaxWrites,
          write_ol : {"none", "pending", "done", "failed"},
          write_ev : BOOLEAN, late : BOOLEAN]

WinInv ==
  /\ os \in WinOs /\ Win!TypeOK /\ WinHeld /\ WinWrites
  /\ app.pc \in {"out", "open", "buffers", "caps"} => ~dev.read_pending
  /\ os.io = "pending" => os.ring = <<>>

-----------------------------------------------------------------------------
(* Linux and NetBSD *)

LinuxHeld ==
  /\ held \subseteq {"dev", "handle"}
  /\ "dev" \in held => ~Closed
  /\ "handle" \in held <=> app.pc \notin {"out", "open"}

LinuxInv == Linux!TypeOK /\ LinuxHeld

\* The children that are open are those hid_close goes through.
NetbsdHeld ==
  /\ held \subseteq {"dev", "drvctl", "drvctl_left_open"}
  /\ "dev" \in held => ~Closed
  /\ "drvctl" \in held => app.pc = "open"
  /\ os.uhid = IF app.pc = "out" THEN {} ELSE 1..dev.poll_handles_length
  /\ app.pc \notin {"out", "open"} => dev.poll_handles_length = Children

NetbsdInv == Netbsd!TypeOK /\ NetbsdHeld

-----------------------------------------------------------------------------
BackendInv ==
  /\ HidOK
  /\ backend \in Backends
  /\ backend = "libusb" => UsbInv
  /\ backend = "mac" => MacInv
  /\ backend = "windows" => WinInv
  /\ backend = "linux" => LinuxInv
  /\ backend = "netbsd" => NetbsdInv

-----------------------------------------------------------------------------
(* Sequences of reports.                                                   *)

LEMMA NoReports == <<>> \in Seq(Reports) /\ Len(<<>>) = 0
OBVIOUS

LEMMA TakeReport ==
  ASSUME NEW q \in Seq(Reports), q # <<>>
  PROVE  /\ Head(q) \in Reports /\ Head(q) \in Nat /\ Head(q) # 0
         /\ Tail(q) \in Seq(Reports) /\ Len(Tail(q)) = Len(q) - 1 /\ Len(q) \in Nat
PROOF
<1>1. Len(q) \in Nat /\ Len(q) # 0
  OBVIOUS
<1>2. Head(q) = q[1] /\ 1 \in 1..Len(q)
  BY <1>1
<1>3. Head(q) \in Reports
  BY <1>2
<1> QED
  BY <1>1, <1>3 DEF Reports

\* What is left of the list of input reports when hid_read has returned.
LEMMA TakenList ==
  ASSUME NEW q \in Seq(Reports), Len(q) <= QueueLimit + 2, NEW r,
         r = q \/ (q # <<>> /\ r = Tail(q))
  PROVE  r \in Seq(Reports) /\ Len(r) <= QueueLimit + 2
PROOF
<1>1. CASE r = q
  BY <1>1
<1>2. CASE q # <<>> /\ r = Tail(q)
  <2>1. Tail(q) \in Seq(Reports) /\ Len(Tail(q)) = Len(q) - 1 /\ Len(q) \in Nat
    BY <1>2, TakeReport
  <2>2. Len(q) - 1 <= QueueLimit + 2
    BY <2>1, HidApiAssumption
  <2> QED
    BY <1>2, <2>1, <2>2
<1> QED
  BY <1>1, <1>2

LEMMA NextReport ==
  ASSUME HidOK, sent < MaxReports, NEW q \in Seq(Reports)
  PROVE  /\ sent + 1 \in 0..MaxReports /\ sent + 1 \in Reports
         /\ Append(q, sent + 1) \in Seq(Reports)
BY HidApiAssumption DEF HidOK, Reports

-----------------------------------------------------------------------------
(* macOS: the steps.                                                       *)

LEMMA MacArrives == \A n \in 0..1 : Mac!Arrives(n) = 1 - n /\ Mac!Arrives(n) \in 0..1
BY DEF Mac!Arrives

\* The list of input reports never has more than QueueLimit + 2.
LEMMA MacEnqueue ==
  ASSUME NEW q \in Seq(Reports), NEW n \in Reports, Len(q) <= QueueLimit + 2
  PROVE  Mac!Enqueue(q, n) \in Seq(Reports) /\ Len(Mac!Enqueue(q, n)) <= QueueLimit + 2
PROOF
<1>1. CASE q = <<>>
  BY <1>1, HidApiAssumption DEF Mac!Enqueue
<1>2. CASE q # <<>> /\ Len(q) - 1 > QueueLimit
  <2>1. Tail(q) \in Seq(Reports) /\ Len(Tail(q)) = Len(q) - 1 /\ Len(q) \in Nat
    BY <1>2, TakeReport
  <2>2. Mac!Enqueue(q, n) = Append(Tail(q), n)
    BY <1>2 DEF Mac!Enqueue
  <2> QED
    BY <2>1, <2>2, HidApiAssumption
<1>3. CASE q # <<>> /\ ~(Len(q) - 1 > QueueLimit)
  BY <1>3, HidApiAssumption DEF Mac!Enqueue
<1> QED
  BY <1>1, <1>2, <1>3

LEMMA MacInit == HidOK /\ Mac!Init => MacInv
PROOF
<1> SUFFICES ASSUME HidOK, Mac!Init PROVE MacInv
  OBVIOUS
<1>1. Mac!TypeOK /\ queue \in Seq(Reports)
  <2>1. PICK m \in BOOLEAN : os = Mac!IdleMac(m)
    BY DEF Mac!Init
  <2>2. os \in [port : Seq(Mac!Reports), registered : BOOLEAN, signalled : BOOLEAN,
               stopped : BOOLEAN, modern : BOOLEAN]
    BY <2>1 DEF Mac!IdleMac
  <2> QED
    BY <2>2, HidApiAssumption DEF Mac!Init, Mac!NewDevice, Mac!TypeOK
<1>2. MacBarriers /\ MacHeld
  BY DEF Mac!Init, Mac!NewDevice, MacBarriers, MacUnopened, MacHeld, Closed, At
<1> QED
  BY <1>1, <1>2 DEF Mac!Init, MacInv

\* The threads meet at both barriers, whatever the run loop does and whenever
\* the device leaves.
LEMMA MacStep == ASSUME HidOK, MacInv, Mac!Next PROVE HidOK' /\ MacInv'
PROOF
<1> USE HidApiAssumption
    DEF HidOK, MacInv, MacUnopened, MacInUse, MacOpened, AppPcs, Waits, Results, Reports,
        At, Closed, Mac!NewDevice, Mac!IdleMac, Mac!At, Mac!Goto, Mac!Closed, Mac!Return,
        Mac!Idle, Mac!deviceVars, Mac!readVars, Mac!BarrierOpen, Mac!Woken, Mac!Reports,
        Mac!Waits
<1>1. CASE Mac!hid_open_path
  BY SMTT(30), <1>1 DEF Mac!TypeOK, MacBarriers, MacHeld, Mac!hid_open_path
<1>2. CASE Mac!FindEntry
  BY <1>2 DEF Mac!TypeOK, MacBarriers, MacHeld, Mac!FindEntry, Mac!ReturnError
<1>3. CASE Mac!CreateDevice
  BY <1>3 DEF Mac!TypeOK, MacBarriers, MacHeld, Mac!CreateDevice, Mac!ReturnError
<1>4. CASE Mac!OpenDevice
  <2>1. HidOK'
    BY <1>4 DEF Mac!OpenDevice, Mac!ReturnError
  <2>2. Mac!TypeOK' /\ (queue \in Seq(Reports))'
    BY ZenonT(40), <1>4, NoReports DEF Mac!TypeOK, Mac!OpenDevice, Mac!ReturnError
  <2>3. MacBarriers'
    BY <1>4 DEF Mac!TypeOK, MacBarriers, Mac!OpenDevice, Mac!ReturnError
  <2>4. MacHeld' /\ (thr = "none" => queue = <<>>)'
    BY <1>4 DEF Mac!TypeOK, MacHeld, MacBarriers, Mac!OpenDevice, Mac!ReturnError
  <2> QED
    BY <2>1, <2>2, <2>3, <2>4
<1>5. CASE Mac!OpenBarrier
  <2>1. HidOK'
    BY <1>5 DEF Mac!OpenBarrier
  <2>2. Mac!TypeOK' /\ (queue \in Seq(Reports))'
    BY <1>5, MacArrives DEF Mac!TypeOK, Mac!OpenBarrier
  <2>3. MacBarriers'
    BY <1>5, MacArrives DEF Mac!TypeOK, MacBarriers, Mac!OpenBarrier
  <2>4. MacHeld' /\ (thr = "none" => queue = <<>>)'
    BY <1>5 DEF Mac!TypeOK, MacHeld, MacBarriers, Mac!OpenBarrier
  <2> QED
    BY <2>1, <2>2, <2>3, <2>4
<1>6. CASE Mac!Opened
  <2>1. HidOK'
    BY <1>6 DEF Mac!Opened
  <2>2. Mac!TypeOK' /\ (queue \in Seq(Reports))'
    BY <1>6 DEF Mac!TypeOK, Mac!Opened
  <2>3. MacBarriers'
    BY <1>6 DEF Mac!TypeOK, MacBarriers, Mac!Opened
  <2>4. MacHeld' /\ (thr = "none" => queue = <<>>)'
    BY <1>6 DEF Mac!TypeOK, MacHeld, MacBarriers, Mac!Opened
  <2> QED
    BY <2>1, <2>2, <2>3, <2>4
<1>7. CASE Mac!ThreadStart
  <2>1. HidOK'
    BY <1>7 DEF Mac!ThreadStart
  <2>2. Mac!TypeOK' /\ (queue \in Seq(Reports))'
    BY <1>7, MacArrives DEF Mac!TypeOK, Mac!ThreadStart
  <2>3. MacBarriers'
    BY <1>7, MacArrives DEF Mac!TypeOK, MacBarriers, Mac!ThreadStart
  <2>4. MacHeld' /\ (thr = "none" => queue = <<>>)'
    BY <1>7 DEF Mac!TypeOK, MacHeld, MacBarriers, Mac!ThreadStart
  <2> QED
    BY <2>1, <2>2, <2>3, <2>4
<1>8. CASE Mac!ThreadRuns
  BY <1>8 DEF Mac!TypeOK, MacBarriers, MacHeld, Mac!ThreadRuns
<1>9. CASE Mac!ThreadLoop
  BY <1>9 DEF Mac!TypeOK, MacBarriers, MacHeld, Mac!ThreadLoop
<1>10. CASE Mac!RunLoopReturns
  <2>1. HidOK'
    BY <1>10 DEF Mac!RunLoopReturns
  <2>2. Mac!TypeOK' /\ (queue \in Seq(Reports))'
    BY ZenonT(40), <1>10 DEF Mac!TypeOK, Mac!RunLoopReturns
  <2>3. MacBarriers'
    BY <1>10 DEF Mac!TypeOK, MacBarriers, Mac!RunLoopReturns
  <2>4. MacHeld' /\ (thr = "none" => queue = <<>>)'
    BY <1>10 DEF Mac!TypeOK, MacHeld, MacBarriers, Mac!RunLoopReturns
  <2> QED
    BY <2>1, <2>2, <2>3, <2>4
<1>10a. CASE Mac!RunLoopFails
  <2>1. HidOK'
    BY <1>10a DEF Mac!RunLoopFails
  <2>2. Mac!TypeOK' /\ (queue \in Seq(Reports))'
    BY ZenonT(40), <1>10a DEF Mac!TypeOK, Mac!RunLoopFails
  <2>3. MacBarriers'
    BY <1>10a DEF Mac!TypeOK, MacBarriers, Mac!RunLoopFails
  <2>4. MacHeld' /\ (thr = "none" => queue = <<>>)'
    BY <1>10a DEF Mac!TypeOK, MacHeld, MacBarriers, Mac!RunLoopFails
  <2> QED
    BY <2>1, <2>2, <2>3, <2>4
<1>11. CASE Mac!hid_report_callback
  <2>1. HidOK'
    BY <1>11 DEF Mac!hid_report_callback
  <2>2. Mac!TypeOK' /\ (queue \in Seq(Reports))'
    BY <1>11, TakeReport, MacEnqueue DEF Mac!TypeOK, Mac!hid_report_callback
  <2>3. MacBarriers'
    BY <1>11 DEF Mac!TypeOK, MacBarriers, Mac!hid_report_callback
  <2>4. MacHeld' /\ (thr = "none" => queue = <<>>)'
    BY <1>11 DEF Mac!TypeOK, MacHeld, MacBarriers, Mac!hid_report_callback
  <2> QED
    BY <2>1, <2>2, <2>3, <2>4
<1>12. CASE Mac!hid_device_removal_callback
  BY ZenonT(40), <1>12 DEF Mac!TypeOK, MacBarriers, MacHeld, Mac!hid_device_removal_callback
<1>13. CASE Mac!perform_signal_callback
  <2>1. HidOK'
    BY <1>13 DEF Mac!perform_signal_callback
  <2>2. Mac!TypeOK' /\ (queue \in Seq(Reports))'
    BY <1>13 DEF Mac!TypeOK, Mac!perform_signal_callback
  <2>3. MacBarriers'
    BY <1>13 DEF Mac!TypeOK, MacBarriers, Mac!perform_signal_callback
  <2>4. MacHeld' /\ (thr = "none" => queue = <<>>)'
    BY <1>13 DEF Mac!TypeOK, MacHeld, MacBarriers, Mac!perform_signal_callback
  <2> QED
    BY <2>1, <2>2, <2>3, <2>4
<1>14. CASE Mac!WakeReader
  <2>1. HidOK'
    BY <1>14 DEF Mac!WakeReader
  <2>2. Mac!TypeOK' /\ (queue \in Seq(Reports))'
    BY <1>14 DEF Mac!TypeOK, Mac!WakeReader
  <2>3. MacBarriers'
    BY <1>14 DEF Mac!TypeOK, MacBarriers, Mac!WakeReader
  <2>4. MacHeld' /\ (thr = "none" => queue = <<>>)'
    BY <1>14 DEF Mac!TypeOK, MacHeld, MacBarriers, Mac!WakeReader
  <2> QED
    BY <2>1, <2>2, <2>3, <2>4
<1>15. CASE Mac!ThreadShutdownBarrier
  <2>1. HidOK'
    BY <1>15 DEF Mac!ThreadShutdownBarrier
  <2>2. Mac!TypeOK' /\ (queue \in Seq(Reports))'
    BY <1>15, MacArrives DEF Mac!TypeOK, Mac!ThreadShutdownBarrier
  <2>3. MacBarriers'
    BY <1>15, MacArrives DEF Mac!TypeOK, MacBarriers, Mac!ThreadShutdownBarrier
  <2>4. MacHeld' /\ (thr = "none" => queue = <<>>)'
    BY <1>15 DEF Mac!TypeOK, MacHeld, MacBarriers, Mac!ThreadShutdownBarrier
  <2> QED
    BY <2>1, <2>2, <2>3, <2>4
<1>16. CASE Mac!ThreadEnds
  BY <1>16 DEF Mac!TypeOK, MacBarriers, MacHeld, Mac!ThreadEnds
<1>17. CASE Mac!hid_read_timeout
  BY <1>17 DEF Mac!TypeOK, MacBarriers, MacHeld, Mac!hid_read_timeout, Mac!NoResult
<1>18. CASE Mac!ReadCheck
  <2>1. HidOK'
    BY <1>18, TakeReport DEF Mac!ReadCheck, Mac!Data, Mac!Error, Mac!Nothing, Mac!Ended
  <2>2. Mac!TypeOK' /\ (queue \in Seq(Reports))'
    <3>1. (queue' = queue \/ (queue # <<>> /\ queue' = Tail(queue))) /\ lock' \in {"none", "app"}
      BY <1>18 DEF Mac!TypeOK, Mac!ReadCheck
    <3>2. queue' \in Seq(Reports) /\ Len(queue') <= QueueLimit + 2
      BY <3>1, TakenList DEF Mac!TypeOK
    <3> QED
      BY <1>18, <3>1, <3>2 DEF Mac!TypeOK, Mac!ReadCheck
  <2>3. MacBarriers'
    BY <1>18
       DEF Mac!TypeOK, MacBarriers, Mac!ReadCheck, Mac!Data, Mac!Error, Mac!Nothing,
           Mac!Ended
  <2>4. MacHeld' /\ (thr = "none" => queue = <<>>)'
    BY <1>18
       DEF Mac!TypeOK, MacHeld, MacBarriers, Mac!ReadCheck, Mac!Data, Mac!Error,
           Mac!Nothing, Mac!Ended
  <2> QED
    BY <2>1, <2>2, <2>3, <2>4
<1>19. CASE Mac!CondWait
  <2>1. HidOK'
    BY <1>19 DEF Mac!CondWait
  <2>2. Mac!TypeOK' /\ (queue \in Seq(Reports))'
    BY <1>19 DEF Mac!TypeOK, Mac!CondWait
  <2>3. MacBarriers'
    BY <1>19 DEF Mac!TypeOK, MacBarriers, Mac!CondWait
  <2>4. MacHeld' /\ (thr = "none" => queue = <<>>)'
    BY <1>19 DEF Mac!TypeOK, MacHeld, MacBarriers, Mac!CondWait
  <2> QED
    BY <2>1, <2>2, <2>3, <2>4
<1>20. CASE Mac!SpuriousWakeup
  <2>1. HidOK'
    BY <1>20 DEF Mac!SpuriousWakeup
  <2>2. Mac!TypeOK' /\ (queue \in Seq(Reports))'
    BY <1>20 DEF Mac!TypeOK, Mac!SpuriousWakeup
  <2>3. MacBarriers'
    BY <1>20 DEF Mac!TypeOK, MacBarriers, Mac!SpuriousWakeup
  <2>4. MacHeld' /\ (thr = "none" => queue = <<>>)'
    BY <1>20 DEF Mac!TypeOK, MacHeld, MacBarriers, Mac!SpuriousWakeup
  <2> QED
    BY <2>1, <2>2, <2>3, <2>4
<1>21. CASE Mac!CondWoken
  <2>1. HidOK'
    BY <1>21, TakeReport DEF Mac!CondWoken, Mac!Data, Mac!Error, Mac!Ended
  <2>2. Mac!TypeOK' /\ (queue \in Seq(Reports))'
    <3>1. (queue' = queue \/ (queue # <<>> /\ queue' = Tail(queue))) /\ lock' \in {"none", "app"}
      BY <1>21 DEF Mac!TypeOK, Mac!CondWoken
    <3>2. queue' \in Seq(Reports) /\ Len(queue') <= QueueLimit + 2
      BY <3>1, TakenList DEF Mac!TypeOK
    <3> QED
      BY <1>21, <3>1, <3>2 DEF Mac!TypeOK, Mac!CondWoken
  <2>3. MacBarriers'
    BY <1>21 DEF Mac!TypeOK, MacBarriers, Mac!CondWoken, Mac!Data, Mac!Error, Mac!Ended
  <2>4. MacHeld' /\ (thr = "none" => queue = <<>>)'
    BY SMTT(30), <1>21
       DEF Mac!TypeOK, MacHeld, MacBarriers, Mac!CondWoken, Mac!Data, Mac!Error,
           Mac!Ended
  <2> QED
    BY <2>1, <2>2, <2>3, <2>4
<1>22. CASE Mac!ReadTimesOut
  BY <1>22 DEF Mac!TypeOK, MacBarriers, MacHeld, Mac!ReadTimesOut, Mac!Nothing
<1>23. CASE Mac!hid_close
  <2>1. HidOK'
    BY <1>23 DEF Mac!hid_close, Mac!NoResult
  <2>2. Mac!TypeOK' /\ (queue \in Seq(Reports))'
    BY <1>23, NoReports DEF Mac!TypeOK, Mac!hid_close, Mac!NoResult
  <2>3. MacBarriers'
    BY <1>23 DEF Mac!TypeOK, MacBarriers, Mac!hid_close, Mac!NoResult
  <2>4. MacHeld' /\ (thr = "none" => queue = <<>>)'
    BY <1>23 DEF Mac!TypeOK, MacHeld, MacBarriers, Mac!hid_close, Mac!NoResult
  <2> QED
    BY <2>1, <2>2, <2>3, <2>4
<1>24. CASE Mac!CloseFlags
  <2>1. HidOK'
    BY <1>24 DEF Mac!CloseFlags
  <2>2. Mac!TypeOK' /\ (queue \in Seq(Reports))'
    BY <1>24 DEF Mac!TypeOK, Mac!CloseFlags
  <2>3. MacBarriers'
    BY <1>24 DEF Mac!TypeOK, MacBarriers, Mac!CloseFlags
  <2>4. MacHeld' /\ (thr = "none" => queue = <<>>)'
    BY <1>24 DEF Mac!TypeOK, MacHeld, MacBarriers, Mac!CloseFlags
  <2> QED
    BY <2>1, <2>2, <2>3, <2>4
<1>25. CASE Mac!CloseSignals
  BY ZenonT(40), <1>25 DEF Mac!TypeOK, MacBarriers, MacHeld, Mac!CloseSignals
<1>26. CASE Mac!CloseBarrier
  <2>1. HidOK'
    BY <1>26 DEF Mac!CloseBarrier
  <2>2. Mac!TypeOK' /\ (queue \in Seq(Reports))'
    BY <1>26, MacArrives DEF Mac!TypeOK, Mac!CloseBarrier
  <2>3. MacBarriers'
    BY <1>26, MacArrives DEF Mac!TypeOK, MacBarriers, Mac!CloseBarrier
  <2>4. MacHeld' /\ (thr = "none" => queue = <<>>)'
    BY <1>26 DEF Mac!TypeOK, MacHeld, MacBarriers, Mac!CloseBarrier
  <2> QED
    BY <2>1, <2>2, <2>3, <2>4
<1>27. CASE Mac!CloseFrees
  <2>1. HidOK'
    BY <1>27 DEF Mac!CloseFrees
  <2>2. Mac!TypeOK' /\ (queue \in Seq(Reports))'
    BY <1>27, NoReports DEF Mac!TypeOK, Mac!CloseFrees
  <2>3. MacBarriers'
    BY <1>27 DEF Mac!TypeOK, MacBarriers, Mac!CloseFrees
  <2>4. MacHeld' /\ (thr = "none" => queue = <<>>)'
    BY <1>27 DEF Mac!TypeOK, MacHeld, MacBarriers, Mac!CloseFrees
  <2> QED
    BY <2>1, <2>2, <2>3, <2>4
<1>28. CASE Mac!ReportArrives
  <2>1. HidOK'
    BY <1>28, NextReport DEF Mac!ReportArrives
  <2>2. Mac!TypeOK' /\ (queue \in Seq(Reports))'
    BY <1>28, NextReport DEF Mac!TypeOK, Mac!ReportArrives
  <2>3. MacBarriers'
    BY <1>28 DEF Mac!TypeOK, MacBarriers, Mac!ReportArrives
  <2>4. MacHeld' /\ (thr = "none" => queue = <<>>)'
    BY <1>28 DEF Mac!TypeOK, MacHeld, MacBarriers, Mac!ReportArrives
  <2> QED
    BY <2>1, <2>2, <2>3, <2>4
<1>29. CASE Mac!Unplug
  <2>1. HidOK'
    BY <1>29 DEF Mac!Unplug
  <2>2. Mac!TypeOK' /\ (queue \in Seq(Reports))'
    BY <1>29 DEF Mac!TypeOK, Mac!Unplug
  <2>3. MacBarriers'
    BY <1>29 DEF Mac!TypeOK, MacBarriers, Mac!Unplug
  <2>4. MacHeld' /\ (thr = "none" => queue = <<>>)'
    BY <1>29 DEF Mac!TypeOK, MacHeld, MacBarriers, Mac!Unplug
  <2> QED
    BY <2>1, <2>2, <2>3, <2>4
<1> QED
  BY <1>1, <1>2, <1>3, <1>4, <1>5, <1>6, <1>7, <1>8, <1>9, <1>10, <1>10a, <1>11, <1>12, <1>13,
     <1>14, <1>15, <1>16, <1>17, <1>18, <1>19, <1>20, <1>21, <1>22, <1>23, <1>24, <1>25,
     <1>26, <1>27, <1>28, <1>29
     DEF Mac!Next, Mac!Application, Mac!Opening, Mac!Reading, Mac!Closing, Mac!Thread,
         Mac!Callbacks

-----------------------------------------------------------------------------
(* libusb: the steps.                                                      *)

LEMMA LibusbArrives == \A n \in 0..1 : Libusb!Arrives(n) = 1 - n /\ Libusb!Arrives(n) \in 0..1
BY DEF Libusb!Arrives

LEMMA LibusbEnqueue ==
  ASSUME NEW q \in Seq(Reports), NEW n \in Reports, Len(q) <= QueueLimit + 2
  PROVE  Libusb!Enqueue(q, n) \in Seq(Reports) /\ Len(Libusb!Enqueue(q, n)) <= QueueLimit + 2
BY MacEnqueue DEF Mac!Enqueue, Libusb!Enqueue

\* What the steps write to the record of the transfer and the driver keeps its type.
LEMMA UsbOsEdits ==
  ASSUME NEW r \in UsbOs
  PROVE  /\ \A p \in BOOLEAN, a \in 0..Alts : [r EXCEPT !.path = p, !.alts = a] \in UsbOs
         /\ \A a \in 0..Alts : [r EXCEPT !.alts = a] \in UsbOs
         /\ \A d, l \in BOOLEAN : [r EXCEPT !.driver = d, !.lost = l] \in UsbOs
         /\ \A x \in {"none", "completed"}, f \in 0..MaxReports, c \in {"none", "thread", "app"} :
              [r EXCEPT !.xfer = x, !.flight = f, !.cb = c] \in UsbOs
PROOF
<1>1. \A p \in BOOLEAN, a \in 0..Alts : [r EXCEPT !.path = p, !.alts = a] \in UsbOs
  BY DEF UsbOs
<1>2. \A a \in 0..Alts : [r EXCEPT !.alts = a] \in UsbOs
  BY DEF UsbOs
<1>3. \A d, l \in BOOLEAN : [r EXCEPT !.driver = d, !.lost = l] \in UsbOs
  BY DEF UsbOs
<1>4. \A x \in {"none", "completed"}, f \in 0..MaxReports, c \in {"none", "thread", "app"} :
        [r EXCEPT !.xfer = x, !.flight = f, !.cb = c] \in UsbOs
  BY HidApiAssumption DEF UsbOs, Libusb!Finished
<1> QED
  BY <1>1, <1>2, <1>3, <1>4

LEMMA UsbInit == HidOK /\ Libusb!Init => UsbInv
PROOF
<1> SUFFICES ASSUME HidOK, Libusb!Init PROVE UsbInv
  OBVIOUS
<1>1. Libusb!TypeOK /\ queue \in Seq(Reports)
  BY NoReports, HidApiAssumption, BackendsAssumption
     DEF Libusb!Init, Libusb!NewDevice, Libusb!IdleUsb, Libusb!TypeOK, Libusb!Finished
<1>2. UsbBarrier /\ UsbTransfer /\ UsbDriver /\ UsbHeld /\ os.xfer # "completed" /\ os.flight = 0
  BY DEF Libusb!Init, Libusb!NewDevice, Libusb!IdleUsb, UsbBarrier, UsbTransfer, UsbDriver,
         UsbHeld, UsbBefore, Closed, At
<1> QED
  BY <1>1, <1>2 DEF UsbInv

\* The read thread does not end before the transfer is over for good, whichever
\* thread its last callback runs on.
LEMMA UsbStep == ASSUME HidOK, UsbInv, Libusb!Next PROVE HidOK' /\ UsbInv'
PROOF
<1> USE HidApiAssumption
    DEF HidOK, UsbInv, AppPcs, Waits, Results, Reports, At, Closed, Libusb!NewDevice,
        Libusb!IdleUsb, Libusb!At, Libusb!Goto, Libusb!Closed, Libusb!Return, Libusb!Idle,
        Libusb!deviceVars, Libusb!readVars, Libusb!Woken, Libusb!Reports, Libusb!Waits,
        Libusb!Finished, UsbBefore
<1>1. CASE Libusb!hid_open_path
  <2>1. HidOK'
    BY <1>1 DEF Libusb!hid_open_path
  <2>2. Libusb!TypeOK' /\ (queue \in Seq(Reports))' /\ (os.xfer = "completed" <=> os.flight # 0)'
    <3>1. (os \in UsbOs)'
      <4>1. os \in UsbOs
        BY DEF UsbOs, Libusb!TypeOK
      <4>2. os' = [os EXCEPT !.path = TRUE, !.alts = Alts]
        BY <1>1, NoReports, BackendsAssumption DEF Libusb!TypeOK, Libusb!hid_open_path
      <4>3. Alts \in 0..Alts
        BY BackendsAssumption
      <4> QED
        BY <4>1, <4>2, <4>3 DEF UsbOs
    <3>2. (dev \in UsbDev)'
      BY <1>1, NoReports, BackendsAssumption
         DEF UsbDev, Libusb!TypeOK, Libusb!hid_open_path
    <3>3. (queue \in Seq(Reports) /\ Len(queue) <= QueueLimit + 2)'
      BY <1>1, NoReports, BackendsAssumption DEF Libusb!TypeOK, Libusb!hid_open_path
    <3>4. (thr \in {"none", "start", "barrier", "at_barrier", "loop", "events",
                 "cancel", "drain", "wake", "ended"} /\ lock \in {"none", "app"})'
      BY <1>1, NoReports, BackendsAssumption DEF Libusb!TypeOK, Libusb!hid_open_path
    <3>5. (os.xfer = "completed" <=> os.flight # 0)'
      BY <1>1, NoReports, BackendsAssumption DEF Libusb!TypeOK, Libusb!hid_open_path
    <3> QED
      BY <3>1, <3>2, <3>3, <3>4, <3>5 DEF UsbOs, UsbDev, Libusb!TypeOK
  <2>3. UsbBarrier'
    BY <1>1 DEF Libusb!TypeOK, UsbBarrier, Libusb!hid_open_path
  <2>4. UsbTransfer'
    BY <1>1 DEF Libusb!TypeOK, UsbTransfer, UsbBarrier, Libusb!hid_open_path
  <2>5. UsbDriver' /\ UsbHeld'
    BY <1>1 DEF Libusb!TypeOK, UsbDriver, UsbHeld, Libusb!hid_open_path
  <2> QED
    BY <2>1, <2>2, <2>3, <2>4, <2>5
<1>2. CASE Libusb!hid_libusb_wrap_sys_device
  <2>1. HidOK'
    BY <1>2 DEF Libusb!hid_libusb_wrap_sys_device
  <2>2. Libusb!TypeOK' /\ (queue \in Seq(Reports))' /\ (os.xfer = "completed" <=> os.flight # 0)'
    <3>1. (os \in UsbOs)'
      <4>1. os \in UsbOs
        BY DEF UsbOs, Libusb!TypeOK
      <4>2. os' = [os EXCEPT !.path = FALSE, !.alts = 0]
        BY <1>2, NoReports, BackendsAssumption
           DEF Libusb!TypeOK, Libusb!hid_libusb_wrap_sys_device
      <4>3. 0 \in 0..Alts
        BY BackendsAssumption
      <4> QED
        BY <4>1, <4>2, <4>3 DEF UsbOs
    <3>2. (dev \in UsbDev)'
      BY <1>2, NoReports, BackendsAssumption
         DEF UsbDev, Libusb!TypeOK, Libusb!hid_libusb_wrap_sys_device
    <3>3. (queue \in Seq(Reports) /\ Len(queue) <= QueueLimit + 2)'
      BY <1>2, NoReports, BackendsAssumption
         DEF Libusb!TypeOK, Libusb!hid_libusb_wrap_sys_device
    <3>4. (thr \in {"none", "start", "barrier", "at_barrier", "loop", "events",
                 "cancel", "drain", "wake", "ended"} /\ lock \in {"none", "app"})'
      BY <1>2, NoReports, BackendsAssumption
         DEF Libusb!TypeOK, Libusb!hid_libusb_wrap_sys_device
    <3>5. (os.xfer = "completed" <=> os.flight # 0)'
      BY <1>2, NoReports, BackendsAssumption
         DEF Libusb!TypeOK, Libusb!hid_libusb_wrap_sys_device
    <3> QED
      BY <3>1, <3>2, <3>3, <3>4, <3>5 DEF UsbOs, UsbDev, Libusb!TypeOK
  <2>3. UsbBarrier'
    BY <1>2 DEF Libusb!TypeOK, UsbBarrier, Libusb!hid_libusb_wrap_sys_device
  <2>4. UsbTransfer'
    BY <1>2
       DEF Libusb!TypeOK, UsbTransfer, UsbBarrier, Libusb!hid_libusb_wrap_sys_device
  <2>5. UsbDriver' /\ UsbHeld'
    BY <1>2 DEF Libusb!TypeOK, UsbDriver, UsbHeld, Libusb!hid_libusb_wrap_sys_device
  <2> QED
    BY <2>1, <2>2, <2>3, <2>4, <2>5
<1>2a. CASE Libusb!WrapSysDevice
  <2> USE DEF Libusb!WrapSysDevice, Libusb!WrapFailed
  <2>1. HidOK'
    BY <1>2a
  <2>2. Libusb!TypeOK' /\ (queue \in Seq(Reports))' /\ (os.xfer = "completed" <=> os.flight # 0)'
    BY <1>2a DEF Libusb!TypeOK
  <2>3. UsbBarrier'
    BY <1>2a DEF Libusb!TypeOK, UsbBarrier
  <2>4. UsbTransfer'
    BY <1>2a DEF Libusb!TypeOK, UsbTransfer, UsbBarrier
  <2>5. UsbDriver' /\ UsbHeld'
    BY <1>2a DEF Libusb!TypeOK, UsbDriver, UsbHeld
  <2> QED
    BY <2>1, <2>2, <2>3, <2>4, <2>5
<1>2b. CASE Libusb!WrapGetsConfig
  <2> USE DEF Libusb!WrapGetsConfig, Libusb!WrapFailed
  <2>1. HidOK'
    BY <1>2b
  <2>2. Libusb!TypeOK' /\ (queue \in Seq(Reports))' /\ (os.xfer = "completed" <=> os.flight # 0)'
    BY <1>2b DEF Libusb!TypeOK
  <2>3. UsbBarrier'
    BY <1>2b DEF Libusb!TypeOK, UsbBarrier
  <2>4. UsbTransfer'
    BY <1>2b DEF Libusb!TypeOK, UsbTransfer, UsbBarrier
  <2>5. UsbDriver' /\ UsbHeld'
    BY <1>2b DEF Libusb!TypeOK, UsbDriver, UsbHeld
  <2> QED
    BY <2>1, <2>2, <2>3, <2>4, <2>5
<1>2c. CASE Libusb!WrapFindsInterface
  <2> USE DEF Libusb!WrapFindsInterface, Libusb!WrapFailed
  <2>1. HidOK'
    BY <1>2c
  <2>2. Libusb!TypeOK' /\ (queue \in Seq(Reports))' /\ (os.xfer = "completed" <=> os.flight # 0)'
    BY <1>2c DEF Libusb!TypeOK
  <2>3. UsbBarrier'
    BY <1>2c DEF Libusb!TypeOK, UsbBarrier
  <2>4. UsbTransfer'
    BY <1>2c DEF Libusb!TypeOK, UsbTransfer, UsbBarrier
  <2>5. UsbDriver' /\ UsbHeld'
    BY <1>2c DEF Libusb!TypeOK, UsbDriver, UsbHeld
  <2> QED
    BY <2>1, <2>2, <2>3, <2>4, <2>5
<1>3. CASE Libusb!TryAltsetting
  <2>1. HidOK'
    BY <1>3 DEF Libusb!TryAltsetting
  <2>2. Libusb!TypeOK' /\ (queue \in Seq(Reports))' /\ (os.xfer = "completed" <=> os.flight # 0)'
    <3>1. (os \in UsbOs)'
      <4>1. os \in UsbOs
        BY DEF UsbOs, Libusb!TypeOK
      <4>2. \E a \in 0..Alts : os' = [os EXCEPT !.alts = a]
        BY SMTT(30), <1>3, BackendsAssumption DEF Libusb!TypeOK, Libusb!TryAltsetting
      <4> QED
        BY <4>1, <4>2 DEF UsbOs
    <3>2. (dev \in UsbDev)'
      BY <1>3, BackendsAssumption DEF UsbDev, Libusb!TypeOK, Libusb!TryAltsetting
    <3>3. (queue \in Seq(Reports) /\ Len(queue) <= QueueLimit + 2)'
      BY <1>3, BackendsAssumption DEF Libusb!TypeOK, Libusb!TryAltsetting
    <3>4. (thr \in {"none", "start", "barrier", "at_barrier", "loop", "events",
                 "cancel", "drain", "wake", "ended"} /\ lock \in {"none", "app"})'
      BY <1>3, BackendsAssumption DEF Libusb!TypeOK, Libusb!TryAltsetting
    <3>5. (os.xfer = "completed" <=> os.flight # 0)'
      BY <1>3, BackendsAssumption DEF Libusb!TypeOK, Libusb!TryAltsetting
    <3> QED
      BY <3>1, <3>2, <3>3, <3>4, <3>5 DEF UsbOs, UsbDev, Libusb!TypeOK
  <2>3. UsbBarrier'
    BY <1>3 DEF Libusb!TypeOK, UsbBarrier, Libusb!TryAltsetting
  <2>4. UsbTransfer'
    BY <1>3 DEF Libusb!TypeOK, UsbTransfer, UsbBarrier, Libusb!TryAltsetting
  <2>5. UsbDriver' /\ UsbHeld'
    BY ZenonT(40), <1>3 DEF Libusb!TypeOK, UsbDriver, UsbHeld, Libusb!TryAltsetting
  <2> QED
    BY <2>1, <2>2, <2>3, <2>4, <2>5
<1>4. CASE Libusb!DetachKernelDriver
  <2>1. HidOK'
    BY <1>4 DEF Libusb!DetachKernelDriver, Libusb!InitializeFailed, Libusb!WrapFailed
  <2>2. Libusb!TypeOK' /\ (queue \in Seq(Reports))' /\ (os.xfer = "completed" <=> os.flight # 0)'
    <3>1. (os \in UsbOs)'
      BY ZenonT(40), <1>4
         DEF UsbOs, Libusb!TypeOK, Libusb!DetachKernelDriver, Libusb!InitializeFailed, Libusb!WrapFailed
    <3>2. (dev \in UsbDev)'
      BY ZenonT(40), <1>4
         DEF UsbDev, Libusb!TypeOK, Libusb!DetachKernelDriver, Libusb!InitializeFailed, Libusb!WrapFailed
    <3>3. (queue \in Seq(Reports) /\ Len(queue) <= QueueLimit + 2)'
      BY <1>4 DEF Libusb!TypeOK, Libusb!DetachKernelDriver, Libusb!InitializeFailed, Libusb!WrapFailed
    <3>4. (thr \in {"none", "start", "barrier", "at_barrier", "loop", "events",
                 "cancel", "drain", "wake", "ended"} /\ lock \in {"none", "app"})'
      BY <1>4 DEF Libusb!TypeOK, Libusb!DetachKernelDriver, Libusb!InitializeFailed, Libusb!WrapFailed
    <3>5. (os.xfer = "completed" <=> os.flight # 0)'
      BY <1>4 DEF Libusb!TypeOK, Libusb!DetachKernelDriver, Libusb!InitializeFailed, Libusb!WrapFailed
    <3> QED
      BY <3>1, <3>2, <3>3, <3>4, <3>5 DEF UsbOs, UsbDev, Libusb!TypeOK
  <2>3. UsbBarrier'
    BY <1>4
       DEF Libusb!TypeOK, UsbBarrier, Libusb!DetachKernelDriver, Libusb!InitializeFailed, Libusb!WrapFailed
  <2>4. UsbTransfer'
    BY <1>4
       DEF Libusb!TypeOK, UsbTransfer, UsbBarrier, Libusb!DetachKernelDriver,
           Libusb!InitializeFailed, Libusb!WrapFailed
  <2>5. UsbDriver' /\ UsbHeld'
    BY SMTT(40), <1>4
       DEF Libusb!TypeOK, UsbDriver, UsbHeld, Libusb!DetachKernelDriver,
           Libusb!InitializeFailed, Libusb!WrapFailed
  <2> QED
    BY <2>1, <2>2, <2>3, <2>4, <2>5
<1>5. CASE Libusb!ClaimInterface
  <2>1. HidOK'
    BY <1>5 DEF Libusb!ClaimInterface, Libusb!InitializeFailed, Libusb!WrapFailed, Libusb!Reattach
  <2>2. Libusb!TypeOK' /\ (queue \in Seq(Reports))' /\ (os.xfer = "completed" <=> os.flight # 0)'
    <3>1. (os \in UsbOs)'
      <4>1. os \in UsbOs
        BY DEF UsbOs, Libusb!TypeOK
      <4>2. os' = os \/ \E d, l \in BOOLEAN : os' = [os EXCEPT !.driver = d, !.lost = l]
        BY <1>5
           DEF Libusb!TypeOK, Libusb!ClaimInterface, Libusb!InitializeFailed, Libusb!WrapFailed,
               Libusb!Reattach
      <4> QED
        BY <4>1, <4>2 DEF UsbOs
    <3>2. (dev \in UsbDev)'
      BY <1>5
         DEF UsbDev, Libusb!TypeOK, Libusb!ClaimInterface, Libusb!InitializeFailed, Libusb!WrapFailed,
             Libusb!Reattach
    <3>3. (queue \in Seq(Reports) /\ Len(queue) <= QueueLimit + 2)'
      BY <1>5
         DEF Libusb!TypeOK, Libusb!ClaimInterface, Libusb!InitializeFailed, Libusb!WrapFailed,
             Libusb!Reattach
    <3>4. (thr \in {"none", "start", "barrier", "at_barrier", "loop", "events",
                 "cancel", "drain", "wake", "ended"} /\ lock \in {"none", "app"})'
      BY <1>5
         DEF Libusb!TypeOK, Libusb!ClaimInterface, Libusb!InitializeFailed, Libusb!WrapFailed,
             Libusb!Reattach
    <3>5. (os.xfer = "completed" <=> os.flight # 0)'
      BY <1>5
         DEF Libusb!TypeOK, Libusb!ClaimInterface, Libusb!InitializeFailed, Libusb!WrapFailed,
             Libusb!Reattach
    <3> QED
      BY <3>1, <3>2, <3>3, <3>4, <3>5 DEF UsbOs, UsbDev, Libusb!TypeOK
  <2>3. UsbBarrier'
    BY ZenonT(40), <1>5
       DEF Libusb!TypeOK, UsbBarrier, Libusb!ClaimInterface, Libusb!InitializeFailed, Libusb!WrapFailed,
           Libusb!Reattach
  <2>4. UsbTransfer'
    BY <1>5
       DEF Libusb!TypeOK, UsbTransfer, UsbBarrier, Libusb!ClaimInterface,
           Libusb!InitializeFailed, Libusb!WrapFailed, Libusb!Reattach
  <2>5. UsbDriver' /\ UsbHeld'
    <3>1. UsbDriver'
      BY <1>5
         DEF Libusb!TypeOK, UsbDriver, Libusb!ClaimInterface, Libusb!InitializeFailed, Libusb!WrapFailed,
             Libusb!Reattach
    <3>2. app.pc = "claim" /\ app'.wait = app.wait /\ (os.path <=> os'.path)
      BY ZenonT(40), <1>5 DEF Libusb!TypeOK, Libusb!ClaimInterface, Libusb!InitializeFailed, Libusb!WrapFailed, Libusb!Reattach
    <3>3. CASE app'.pc = "barrier" /\ held' = held \cup {"interface"}
      BY <3>1, <3>2, <3>3 DEF UsbHeld
    <3>4. CASE app'.pc = "try" /\ os.path /\ held' = held \ {"handle"}
      BY <3>1, <3>2, <3>4 DEF UsbHeld
    <3>5. CASE app'.pc = "out" /\ held' = held \ {"config", "handle", "dev"}
              /\ "list" \notin held
      BY <3>1, <3>2, <3>5 DEF UsbHeld
    <3> QED
      BY <1>5, <3>1, <3>3, <3>4, <3>5 DEF UsbHeld, Libusb!ClaimInterface, Libusb!InitializeFailed, Libusb!WrapFailed
  <2> QED
    BY <2>1, <2>2, <2>3, <2>4, <2>5
<1>6. CASE Libusb!OpenBarrier
  <2>1. HidOK'
    BY <1>6 DEF Libusb!OpenBarrier
  <2>2. Libusb!TypeOK' /\ (queue \in Seq(Reports))' /\ (os.xfer = "completed" <=> os.flight # 0)'
    <3>1. Libusb!TypeOK' /\ (queue \in Seq(Reports))'
      <4>1. dev' = [dev EXCEPT !.barrier = Libusb!Arrives(@)]
            /\ UNCHANGED <<os, lock, queue>>
        BY <1>6 DEF Libusb!OpenBarrier
      <4>2. dev' \in UsbDev
        BY <4>1, LibusbArrives DEF Libusb!TypeOK, UsbDev
      <4>3. thr' = thr \/ thr' = "loop"
        BY <1>6 DEF Libusb!OpenBarrier
      <4> QED
        BY <4>1, <4>2, <4>3 DEF Libusb!TypeOK, UsbDev
    <3>2. (os.xfer = "completed" <=> os.flight # 0)'
      BY <1>6 DEF Libusb!TypeOK, Libusb!OpenBarrier
    <3> QED
      BY <3>1, <3>2
  <2>3. UsbBarrier'
    BY <1>6, LibusbArrives DEF Libusb!TypeOK, UsbBarrier, Libusb!OpenBarrier
  <2>4. UsbTransfer'
    BY <1>6 DEF Libusb!TypeOK, UsbTransfer, UsbBarrier, Libusb!OpenBarrier
  <2>5. UsbDriver' /\ UsbHeld'
    BY <1>6 DEF Libusb!TypeOK, UsbDriver, UsbHeld, Libusb!OpenBarrier
  <2> QED
    BY <2>1, <2>2, <2>3, <2>4, <2>5
<1>7. CASE Libusb!Opened
  <2>1. HidOK'
    BY <1>7 DEF Libusb!Opened
  <2>2. Libusb!TypeOK' /\ (queue \in Seq(Reports))' /\ (os.xfer = "completed" <=> os.flight # 0)'
    <3>1. (os \in UsbOs)'
      <4>1. os \in UsbOs
        BY DEF UsbOs, Libusb!TypeOK
      <4>2. os' = [os EXCEPT !.path = TRUE, !.alts = 0]
        BY <1>7, BackendsAssumption DEF Libusb!TypeOK, Libusb!Opened
      <4>3. 0 \in 0..Alts
        BY BackendsAssumption
      <4> QED
        BY <4>1, <4>2, <4>3 DEF UsbOs
    <3>2. (dev \in UsbDev)'
      BY <1>7, BackendsAssumption DEF UsbDev, Libusb!TypeOK, Libusb!Opened
    <3>3. (queue \in Seq(Reports) /\ Len(queue) <= QueueLimit + 2)'
      BY <1>7, BackendsAssumption DEF Libusb!TypeOK, Libusb!Opened
    <3>4. (thr \in {"none", "start", "barrier", "at_barrier", "loop", "events",
                 "cancel", "drain", "wake", "ended"} /\ lock \in {"none", "app"})'
      BY <1>7, BackendsAssumption DEF Libusb!TypeOK, Libusb!Opened
    <3>5. (os.xfer = "completed" <=> os.flight # 0)'
      BY <1>7, BackendsAssumption DEF Libusb!TypeOK, Libusb!Opened
    <3> QED
      BY <3>1, <3>2, <3>3, <3>4, <3>5 DEF UsbOs, UsbDev, Libusb!TypeOK
  <2>3. UsbBarrier'
    BY <1>7 DEF Libusb!TypeOK, UsbBarrier, Libusb!Opened
  <2>4. UsbTransfer'
    BY <1>7 DEF Libusb!TypeOK, UsbTransfer, UsbBarrier, Libusb!Opened
  <2>5. UsbDriver' /\ UsbHeld'
    BY <1>7 DEF Libusb!TypeOK, UsbDriver, UsbHeld, Libusb!Opened
  <2> QED
    BY <2>1, <2>2, <2>3, <2>4, <2>5
<1>8. CASE Libusb!ThreadStart
  <2>1. HidOK'
    BY <1>8 DEF Libusb!ThreadStart
  <2>2. Libusb!TypeOK' /\ (queue \in Seq(Reports))' /\ (os.xfer = "completed" <=> os.flight # 0)'
    <3>1. Libusb!TypeOK' /\ (queue \in Seq(Reports))'
      BY ZenonT(40), <1>8 DEF Libusb!TypeOK, Libusb!ThreadStart
    <3>2. (os.xfer = "completed" <=> os.flight # 0)'
      BY <1>8 DEF Libusb!TypeOK, UsbTransfer, Libusb!ThreadStart
    <3> QED
      BY <3>1, <3>2
  <2>3. UsbBarrier'
    BY <1>8 DEF Libusb!TypeOK, UsbBarrier, Libusb!ThreadStart
  <2>4. UsbTransfer'
    BY <1>8 DEF Libusb!TypeOK, UsbTransfer, UsbBarrier, Libusb!ThreadStart
  <2>5. UsbDriver' /\ UsbHeld'
    <3>1. UsbDriver'
      BY ZenonT(40), <1>8 DEF Libusb!TypeOK, UsbDriver, UsbHeld, UsbBarrier, Libusb!ThreadStart
    <3>2. UsbHeld'
      BY ZenonT(40), <1>8 DEF Libusb!TypeOK, UsbDriver, UsbHeld, UsbBarrier, Libusb!ThreadStart
    <3> QED
      BY <3>1, <3>2
  <2> QED
    BY <2>1, <2>2, <2>3, <2>4, <2>5
<1>9. CASE Libusb!ThreadBarrier
  <2>1. HidOK'
    BY <1>9 DEF Libusb!ThreadBarrier
  <2>2. Libusb!TypeOK' /\ (queue \in Seq(Reports))' /\ (os.xfer = "completed" <=> os.flight # 0)'
    BY ZenonT(40), <1>9, LibusbArrives DEF Libusb!TypeOK, Libusb!ThreadBarrier
  <2>3. UsbBarrier'
    BY <1>9, LibusbArrives DEF Libusb!TypeOK, UsbBarrier, Libusb!ThreadBarrier
  <2>4. UsbTransfer'
    BY <1>9 DEF Libusb!TypeOK, UsbTransfer, UsbBarrier, Libusb!ThreadBarrier
  <2>5. UsbDriver' /\ UsbHeld'
    BY <1>9 DEF Libusb!TypeOK, UsbDriver, UsbHeld, Libusb!ThreadBarrier
  <2> QED
    BY <2>1, <2>2, <2>3, <2>4, <2>5
<1>10. CASE Libusb!ThreadLoop
  <2>1. HidOK'
    BY <1>10 DEF Libusb!ThreadLoop
  <2>2. Libusb!TypeOK' /\ (queue \in Seq(Reports))' /\ (os.xfer = "completed" <=> os.flight # 0)'
    BY <1>10 DEF Libusb!TypeOK, Libusb!ThreadLoop
  <2>3. UsbBarrier'
    BY <1>10 DEF Libusb!TypeOK, UsbBarrier, Libusb!ThreadLoop
  <2>4. UsbTransfer'
    BY <1>10 DEF Libusb!TypeOK, UsbTransfer, UsbBarrier, Libusb!ThreadLoop
  <2>5. UsbDriver' /\ UsbHeld'
    BY <1>10 DEF Libusb!TypeOK, UsbDriver, UsbHeld, Libusb!ThreadLoop
  <2> QED
    BY <2>1, <2>2, <2>3, <2>4, <2>5
<1>11. CASE Libusb!EventsReturn
  <2>1. HidOK'
    BY <1>11 DEF Libusb!EventsReturn
  <2>2. Libusb!TypeOK' /\ (queue \in Seq(Reports))' /\ (os.xfer = "completed" <=> os.flight # 0)'
    BY <1>11 DEF Libusb!TypeOK, Libusb!EventsReturn
  <2>3. UsbBarrier'
    BY <1>11 DEF Libusb!TypeOK, UsbBarrier, Libusb!EventsReturn
  <2>4. UsbTransfer'
    BY <1>11 DEF Libusb!TypeOK, UsbTransfer, UsbBarrier, Libusb!EventsReturn
  <2>5. UsbDriver' /\ UsbHeld'
    BY <1>11 DEF Libusb!TypeOK, UsbDriver, UsbHeld, Libusb!EventsReturn
  <2> QED
    BY <2>1, <2>2, <2>3, <2>4, <2>5
<1>12. CASE Libusb!EventsFail
  <2>1. HidOK'
    BY <1>12 DEF Libusb!EventsFail
  <2>2. Libusb!TypeOK' /\ (queue \in Seq(Reports))' /\ (os.xfer = "completed" <=> os.flight # 0)'
    BY ZenonT(40), <1>12 DEF Libusb!TypeOK, Libusb!EventsFail
  <2>3. UsbBarrier'
    BY <1>12 DEF Libusb!TypeOK, UsbBarrier, Libusb!EventsFail
  <2>4. UsbTransfer'
    BY <1>12 DEF Libusb!TypeOK, UsbTransfer, UsbBarrier, Libusb!EventsFail
  <2>5. UsbDriver' /\ UsbHeld'
    BY <1>12 DEF Libusb!TypeOK, UsbDriver, UsbHeld, Libusb!EventsFail
  <2> QED
    BY <2>1, <2>2, <2>3, <2>4, <2>5
<1>13. CASE Libusb!ThreadCancel
  <2>1. HidOK'
    BY <1>13 DEF Libusb!ThreadCancel, Libusb!libusb_cancel_transfer
  <2>2. Libusb!TypeOK' /\ (queue \in Seq(Reports))' /\ (os.xfer = "completed" <=> os.flight # 0)'
    BY <1>13 DEF Libusb!TypeOK, Libusb!ThreadCancel, Libusb!libusb_cancel_transfer
  <2>3. UsbBarrier'
    BY <1>13
       DEF Libusb!TypeOK, UsbBarrier, Libusb!ThreadCancel, Libusb!libusb_cancel_transfer
  <2>4. UsbTransfer'
    BY <1>13
       DEF Libusb!TypeOK, UsbTransfer, UsbBarrier, Libusb!ThreadCancel,
           Libusb!libusb_cancel_transfer
  <2>5. UsbDriver' /\ UsbHeld'
    BY <1>13
       DEF Libusb!TypeOK, UsbDriver, UsbHeld, Libusb!ThreadCancel,
           Libusb!libusb_cancel_transfer
  <2> QED
    BY <2>1, <2>2, <2>3, <2>4, <2>5
<1>14. CASE Libusb!ThreadDrained
  <2>1. HidOK'
    BY <1>14 DEF Libusb!ThreadDrained
  <2>2. Libusb!TypeOK' /\ (queue \in Seq(Reports))' /\ (os.xfer = "completed" <=> os.flight # 0)'
    BY <1>14 DEF Libusb!TypeOK, Libusb!ThreadDrained
  <2>3. UsbBarrier'
    BY <1>14 DEF Libusb!TypeOK, UsbBarrier, Libusb!ThreadDrained
  <2>4. UsbTransfer'
    BY <1>14 DEF Libusb!TypeOK, UsbTransfer, UsbBarrier, Libusb!ThreadDrained
  <2>5. UsbDriver' /\ UsbHeld'
    BY <1>14 DEF Libusb!TypeOK, UsbDriver, UsbHeld, Libusb!ThreadDrained
  <2> QED
    BY <2>1, <2>2, <2>3, <2>4, <2>5
<1>15. CASE Libusb!WakeReader
  <2>1. HidOK'
    BY <1>15 DEF Libusb!WakeReader
  <2>2. Libusb!TypeOK' /\ (queue \in Seq(Reports))' /\ (os.xfer = "completed" <=> os.flight # 0)'
    BY <1>15 DEF Libusb!TypeOK, Libusb!WakeReader
  <2>3. UsbBarrier'
    BY <1>15 DEF Libusb!TypeOK, UsbBarrier, Libusb!WakeReader
  <2>4. UsbTransfer'
    BY <1>15 DEF Libusb!TypeOK, UsbTransfer, UsbBarrier, Libusb!WakeReader
  <2>5. UsbDriver' /\ UsbHeld'
    BY <1>15 DEF Libusb!TypeOK, UsbDriver, UsbHeld, Libusb!WakeReader
  <2> QED
    BY <2>1, <2>2, <2>3, <2>4, <2>5
<1>16. ASSUME NEW e \in {"cancelled", "timed_out", "no_device", "failed"}, Libusb!TransferEnds(e)
      PROVE  HidOK' /\ UsbInv'
  <2>1. HidOK'
    BY <1>16 DEF Libusb!TransferEnds
  <2>2. Libusb!TypeOK' /\ (queue \in Seq(Reports))' /\ (os.xfer = "completed" <=> os.flight # 0)'
    BY ZenonT(40), <1>16 DEF Libusb!TypeOK, Libusb!TransferEnds
  <2>3. UsbBarrier'
    BY <1>16 DEF Libusb!TypeOK, UsbBarrier, Libusb!TransferEnds
  <2>4. UsbTransfer'
    BY <1>16 DEF Libusb!TypeOK, UsbTransfer, UsbBarrier, Libusb!TransferEnds
  <2>5. UsbDriver' /\ UsbHeld'
    BY <1>16 DEF Libusb!TypeOK, UsbDriver, UsbHeld, Libusb!TransferEnds
  <2> QED
    BY <2>1, <2>2, <2>3, <2>4, <2>5
<1>17. CASE Libusb!ReportArrives
  <2>1. HidOK'
    BY <1>17, NextReport DEF Libusb!ReportArrives
  <2>2. Libusb!TypeOK' /\ (queue \in Seq(Reports))' /\ (os.xfer = "completed" <=> os.flight # 0)'
    <3>1. (os \in UsbOs)'
      BY <1>17, NextReport DEF UsbOs, Libusb!TypeOK, Libusb!ReportArrives
    <3>2. (dev \in UsbDev)'
      BY <1>17, NextReport DEF UsbDev, Libusb!TypeOK, Libusb!ReportArrives
    <3>3. (queue \in Seq(Reports) /\ Len(queue) <= QueueLimit + 2)'
      BY <1>17, NextReport DEF Libusb!TypeOK, Libusb!ReportArrives
    <3>4. (thr \in {"none", "start", "barrier", "at_barrier", "loop", "events",
                 "cancel", "drain", "wake", "ended"} /\ lock \in {"none", "app"})'
      BY <1>17, NextReport DEF Libusb!TypeOK, Libusb!ReportArrives
    <3>5. (os.xfer = "completed" <=> os.flight # 0)'
      BY <1>17, NextReport DEF Libusb!TypeOK, Libusb!ReportArrives
    <3> QED
      BY <3>1, <3>2, <3>3, <3>4, <3>5 DEF UsbOs, UsbDev, Libusb!TypeOK
  <2>3. UsbBarrier'
    BY <1>17 DEF Libusb!TypeOK, UsbBarrier, Libusb!ReportArrives
  <2>4. UsbTransfer'
    BY <1>17 DEF Libusb!TypeOK, UsbTransfer, UsbBarrier, Libusb!ReportArrives
  <2>5. UsbDriver' /\ UsbHeld'
    BY <1>17 DEF Libusb!TypeOK, UsbDriver, UsbHeld, Libusb!ReportArrives
  <2> QED
    BY <2>1, <2>2, <2>3, <2>4, <2>5
<1>18. ASSUME NEW t \in {"thread", "app"}, Libusb!CallbackStatus(t)
      PROVE  HidOK' /\ UsbInv'
  <2>1. HidOK'
    BY <1>18 DEF Libusb!CallbackStatus, Libusb!Handles
  <2>2. Libusb!TypeOK' /\ (queue \in Seq(Reports))' /\ (os.xfer = "completed" <=> os.flight # 0)'
    <3>1. (os \in UsbOs)'
      <4>1. os \in UsbOs
        BY DEF UsbOs, Libusb!TypeOK
      <4>2. os' = [os EXCEPT !.xfer = "none", !.flight = 0, !.cb = t]
        BY <1>18, LibusbEnqueue DEF Libusb!TypeOK, Libusb!CallbackStatus, Libusb!Handles
      <4>3. 0 \in 0..MaxReports
        BY HidApiAssumption
      <4> QED
        BY <4>1, <4>2, <4>3 DEF UsbOs
    <3>2. (dev \in UsbDev)'
      BY <1>18, LibusbEnqueue
         DEF UsbDev, Libusb!TypeOK, Libusb!CallbackStatus, Libusb!Handles
    <3>3. (queue \in Seq(Reports) /\ Len(queue) <= QueueLimit + 2)'
      BY <1>18, LibusbEnqueue DEF Libusb!TypeOK, Libusb!CallbackStatus, Libusb!Handles
    <3>4. (thr \in {"none", "start", "barrier", "at_barrier", "loop", "events",
                 "cancel", "drain", "wake", "ended"} /\ lock \in {"none", "app"})'
      BY <1>18, LibusbEnqueue DEF Libusb!TypeOK, Libusb!CallbackStatus, Libusb!Handles
    <3>5. (os.xfer = "completed" <=> os.flight # 0)'
      BY <1>18, LibusbEnqueue DEF Libusb!TypeOK, Libusb!CallbackStatus, Libusb!Handles
    <3> QED
      BY <3>1, <3>2, <3>3, <3>4, <3>5 DEF UsbOs, UsbDev, Libusb!TypeOK
  <2>3. UsbBarrier'
    BY <1>18 DEF Libusb!TypeOK, UsbBarrier, Libusb!CallbackStatus, Libusb!Handles
  <2>4. UsbTransfer'
    BY <1>18
       DEF Libusb!TypeOK, UsbTransfer, UsbBarrier, Libusb!CallbackStatus, Libusb!Handles
  <2>5. UsbDriver' /\ UsbHeld'
    BY SMTT(30), <1>18
       DEF Libusb!TypeOK, UsbDriver, UsbHeld, Libusb!CallbackStatus, Libusb!Handles
  <2> QED
    BY <2>1, <2>2, <2>3, <2>4, <2>5
<1>19. ASSUME NEW t \in {"thread", "app"}, Libusb!CallbackTest(t)
      PROVE  HidOK' /\ UsbInv'
  <2> USE DEF Libusb!CallbackTest, Libusb!EventsHandled
  <2>1. HidOK'
    BY <1>19
  <2>2. Libusb!TypeOK' /\ (queue \in Seq(Reports))' /\ (os.xfer = "completed" <=> os.flight # 0)'
    <3>1. Libusb!TypeOK' /\ (queue \in Seq(Reports))'
      BY ZenonT(40), <1>19 DEF Libusb!TypeOK
    <3>2. (os.xfer = "completed" <=> os.flight # 0)'
      BY <1>19 DEF Libusb!TypeOK, UsbTransfer
    <3> QED
      BY <3>1, <3>2
  <2>3. UsbBarrier'
    BY <1>19 DEF Libusb!TypeOK, UsbBarrier
  <2>4. UsbTransfer'
    <3>1. thr' \notin {"none", "start"} /\ (thr' \in {"wake", "ended"} => thr \in {"wake", "ended"})
      BY <1>19 DEF Libusb!TypeOK, UsbTransfer
    <3>2. CASE dev'.transfer_loop_finished /\ os'.cb = "none" /\ os'.xfer = os.xfer
      BY <1>19, <3>1, <3>2 DEF Libusb!TypeOK, UsbTransfer
    <3>3. CASE dev' = dev
      BY <1>19, <3>1, <3>3 DEF Libusb!TypeOK, UsbTransfer
    <3> QED
      BY <1>19, <3>2, <3>3 DEF Libusb!TypeOK
  <2>5. UsbDriver' /\ UsbHeld'
    <3>1. UsbDriver'
      BY ZenonT(40), <1>19 DEF Libusb!TypeOK, UsbDriver
    <3>2. UsbHeld'
      BY ZenonT(40), <1>19 DEF Libusb!TypeOK, UsbHeld
    <3> QED
      BY <3>1, <3>2
  <2> QED
    BY <2>1, <2>2, <2>3, <2>4, <2>5
<1>19a. ASSUME NEW t \in {"thread", "app"}, Libusb!CallbackSubmits(t)
      PROVE  HidOK' /\ UsbInv'
  <2> USE DEF Libusb!CallbackSubmits, Libusb!EventsHandled
  <2>1. HidOK'
    BY <1>19a
  <2>2. Libusb!TypeOK' /\ (queue \in Seq(Reports))' /\ (os.xfer = "completed" <=> os.flight # 0)'
    <3>1. Libusb!TypeOK' /\ (queue \in Seq(Reports))'
      BY ZenonT(40), <1>19a DEF Libusb!TypeOK
    <3>2. (os.xfer = "completed" <=> os.flight # 0)'
      BY <1>19a DEF Libusb!TypeOK, UsbTransfer
    <3> QED
      BY <3>1, <3>2
  <2>3. UsbBarrier'
    BY <1>19a DEF Libusb!TypeOK, UsbBarrier
  <2>4. UsbTransfer'
    <3>1. thr' \notin {"none", "start"} /\ (thr' \in {"wake", "ended"} => thr \in {"wake", "ended"})
      BY <1>19a DEF Libusb!TypeOK, UsbTransfer
    <3>2. CASE dev'.transfer_loop_finished /\ os'.cb = "none" /\ os'.xfer = os.xfer
      BY <1>19a, <3>1, <3>2 DEF Libusb!TypeOK, UsbTransfer
    <3>3. CASE dev' = dev
      BY <1>19a, <3>1, <3>3 DEF Libusb!TypeOK, UsbTransfer
    <3> QED
      BY <1>19a, <3>2, <3>3 DEF Libusb!TypeOK
  <2>5. UsbDriver' /\ UsbHeld'
    <3>1. UsbDriver'
      BY ZenonT(40), <1>19a DEF Libusb!TypeOK, UsbDriver
    <3>2. UsbHeld'
      BY ZenonT(40), <1>19a DEF Libusb!TypeOK, UsbHeld
    <3> QED
      BY <3>1, <3>2
  <2> QED
    BY <2>1, <2>2, <2>3, <2>4, <2>5
<1>20. CASE Libusb!hid_read_timeout
  <2>1. HidOK'
    BY <1>20 DEF Libusb!hid_read_timeout, Libusb!NoResult
  <2>2. Libusb!TypeOK' /\ (queue \in Seq(Reports))' /\ (os.xfer = "completed" <=> os.flight # 0)'
    BY <1>20 DEF Libusb!TypeOK, Libusb!hid_read_timeout, Libusb!NoResult
  <2>3. UsbBarrier'
    BY <1>20 DEF Libusb!TypeOK, UsbBarrier, Libusb!hid_read_timeout, Libusb!NoResult
  <2>4. UsbTransfer'
    BY <1>20
       DEF Libusb!TypeOK, UsbTransfer, UsbBarrier, Libusb!hid_read_timeout,
           Libusb!NoResult
  <2>5. UsbDriver' /\ UsbHeld'
    BY <1>20
       DEF Libusb!TypeOK, UsbDriver, UsbHeld, Libusb!hid_read_timeout, Libusb!NoResult
  <2> QED
    BY <2>1, <2>2, <2>3, <2>4, <2>5
<1>21. CASE Libusb!ReadCheck
  <2>1. HidOK'
    BY <1>21, TakeReport DEF Libusb!ReadCheck, Libusb!Data, Libusb!Error, Libusb!Nothing
  <2>2. Libusb!TypeOK' /\ (queue \in Seq(Reports))' /\ (os.xfer = "completed" <=> os.flight # 0)'
    <3>1. (queue' = queue \/ (queue # <<>> /\ queue' = Tail(queue))) /\ lock' \in {"none", "app"}
      BY <1>21 DEF Libusb!TypeOK, Libusb!ReadCheck
    <3>2. queue' \in Seq(Reports) /\ Len(queue') <= QueueLimit + 2
      BY <3>1, TakenList DEF Libusb!TypeOK
    <3> QED
      BY <1>21, <3>1, <3>2 DEF Libusb!TypeOK, Libusb!ReadCheck
  <2>3. UsbBarrier'
    BY <1>21
       DEF Libusb!TypeOK, UsbBarrier, Libusb!ReadCheck, Libusb!Data, Libusb!Error,
           Libusb!Nothing
  <2>4. UsbTransfer'
    BY <1>21
       DEF Libusb!TypeOK, UsbTransfer, UsbBarrier, Libusb!ReadCheck, Libusb!Data,
           Libusb!Error, Libusb!Nothing
  <2>5. UsbDriver' /\ UsbHeld'
    BY <1>21
       DEF Libusb!TypeOK, UsbDriver, UsbHeld, Libusb!ReadCheck, Libusb!Data,
           Libusb!Error, Libusb!Nothing
  <2> QED
    BY <2>1, <2>2, <2>3, <2>4, <2>5
<1>22. CASE Libusb!CondWait
  <2>1. HidOK'
    BY <1>22 DEF Libusb!CondWait
  <2>2. Libusb!TypeOK' /\ (queue \in Seq(Reports))' /\ (os.xfer = "completed" <=> os.flight # 0)'
    BY <1>22 DEF Libusb!TypeOK, Libusb!CondWait
  <2>3. UsbBarrier'
    BY <1>22 DEF Libusb!TypeOK, UsbBarrier, Libusb!CondWait
  <2>4. UsbTransfer'
    BY <1>22 DEF Libusb!TypeOK, UsbTransfer, UsbBarrier, Libusb!CondWait
  <2>5. UsbDriver' /\ UsbHeld'
    BY <1>22 DEF Libusb!TypeOK, UsbDriver, UsbHeld, Libusb!CondWait
  <2> QED
    BY <2>1, <2>2, <2>3, <2>4, <2>5
<1>23. CASE Libusb!SpuriousWakeup
  <2>1. HidOK'
    BY <1>23 DEF Libusb!SpuriousWakeup
  <2>2. Libusb!TypeOK' /\ (queue \in Seq(Reports))' /\ (os.xfer = "completed" <=> os.flight # 0)'
    BY <1>23 DEF Libusb!TypeOK, Libusb!SpuriousWakeup
  <2>3. UsbBarrier'
    BY <1>23 DEF Libusb!TypeOK, UsbBarrier, Libusb!SpuriousWakeup
  <2>4. UsbTransfer'
    BY <1>23 DEF Libusb!TypeOK, UsbTransfer, UsbBarrier, Libusb!SpuriousWakeup
  <2>5. UsbDriver' /\ UsbHeld'
    BY <1>23 DEF Libusb!TypeOK, UsbDriver, UsbHeld, Libusb!SpuriousWakeup
  <2> QED
    BY <2>1, <2>2, <2>3, <2>4, <2>5
<1>24. CASE Libusb!CondWoken
  <2>1. HidOK'
    BY <1>24 DEF Libusb!CondWoken
  <2>2. Libusb!TypeOK' /\ (queue \in Seq(Reports))' /\ (os.xfer = "completed" <=> os.flight # 0)'
    BY <1>24 DEF Libusb!TypeOK, Libusb!CondWoken
  <2>3. UsbBarrier'
    BY <1>24 DEF Libusb!TypeOK, UsbBarrier, Libusb!CondWoken
  <2>4. UsbTransfer'
    BY <1>24 DEF Libusb!TypeOK, UsbTransfer, UsbBarrier, Libusb!CondWoken
  <2>5. UsbDriver' /\ UsbHeld'
    BY <1>24 DEF Libusb!TypeOK, UsbDriver, UsbHeld, Libusb!CondWoken
  <2> QED
    BY <2>1, <2>2, <2>3, <2>4, <2>5
<1>25. CASE Libusb!ReadTimesOut
  <2>1. HidOK'
    BY <1>25 DEF Libusb!ReadTimesOut, Libusb!Nothing
  <2>2. Libusb!TypeOK' /\ (queue \in Seq(Reports))' /\ (os.xfer = "completed" <=> os.flight # 0)'
    BY <1>25 DEF Libusb!TypeOK, Libusb!ReadTimesOut, Libusb!Nothing
  <2>3. UsbBarrier'
    BY <1>25 DEF Libusb!TypeOK, UsbBarrier, Libusb!ReadTimesOut, Libusb!Nothing
  <2>4. UsbTransfer'
    BY <1>25
       DEF Libusb!TypeOK, UsbTransfer, UsbBarrier, Libusb!ReadTimesOut, Libusb!Nothing
  <2>5. UsbDriver' /\ UsbHeld'
    BY <1>25 DEF Libusb!TypeOK, UsbDriver, UsbHeld, Libusb!ReadTimesOut, Libusb!Nothing
  <2> QED
    BY <2>1, <2>2, <2>3, <2>4, <2>5
<1>26. CASE Libusb!SyncTransfer
  <2>1. HidOK'
    BY <1>26 DEF Libusb!SyncTransfer, Libusb!NoResult
  <2>2. Libusb!TypeOK' /\ (queue \in Seq(Reports))' /\ (os.xfer = "completed" <=> os.flight # 0)'
    BY <1>26 DEF Libusb!TypeOK, Libusb!SyncTransfer, Libusb!NoResult
  <2>3. UsbBarrier'
    BY <1>26 DEF Libusb!TypeOK, UsbBarrier, Libusb!SyncTransfer, Libusb!NoResult
  <2>4. UsbTransfer'
    BY <1>26
       DEF Libusb!TypeOK, UsbTransfer, UsbBarrier, Libusb!SyncTransfer, Libusb!NoResult
  <2>5. UsbDriver' /\ UsbHeld'
    BY <1>26 DEF Libusb!TypeOK, UsbDriver, UsbHeld, Libusb!SyncTransfer, Libusb!NoResult
  <2> QED
    BY <2>1, <2>2, <2>3, <2>4, <2>5
<1>27. CASE Libusb!SyncTransferEnds
  <2>1. HidOK'
    BY <1>27 DEF Libusb!SyncTransferEnds
  <2>2. Libusb!TypeOK' /\ (queue \in Seq(Reports))' /\ (os.xfer = "completed" <=> os.flight # 0)'
    BY <1>27 DEF Libusb!TypeOK, Libusb!SyncTransferEnds
  <2>3. UsbBarrier'
    BY <1>27 DEF Libusb!TypeOK, UsbBarrier, Libusb!SyncTransferEnds
  <2>4. UsbTransfer'
    BY <1>27 DEF Libusb!TypeOK, UsbTransfer, UsbBarrier, Libusb!SyncTransferEnds
  <2>5. UsbDriver' /\ UsbHeld'
    BY <1>27 DEF Libusb!TypeOK, UsbDriver, UsbHeld, Libusb!SyncTransferEnds
  <2> QED
    BY <2>1, <2>2, <2>3, <2>4, <2>5
<1>28. CASE Libusb!hid_close
  <2>1. HidOK'
    BY <1>28 DEF Libusb!hid_close, Libusb!NoResult
  <2>2. Libusb!TypeOK' /\ (queue \in Seq(Reports))' /\ (os.xfer = "completed" <=> os.flight # 0)'
    <3>1. (os \in UsbOs)'
      BY <1>28 DEF UsbOs, Libusb!TypeOK, Libusb!hid_close, Libusb!NoResult
    <3>2. (dev \in UsbDev)'
      BY <1>28 DEF UsbDev, Libusb!TypeOK, Libusb!hid_close, Libusb!NoResult
    <3>3. (queue \in Seq(Reports) /\ Len(queue) <= QueueLimit + 2)'
      BY <1>28 DEF Libusb!TypeOK, Libusb!hid_close, Libusb!NoResult
    <3>4. (thr \in {"none", "start", "barrier", "at_barrier", "loop", "events",
                 "cancel", "drain", "wake", "ended"} /\ lock \in {"none", "app"})'
      BY <1>28 DEF Libusb!TypeOK, Libusb!hid_close, Libusb!NoResult
    <3>5. (os.xfer = "completed" <=> os.flight # 0)'
      BY <1>28 DEF Libusb!TypeOK, Libusb!hid_close, Libusb!NoResult
    <3> QED
      BY <3>1, <3>2, <3>3, <3>4, <3>5 DEF UsbOs, UsbDev, Libusb!TypeOK
  <2>3. UsbBarrier'
    BY <1>28 DEF Libusb!TypeOK, UsbBarrier, Libusb!hid_close, Libusb!NoResult
  <2>4. UsbTransfer'
    BY <1>28
       DEF Libusb!TypeOK, UsbTransfer, UsbBarrier, Libusb!hid_close, Libusb!NoResult
  <2>5. UsbDriver' /\ UsbHeld'
    BY <1>28 DEF Libusb!TypeOK, UsbDriver, UsbHeld, Libusb!hid_close, Libusb!NoResult
  <2> QED
    BY <2>1, <2>2, <2>3, <2>4, <2>5
<1>29. CASE Libusb!CloseCancels
  <2>1. HidOK'
    BY <1>29 DEF Libusb!CloseCancels, Libusb!libusb_cancel_transfer
  <2>2. Libusb!TypeOK' /\ (queue \in Seq(Reports))' /\ (os.xfer = "completed" <=> os.flight # 0)'
    <3>1. (os \in UsbOs)'
      BY <1>29
         DEF UsbOs, Libusb!TypeOK, Libusb!CloseCancels, Libusb!libusb_cancel_transfer
    <3>2. (dev \in UsbDev)'
      BY <1>29
         DEF UsbDev, Libusb!TypeOK, Libusb!CloseCancels, Libusb!libusb_cancel_transfer
    <3>3. (queue \in Seq(Reports) /\ Len(queue) <= QueueLimit + 2)'
      BY <1>29 DEF Libusb!TypeOK, Libusb!CloseCancels, Libusb!libusb_cancel_transfer
    <3>4. (thr \in {"none", "start", "barrier", "at_barrier", "loop", "events",
                 "cancel", "drain", "wake", "ended"} /\ lock \in {"none", "app"})'
      BY <1>29 DEF Libusb!TypeOK, Libusb!CloseCancels, Libusb!libusb_cancel_transfer
    <3>5. (os.xfer = "completed" <=> os.flight # 0)'
      BY <1>29 DEF Libusb!TypeOK, Libusb!CloseCancels, Libusb!libusb_cancel_transfer
    <3> QED
      BY <3>1, <3>2, <3>3, <3>4, <3>5 DEF UsbOs, UsbDev, Libusb!TypeOK
  <2>3. UsbBarrier'
    BY <1>29
       DEF Libusb!TypeOK, UsbBarrier, Libusb!CloseCancels, Libusb!libusb_cancel_transfer
  <2>4. UsbTransfer'
    BY <1>29
       DEF Libusb!TypeOK, UsbTransfer, UsbBarrier, Libusb!CloseCancels,
           Libusb!libusb_cancel_transfer
  <2>5. UsbDriver' /\ UsbHeld'
    BY <1>29
       DEF Libusb!TypeOK, UsbDriver, UsbHeld, Libusb!CloseCancels,
           Libusb!libusb_cancel_transfer
  <2> QED
    BY <2>1, <2>2, <2>3, <2>4, <2>5
<1>30. CASE Libusb!CloseFrees
  <2>1. HidOK'
    BY <1>30 DEF Libusb!CloseFrees, Libusb!Reattach
  <2>2. Libusb!TypeOK' /\ (queue \in Seq(Reports))' /\ (os.xfer = "completed" <=> os.flight # 0)'
    <3>1. (os \in UsbOs)'
      <4>1. os \in UsbOs
        BY DEF UsbOs, Libusb!TypeOK
      <4>2. os' = os \/ \E d, l \in BOOLEAN : os' = [os EXCEPT !.driver = d, !.lost = l]
        BY <1>30, NoReports DEF Libusb!TypeOK, Libusb!CloseFrees, Libusb!Reattach
      <4> QED
        BY <4>1, <4>2 DEF UsbOs
    <3>2. (dev \in UsbDev)'
      BY <1>30, NoReports DEF UsbDev, Libusb!TypeOK, Libusb!CloseFrees
    <3>3. (queue \in Seq(Reports) /\ Len(queue) <= QueueLimit + 2)'
      BY <1>30, NoReports DEF Libusb!TypeOK, Libusb!CloseFrees
    <3>4. (thr \in {"none", "start", "barrier", "at_barrier", "loop", "events",
                 "cancel", "drain", "wake", "ended"} /\ lock \in {"none", "app"})'
      BY <1>30, NoReports DEF Libusb!TypeOK, Libusb!CloseFrees
    <3>5. (os.xfer = "completed" <=> os.flight # 0)'
      BY <1>30, NoReports DEF Libusb!TypeOK, Libusb!CloseFrees, Libusb!Reattach
    <3> QED
      BY <3>1, <3>2, <3>3, <3>4, <3>5 DEF UsbOs, UsbDev, Libusb!TypeOK
  <2>3. UsbBarrier'
    BY <1>30 DEF Libusb!TypeOK, UsbBarrier, Libusb!CloseFrees, Libusb!Reattach
  <2>4. UsbTransfer'
    BY ZenonT(40), <1>30
       DEF Libusb!TypeOK, UsbTransfer, UsbBarrier, Libusb!CloseFrees, Libusb!Reattach
  <2>5. UsbDriver' /\ UsbHeld'
    BY ZenonT(40), <1>30 DEF Libusb!TypeOK, UsbDriver, UsbHeld, Libusb!CloseFrees, Libusb!Reattach
  <2> QED
    BY <2>1, <2>2, <2>3, <2>4, <2>5
<1>31. CASE Libusb!Unplug
  <2>1. HidOK'
    BY <1>31 DEF Libusb!Unplug
  <2>2. Libusb!TypeOK' /\ (queue \in Seq(Reports))' /\ (os.xfer = "completed" <=> os.flight # 0)'
    BY <1>31 DEF Libusb!TypeOK, Libusb!Unplug
  <2>3. UsbBarrier'
    BY <1>31 DEF Libusb!TypeOK, UsbBarrier, Libusb!Unplug
  <2>4. UsbTransfer'
    BY <1>31 DEF Libusb!TypeOK, UsbTransfer, UsbBarrier, Libusb!Unplug
  <2>5. UsbDriver' /\ UsbHeld'
    BY <1>31 DEF Libusb!TypeOK, UsbDriver, UsbHeld, Libusb!Unplug
  <2> QED
    BY <2>1, <2>2, <2>3, <2>4, <2>5
<1> QED
  BY <1>1, <1>2, <1>3, <1>4, <1>5, <1>6, <1>7, <1>8, <1>9, <1>10, <1>11, <1>12, <1>13,
     <1>14, <1>15, <1>16, <1>17, <1>18, <1>19, <1>20, <1>21, <1>22, <1>23, <1>24, <1>25,
     <1>26, <1>27, <1>28, <1>29, <1>30, <1>31, <1>2a, <1>2b, <1>2c, <1>19a
     DEF Libusb!Next, Libusb!Application, Libusb!Opening, Libusb!Reading,
         Libusb!Closing, Libusb!Thread, Libusb!Usb

-----------------------------------------------------------------------------
(* Rings: the reports the system keeps for a descriptor.                   *)

LEMMA RingTail ==
  ASSUME NEW q \in Seq(Reports), NEW n \in Nat, Len(q) <= n, q # <<>>
  PROVE  Tail(q) \in Seq(Reports) /\ Len(Tail(q)) <= n /\ Head(q) \in Reports
PROOF
<1>1. Tail(q) \in Seq(Reports) /\ Len(Tail(q)) = Len(q) - 1 /\ Len(q) \in Nat
      /\ Head(q) \in Reports
  BY TakeReport
<1>2. Len(q) - 1 <= n
  BY <1>1
<1> QED
  BY <1>1, <1>2

LEMMA RingAppend ==
  ASSUME NEW q \in Seq(Reports), NEW n \in Nat, Len(q) < n, NEW r \in Reports
  PROVE  Append(q, r) \in Seq(Reports) /\ Len(Append(q, r)) <= n
PROOF
<1>1. Append(q, r) \in Seq(Reports) /\ Len(Append(q, r)) = Len(q) + 1 /\ Len(q) \in Nat
  OBVIOUS
<1> QED
  BY <1>1

-----------------------------------------------------------------------------
(* Linux: the steps.                                                       *)

LEMMA LinuxInit == HidOK /\ Linux!Init => LinuxInv
BY NoReports, BackendsAssumption
   DEF Linux!Init, Linux!NewDevice, Linux!IdleLinux, LinuxInv, Linux!TypeOK, LinuxHeld, Closed, At,
       Linux!Reports, Reports

LEMMA LinuxStep == ASSUME HidOK, LinuxInv, Linux!Next PROVE HidOK' /\ LinuxInv'
PROOF
<1> USE HidApiAssumption, BackendsAssumption
    DEF HidOK, LinuxInv, AppPcs, Waits, Results, Reports, At, Closed, Linux!NewDevice,
        Linux!IdleLinux, Linux!At, Linux!Goto, Linux!Closed, Linux!Return, Linux!Idle,
        Linux!deviceVars, Linux!unused, Linux!Reports, Linux!Waits
<1>1. CASE Linux!hid_open_path
  <2>1. HidOK'
    BY <1>1 DEF Linux!TypeOK, Linux!hid_open_path
  <2>2. Linux!TypeOK'
    BY <1>1 DEF Linux!TypeOK, Linux!hid_open_path
  <2>3. LinuxHeld'
    BY <1>1 DEF Linux!TypeOK, LinuxHeld, Linux!hid_open_path
  <2> QED
    BY <2>1, <2>2, <2>3
<1>2. CASE Linux!OpenNode
  <2>1. HidOK'
    BY <1>2 DEF Linux!TypeOK, Linux!OpenNode
  <2>2. Linux!TypeOK'
    <3>1. CASE os' = Linux!IdleLinux
      BY <1>2, <3>1, NoReports DEF Linux!TypeOK, Linux!OpenNode
    <3>2. CASE os' = os
      BY <1>2, <3>2 DEF Linux!TypeOK, Linux!OpenNode
    <3> QED
      BY <1>2, <3>1, <3>2 DEF Linux!OpenNode
  <2>3. LinuxHeld'
    BY <1>2 DEF Linux!TypeOK, LinuxHeld, Linux!OpenNode
  <2> QED
    BY <2>1, <2>2, <2>3
<1>3. CASE Linux!CheckNode
  <2>1. HidOK'
    BY <1>3 DEF Linux!TypeOK, Linux!CheckNode
  <2>2. Linux!TypeOK'
    BY <1>3 DEF Linux!TypeOK, Linux!CheckNode
  <2>3. LinuxHeld'
    BY <1>3 DEF Linux!TypeOK, LinuxHeld, Linux!CheckNode
  <2> QED
    BY <2>1, <2>2, <2>3
<1>4. CASE Linux!hid_set_nonblocking
  <2>1. HidOK'
    BY <1>4 DEF Linux!TypeOK, Linux!hid_set_nonblocking, Linux!NoResult
  <2>2. Linux!TypeOK'
    BY <1>4 DEF Linux!TypeOK, Linux!hid_set_nonblocking, Linux!NoResult
  <2>3. LinuxHeld'
    BY <1>4 DEF Linux!TypeOK, LinuxHeld, Linux!hid_set_nonblocking, Linux!NoResult
  <2> QED
    BY <2>1, <2>2, <2>3
<1>5. CASE Linux!hid_read
  <2>1. HidOK'
    BY <1>5 DEF Linux!TypeOK, Linux!hid_read, Linux!NoResult
  <2>2. Linux!TypeOK'
    BY <1>5 DEF Linux!TypeOK, Linux!hid_read, Linux!NoResult
  <2>3. LinuxHeld'
    BY <1>5 DEF Linux!TypeOK, LinuxHeld, Linux!hid_read, Linux!NoResult
  <2> QED
    BY <2>1, <2>2, <2>3
<1>6. CASE Linux!hid_read_timeout
  <2>1. HidOK'
    BY <1>6 DEF Linux!TypeOK, Linux!hid_read_timeout, Linux!NoResult
  <2>2. Linux!TypeOK'
    BY <1>6 DEF Linux!TypeOK, Linux!hid_read_timeout, Linux!NoResult
  <2>3. LinuxHeld'
    BY <1>6 DEF Linux!TypeOK, LinuxHeld, Linux!hid_read_timeout, Linux!NoResult
  <2> QED
    BY <2>1, <2>2, <2>3
<1>7. CASE Linux!PollReturns
  <2>1. HidOK'
    BY <1>7 DEF Linux!TypeOK, Linux!PollReturns, Linux!Error
  <2>2. Linux!TypeOK'
    BY <1>7 DEF Linux!TypeOK, Linux!PollReturns, Linux!Error
  <2>3. LinuxHeld'
    BY <1>7 DEF Linux!TypeOK, LinuxHeld, Linux!PollReturns, Linux!Error
  <2> QED
    BY <2>1, <2>2, <2>3
<1>8. CASE Linux!PollInterrupted
  <2>1. HidOK'
    BY <1>8 DEF Linux!TypeOK, Linux!PollInterrupted, Linux!Error
  <2>2. Linux!TypeOK'
    BY <1>8 DEF Linux!TypeOK, Linux!PollInterrupted, Linux!Error
  <2>3. LinuxHeld'
    BY <1>8 DEF Linux!TypeOK, LinuxHeld, Linux!PollInterrupted, Linux!Error
  <2> QED
    BY <2>1, <2>2, <2>3
<1>8a. CASE Linux!ReadInterrupted
  <2>1. HidOK'
    BY <1>8a DEF Linux!TypeOK, Linux!ReadInterrupted, Linux!Error, Linux!Nothing
  <2>2. Linux!TypeOK'
    BY <1>8a DEF Linux!TypeOK, Linux!ReadInterrupted, Linux!Error, Linux!Nothing
  <2>3. LinuxHeld'
    BY <1>8a DEF Linux!TypeOK, LinuxHeld, Linux!ReadInterrupted, Linux!Error, Linux!Nothing
  <2> QED
    BY <2>1, <2>2, <2>3
<1>9. CASE Linux!PollTimesOut
  <2>1. HidOK'
    BY <1>9 DEF Linux!TypeOK, Linux!PollTimesOut, Linux!Nothing
  <2>2. Linux!TypeOK'
    BY <1>9 DEF Linux!TypeOK, Linux!PollTimesOut, Linux!Nothing
  <2>3. LinuxHeld'
    BY <1>9 DEF Linux!TypeOK, LinuxHeld, Linux!PollTimesOut, Linux!Nothing
  <2> QED
    BY <2>1, <2>2, <2>3
<1>10. CASE Linux!ReadReturns
  <2>1. HidOK'
    BY <1>10, TakeReport DEF Linux!TypeOK, Linux!ReadReturns, Linux!Error, Linux!Data
  <2>2. Linux!TypeOK'
    BY ZenonT(40), <1>10, RingTail DEF Linux!TypeOK, Linux!ReadReturns, Linux!Error, Linux!Data
  <2>3. LinuxHeld'
    BY <1>10 DEF Linux!TypeOK, LinuxHeld, Linux!ReadReturns, Linux!Error, Linux!Data
  <2> QED
    BY <2>1, <2>2, <2>3
<1>11. CASE Linux!SyncRequest
  <2>1. HidOK'
    BY <1>11 DEF Linux!TypeOK, Linux!SyncRequest, Linux!NoResult
  <2>2. Linux!TypeOK'
    BY <1>11 DEF Linux!TypeOK, Linux!SyncRequest, Linux!NoResult
  <2>3. LinuxHeld'
    BY <1>11 DEF Linux!TypeOK, LinuxHeld, Linux!SyncRequest, Linux!NoResult
  <2> QED
    BY <2>1, <2>2, <2>3
<1>12. CASE Linux!SyncRequestEnds
  <2>1. HidOK'
    BY <1>12 DEF Linux!TypeOK, Linux!SyncRequestEnds
  <2>2. Linux!TypeOK'
    BY <1>12 DEF Linux!TypeOK, Linux!SyncRequestEnds
  <2>3. LinuxHeld'
    BY <1>12 DEF Linux!TypeOK, LinuxHeld, Linux!SyncRequestEnds
  <2> QED
    BY <2>1, <2>2, <2>3
<1>13. CASE Linux!hid_close
  <2>1. HidOK'
    BY <1>13 DEF Linux!TypeOK, Linux!hid_close, Linux!NoResult
  <2>2. Linux!TypeOK'
    BY <1>13, NoReports, BackendsAssumption
       DEF Linux!TypeOK, Linux!hid_close, Linux!NoResult
  <2>3. LinuxHeld'
    BY <1>13 DEF Linux!TypeOK, LinuxHeld, Linux!hid_close, Linux!NoResult
  <2> QED
    BY <2>1, <2>2, <2>3
<1>14. CASE Linux!ReportArrives
  <2>1. HidOK'
    BY <1>14, NextReport DEF Linux!TypeOK, Linux!ReportArrives
  <2>2. Linux!TypeOK'
    BY <1>14, NextReport, RingAppend DEF Linux!TypeOK, Linux!ReportArrives
  <2>3. LinuxHeld'
    BY <1>14 DEF Linux!TypeOK, LinuxHeld, Linux!ReportArrives
  <2> QED
    BY <2>1, <2>2, <2>3
<1>15. CASE Linux!Unplug
  <2>1. HidOK'
    BY <1>15 DEF Linux!TypeOK, Linux!Unplug
  <2>2. Linux!TypeOK'
    BY <1>15 DEF Linux!TypeOK, Linux!Unplug
  <2>3. LinuxHeld'
    BY <1>15 DEF Linux!TypeOK, LinuxHeld, Linux!Unplug
  <2> QED
    BY <2>1, <2>2, <2>3
<1> QED
  BY <1>1, <1>2, <1>3, <1>4, <1>5, <1>6, <1>7, <1>8, <1>8a, <1>9, <1>10, <1>11, <1>12, <1>13,
     <1>14, <1>15 DEF Linux!Next, Linux!Application, Linux!Opening, Linux!Reading

-----------------------------------------------------------------------------
(* Windows: the steps.                                                     *)

LEMMA WriteTail ==
  ASSUME NEW S, NEW q \in Seq(S), q # <<>>
  PROVE  Head(q) \in S /\ Tail(q) \in Seq(S)
PROOF
<1>1. Len(q) \in Nat /\ Len(q) # 0
  OBVIOUS
<1>2. Head(q) = q[1] /\ 1 \in 1..Len(q)
  BY <1>1
<1>3. Head(q) \in S
  BY <1>2
<1>4. Tail(q) \in Seq(S)
  OBVIOUS
<1> QED
  BY <1>3, <1>4

LEMMA OneWrite == \A n : Append(<<>>, n) = <<n>>
OBVIOUS

LEMMA WinInit == HidOK /\ Win!Init => WinInv
PROOF
<1> SUFFICES ASSUME HidOK, Win!Init PROVE WinInv
  OBVIOUS
<1>1. os \in WinOs
  BY NoReports, BackendsAssumption
     DEF Win!Init, Win!IdleWin, WinOs, Reports
<1>2. Win!TypeOK
  BY NoReports, BackendsAssumption
     DEF Win!Init, Win!NewDevice, Win!IdleWin, Win!TypeOK
<1>3. WinHeld /\ WinWrites /\ app.pc = "out" /\ ~dev.read_pending /\ os.io = "none"
  BY DEF Win!Init, Win!NewDevice, Win!IdleWin, WinHeld, WinWrites, Win!NoResult
<1> QED
  BY <1>1, <1>2, <1>3 DEF WinInv

\* As long as no write has timed out, success means that the driver is done.
LEMMA WinStep == ASSUME HidOK, WinInv, Win!Next PROVE HidOK' /\ WinInv'
PROOF
<1> USE HidApiAssumption, BackendsAssumption
    DEF HidOK, WinInv, AppPcs, Waits, Results, Reports, At, Closed, Win!NewDevice,
        Win!IdleWin, Win!At, Win!Goto, Win!Closed, Win!Return, Win!Idle,
        Win!deviceVars, Win!unused, Win!Reports, Win!Waits
<1>1. CASE Win!hid_open_path
  <2>1. HidOK'
    BY <1>1 DEF WinOs, Win!TypeOK, Win!hid_open_path
  <2>2. (os \in WinOs)'
    BY <1>1, NoReports DEF WinOs, Win!hid_open_path
  <2>3. Win!TypeOK'
    BY <1>1, NoReports DEF WinOs, Win!TypeOK, Win!hid_open_path
  <2>4. WinHeld'
    BY <1>1 DEF WinHeld, Win!hid_open_path
  <2>5. WinWrites'
    BY <1>1 DEF WinOs, WinWrites, Win!TypeOK, Win!hid_open_path
  <2>6. /\ (app.pc \in {"out", "open", "buffers", "caps"} => ~dev.read_pending)'
        /\ (os.io = "pending" => os.ring = <<>>)'
    BY <1>1 DEF Win!TypeOK, Win!hid_open_path
  <2> QED
    BY <2>1, <2>2, <2>3, <2>4, <2>5, <2>6
<1>2. CASE Win!OpenDevice
  <2>1. HidOK'
    BY <1>2 DEF WinOs, Win!TypeOK, Win!OpenDevice, Win!EndOfFunction
  <2>2. (os \in WinOs)'
    BY <1>2 DEF WinOs, Win!OpenDevice, Win!EndOfFunction
  <2>3. Win!TypeOK'
    BY <1>2 DEF WinOs, Win!TypeOK, Win!OpenDevice, Win!EndOfFunction
  <2>4. WinHeld'
    BY <1>2 DEF WinHeld, Win!OpenDevice, Win!EndOfFunction
  <2>5. WinWrites'
    BY <1>2 DEF WinOs, WinWrites, Win!TypeOK, Win!OpenDevice, Win!EndOfFunction
  <2>6. /\ (app.pc \in {"out", "open", "buffers", "caps"} => ~dev.read_pending)'
        /\ (os.io = "pending" => os.ring = <<>>)'
    BY <1>2 DEF Win!TypeOK, Win!OpenDevice, Win!EndOfFunction
  <2> QED
    BY <2>1, <2>2, <2>3, <2>4, <2>5, <2>6
<1>3. CASE Win!GetPreparsedData
  <2>1. HidOK'
    BY <1>3 DEF WinOs, Win!TypeOK, Win!GetPreparsedData, Win!EndOfFunction
  <2>2. (os \in WinOs)'
    BY <1>3 DEF WinOs, Win!GetPreparsedData, Win!EndOfFunction
  <2>3. Win!TypeOK'
    BY <1>3 DEF WinOs, Win!TypeOK, Win!GetPreparsedData, Win!EndOfFunction
  <2>4. WinHeld'
    BY <1>3 DEF WinHeld, Win!GetPreparsedData, Win!EndOfFunction
  <2>5. WinWrites'
    BY <1>3 DEF WinOs, WinWrites, Win!TypeOK, Win!GetPreparsedData, Win!EndOfFunction
  <2>6. /\ (app.pc \in {"out", "open", "buffers", "caps"} => ~dev.read_pending)'
        /\ (os.io = "pending" => os.ring = <<>>)'
    BY <1>3 DEF Win!TypeOK, Win!GetPreparsedData, Win!EndOfFunction
  <2> QED
    BY <2>1, <2>2, <2>3, <2>4, <2>5, <2>6
<1>4. CASE Win!NewHidDevice
  <2>1. HidOK'
    BY <1>4 DEF WinOs, Win!TypeOK, Win!NewHidDevice, Win!EndOfFunction
  <2>2. (os \in WinOs)'
    BY <1>4 DEF WinOs, Win!NewHidDevice, Win!EndOfFunction
  <2>3. Win!TypeOK'
    BY ZenonT(40), <1>4 DEF WinOs, Win!TypeOK, Win!NewHidDevice, Win!EndOfFunction
  <2>4. WinHeld'
    BY <1>4 DEF WinHeld, Win!NewHidDevice, Win!EndOfFunction
  <2>5. WinWrites'
    BY <1>4 DEF WinOs, WinWrites, Win!TypeOK, Win!NewHidDevice, Win!EndOfFunction
  <2>6. /\ (app.pc \in {"out", "open", "buffers", "caps"} => ~dev.read_pending)'
        /\ (os.io = "pending" => os.ring = <<>>)'
    BY <1>4 DEF Win!TypeOK, Win!NewHidDevice, Win!EndOfFunction
  <2> QED
    BY <2>1, <2>2, <2>3, <2>4, <2>5, <2>6
<1>5. CASE Win!hid_read_timeout
  <2>1. HidOK'
    BY SMTT(30), <1>5, TakeReport
       DEF WinOs, Win!TypeOK, Win!hid_read_timeout, Win!ReadFile, Win!ReadAgain,
           Win!CancelIo, Win!NoResult, Win!Error, Win!Data
  <2>2. (os \in WinOs)'
    <3>1. CASE os' = os \/ os' = Win!CancelIo(os)
      <4>1. <<>> \in Seq(1..MaxWrites)
        OBVIOUS
      <4>2. CASE os' = os
        BY <4>2
      <4>3. CASE os' = Win!CancelIo(os) /\ os.writes = <<>>
        BY <4>1, <4>3 DEF WinOs, Win!CancelIo
      <4>4. CASE os' = Win!CancelIo(os) /\ os.writes # <<>>
        BY <4>1, <4>4 DEF WinOs, Win!CancelIo
      <4> QED
        BY <3>1, <4>2, <4>3, <4>4
    <3>2. CASE os.ring # <<>> /\ os' = [os EXCEPT !.ring = Tail(@)]
      BY <3>2, RingTail DEF WinOs, Win!TypeOK
    <3>3. CASE os' = [os EXCEPT !.io = "pending", !.ev = FALSE]
      BY <3>3 DEF WinOs
    <3>4. CASE os.ring # <<>> /\ os' = [os EXCEPT !.io = "done", !.ev = TRUE,
                                        !.got = Head(os.ring), !.ring = Tail(@)]
      <4>1. Tail(os.ring) \in Seq(Reports) /\ Head(os.ring) \in Nat
        BY <3>4, TakeReport DEF WinOs
      <4> QED
        BY <3>4, <4>1 DEF WinOs
    <3> QED
      BY <1>5, <3>1, <3>2, <3>3, <3>4
         DEF Win!hid_read_timeout, Win!ReadFile, Win!ReadAgain
  <2>3. Win!TypeOK'
    <3>1. thr' = thr /\ lock' = lock /\ queue' = queue
      BY <1>5 DEF Win!hid_read_timeout
    <3>2. CASE os' = os /\ dev' = dev
      BY <3>1, <3>2 DEF Win!TypeOK
    <3>3. CASE ~dev.read_pending /\ os' = Win!CancelIo(os) /\ dev' = dev
      BY <3>1, <3>3 DEF WinOs, Win!TypeOK, Win!CancelIo
    <3>4. CASE os.ring # <<>> /\ os' = [os EXCEPT !.ring = Tail(@)] /\ dev' = dev
      BY <3>1, <3>4, RingTail DEF WinOs, Win!TypeOK
    <3>5. CASE dev' = [dev EXCEPT !.read_pending = TRUE]
               /\ os' = [os EXCEPT !.io = "pending", !.ev = FALSE]
      BY <3>1, <3>5 DEF WinOs, Win!TypeOK
    <3>6. CASE dev' = [dev EXCEPT !.read_pending = TRUE] /\ os.ring # <<>>
               /\ os' = [os EXCEPT !.io = "done", !.ev = TRUE,
                                   !.got = Head(os.ring), !.ring = Tail(@)]
      <4>1. Len(Tail(os.ring)) <= RingSize
        BY <3>6, RingTail DEF WinOs, Win!TypeOK
      <4> QED
        BY <3>1, <3>6, <4>1 DEF WinOs, Win!TypeOK
    <3> QED
      BY <1>5, <3>2, <3>3, <3>4, <3>5, <3>6
         DEF Win!hid_read_timeout, Win!ReadFile, Win!ReadAgain
  <2>4. WinHeld'
    BY <1>5
       DEF WinHeld, Win!hid_read_timeout, Win!ReadFile, Win!ReadAgain, Win!CancelIo,
           Win!NoResult, Win!Error, Win!Data
  <2>5. WinWrites'
    <3>1. app.pc = "idle" /\ app'.pc \in {"idle", "wait"} /\ last'.res # "written"
      BY <1>5, TakeReport
         DEF Win!hid_read_timeout, Win!ReadFile, Win!ReadAgain, Win!NoResult, Win!Error,
             Win!Data
    <3>2. CASE os' = Win!CancelIo(os)
      BY <3>1, <3>2 DEF WinOs, WinWrites, Win!CancelIo
    <3>3. CASE os'.writes = os.writes /\ os'.late = os.late
      BY <3>1, <3>3 DEF WinWrites
    <3> QED
      BY ZenonT(40), <1>5, <3>2, <3>3 DEF WinOs, Win!hid_read_timeout, Win!ReadFile, Win!ReadAgain
  <2>6. /\ (app.pc \in {"out", "open", "buffers", "caps"} => ~dev.read_pending)'
        /\ (os.io = "pending" => os.ring = <<>>)'
    <3>1. app'.pc \in {"idle", "wait"}
      BY <1>5 DEF Win!hid_read_timeout, Win!ReadFile, Win!ReadAgain
    <3>2. CASE os'.io = "pending"
      <4>1. \/ os' = os
            \/ os' = Win!CancelIo(os)
            \/ os.io = "none" /\ os' = [os EXCEPT !.ring = Tail(@)]
            \/ os.ring = <<>> /\ os' = [os EXCEPT !.io = "pending", !.ev = FALSE]
            \/ os' = [os EXCEPT !.io = "done", !.ev = TRUE,
                                !.got = Head(os.ring), !.ring = Tail(@)]
        BY <1>5 DEF Win!TypeOK, Win!hid_read_timeout, Win!ReadFile, Win!ReadAgain
      <4>2. \/ os' = os
            \/ os.ring = <<>> /\ os' = [os EXCEPT !.io = "pending", !.ev = FALSE]
        BY ZenonT(40), <3>2, <4>1 DEF WinOs, Win!CancelIo
      <4> QED
        BY <3>1, <4>2 DEF WinOs
    <3> QED
      BY <3>1, <3>2
  <2> QED
    BY <2>1, <2>2, <2>3, <2>4, <2>5, <2>6
<1>6. CASE Win!ReadTimesOut
  <2>1. HidOK'
    BY <1>6 DEF WinOs, Win!TypeOK, Win!ReadTimesOut, Win!Nothing
  <2>2. (os \in WinOs)'
    BY <1>6 DEF WinOs, Win!ReadTimesOut, Win!Nothing
  <2>3. Win!TypeOK'
    BY <1>6 DEF WinOs, Win!TypeOK, Win!ReadTimesOut, Win!Nothing
  <2>4. WinHeld'
    BY <1>6 DEF WinHeld, Win!ReadTimesOut, Win!Nothing
  <2>5. WinWrites'
    BY <1>6 DEF WinOs, WinWrites, Win!TypeOK, Win!ReadTimesOut, Win!Nothing
  <2>6. /\ (app.pc \in {"out", "open", "buffers", "caps"} => ~dev.read_pending)'
        /\ (os.io = "pending" => os.ring = <<>>)'
    BY <1>6 DEF Win!TypeOK, Win!ReadTimesOut, Win!Nothing
  <2> QED
    BY <2>1, <2>2, <2>3, <2>4, <2>5, <2>6
<1>7. CASE Win!ReadEnds
  <2>1. HidOK'
    BY <1>7 DEF WinOs, Win!TypeOK, Win!ReadEnds, Win!Data, Win!Error
  <2>2. (os \in WinOs)'
    BY <1>7 DEF WinOs, Win!ReadEnds, Win!Data, Win!Error
  <2>3. Win!TypeOK'
    BY <1>7 DEF WinOs, Win!TypeOK, Win!ReadEnds, Win!Data, Win!Error
  <2>4. WinHeld'
    BY <1>7 DEF WinHeld, Win!ReadEnds, Win!Data, Win!Error
  <2>5. WinWrites'
    BY <1>7 DEF WinOs, WinWrites, Win!TypeOK, Win!ReadEnds, Win!Data, Win!Error
  <2>6. /\ (app.pc \in {"out", "open", "buffers", "caps"} => ~dev.read_pending)'
        /\ (os.io = "pending" => os.ring = <<>>)'
    BY <1>7 DEF Win!TypeOK, Win!ReadEnds, Win!Data, Win!Error
  <2> QED
    BY <2>1, <2>2, <2>3, <2>4, <2>5, <2>6
<1>8. CASE Win!hid_write
  <2>1. HidOK'
    <3>1. os.count + 1 \in Nat
      BY DEF WinOs
    <3>2. last' \in Results
      BY <1>8, <3>1 DEF Win!hid_write, Win!Written, Win!Error, Win!NoResult
    <3>3. app' \in [pc : AppPcs, wait : Waits]
      BY <1>8 DEF Win!hid_write
    <3> QED
      BY <1>8, <3>2, <3>3 DEF Win!hid_write
  <2>2. (os \in WinOs)'
    <3>1. os.count + 1 \in 1..MaxWrites /\ os.count + 1 \in 0..MaxWrites
      BY SMTT(30), <1>8 DEF WinOs, Win!hid_write
    <3>2. Append(os.writes, os.count + 1) \in Seq(1..MaxWrites)
      BY <3>1 DEF WinOs
    <3>3. CASE os' = [os EXCEPT !.count = os.count + 1, !.writes = Append(@, os.count + 1),
                                !.write_ol = "pending", !.write_ev = FALSE]
      BY <1>8, <3>1, <3>2, <3>3 DEF WinOs
    <3>4. CASE os' = [os EXCEPT !.count = os.count + 1, !.done = @ \cup {os.count + 1},
                                !.write_ol = "done", !.write_ev = TRUE]
      BY <1>8, <3>1, <3>2, <3>4 DEF WinOs
    <3>5. CASE os' = [os EXCEPT !.count = os.count + 1, !.write_ol = "failed"]
      BY <1>8, <3>1, <3>2, <3>5 DEF WinOs
    <3> QED
      BY <1>8, <3>1, <3>2, <3>3, <3>4, <3>5 DEF Win!hid_write
  <2>3. Win!TypeOK'
    <3>1. os.count + 1 \in 1..MaxWrites /\ os.count + 1 \in 0..MaxWrites
      BY SMTT(30), <1>8 DEF WinOs, Win!hid_write
    <3>2. Append(os.writes, os.count + 1) \in Seq(1..MaxWrites)
      BY <3>1 DEF WinOs
    <3>3. CASE os' = [os EXCEPT !.count = os.count + 1, !.writes = Append(@, os.count + 1),
                                !.write_ol = "pending", !.write_ev = FALSE] /\ UNCHANGED <<dev, thr, lock, queue>>
      BY <1>8, <3>1, <3>2, <3>3 DEF WinOs, Win!TypeOK
    <3>4. CASE os' = [os EXCEPT !.count = os.count + 1, !.done = @ \cup {os.count + 1},
                                !.write_ol = "done", !.write_ev = TRUE] /\ UNCHANGED <<dev, thr, lock, queue>>
      BY <1>8, <3>1, <3>2, <3>4 DEF WinOs, Win!TypeOK
    <3>5. CASE os' = [os EXCEPT !.count = os.count + 1, !.write_ol = "failed"] /\ UNCHANGED <<dev, thr, lock, queue>>
      BY <1>8, <3>1, <3>2, <3>5 DEF WinOs, Win!TypeOK
    <3> QED
      BY <1>8, <3>1, <3>2, <3>3, <3>4, <3>5 DEF Win!hid_write
  <2>4. WinHeld'
    BY <1>8 DEF WinHeld, Win!hid_write, Win!Written, Win!Error, Win!NoResult
  <2>5. WinWrites'
    <3>1. app.pc = "idle" /\ os'.late = os.late /\ os'.count = os.count + 1
      BY ZenonT(40), <1>8 DEF WinOs, Win!hid_write
    <3>2. CASE os' = [os EXCEPT !.count = os.count + 1, !.writes = Append(@, os.count + 1),
                                !.write_ol = "pending", !.write_ev = FALSE]
               /\ Win!Goto("writing") /\ last' = Win!NoResult
      <4>1. os'.writes = Append(os.writes, os.count + 1) /\ os'.write_ol = "pending"
            /\ ~os'.write_ev /\ app'.pc = "writing" /\ last'.res = "none"
        BY <3>2 DEF WinOs, Win!NoResult
      <4>2. ~os.late => os.writes = <<>>
        BY <3>1 DEF WinWrites
      <4>3. ~os.late => os'.writes = <<os'.count>>
        BY <3>1, <4>1, <4>2, OneWrite
      <4> QED
        BY <3>1, <4>1, <4>3 DEF WinWrites
    <3>3. CASE os' = [os EXCEPT !.count = os.count + 1, !.done = @ \cup {os.count + 1},
                                !.write_ol = "done", !.write_ev = TRUE]
               /\ Win!Return(Win!Written(os.count + 1))
      <4>1. os'.writes = os.writes /\ os.count + 1 \in os'.done /\ app'.pc = "idle"
            /\ last'.report = os.count + 1
        BY <3>3 DEF WinOs, Win!Written
      <4> QED
        BY <3>1, <4>1 DEF WinWrites
    <3>4. CASE os' = [os EXCEPT !.count = os.count + 1, !.write_ol = "failed"]
               /\ Win!Return(Win!Error)
      <4>1. os'.writes = os.writes /\ app'.pc = "idle" /\ last'.res = "error"
        BY <3>4 DEF WinOs, Win!Error
      <4> QED
        BY <3>1, <4>1 DEF WinWrites
    <3> QED
      BY <1>8, <3>2, <3>3, <3>4 DEF Win!hid_write
  <2>6. /\ (app.pc \in {"out", "open", "buffers", "caps"} => ~dev.read_pending)'
        /\ (os.io = "pending" => os.ring = <<>>)'
    <3>1. os'.io = os.io /\ os'.ring = os.ring
      BY ZenonT(40), <1>8 DEF WinOs, Win!hid_write
    <3>2. app'.pc \in {"idle", "writing"}
      BY <1>8 DEF Win!hid_write
    <3> QED
      BY <3>1, <3>2
  <2> QED
    BY <2>1, <2>2, <2>3, <2>4, <2>5, <2>6
<1>9. CASE Win!WriteEnds
  <2>1. HidOK'
    BY <1>9 DEF WinOs, Win!TypeOK, Win!WriteEnds, Win!Written, Win!Error
  <2>2. (os \in WinOs)'
    BY <1>9 DEF WinOs, Win!WriteEnds, Win!Written, Win!Error
  <2>3. Win!TypeOK'
    BY <1>9 DEF WinOs, Win!TypeOK, Win!WriteEnds, Win!Written, Win!Error
  <2>4. WinHeld'
    BY <1>9 DEF WinHeld, Win!WriteEnds, Win!Written, Win!Error
  <2>5. WinWrites'
    BY <1>9 DEF WinOs, WinWrites, Win!TypeOK, Win!WriteEnds, Win!Written, Win!Error
  <2>6. /\ (app.pc \in {"out", "open", "buffers", "caps"} => ~dev.read_pending)'
        /\ (os.io = "pending" => os.ring = <<>>)'
    BY <1>9 DEF Win!TypeOK, Win!WriteEnds, Win!Written, Win!Error
  <2> QED
    BY <2>1, <2>2, <2>3, <2>4, <2>5, <2>6
<1>10. CASE Win!WriteTimesOut
  <2>1. HidOK'
    BY <1>10 DEF WinOs, Win!TypeOK, Win!WriteTimesOut, Win!Error
  <2>2. (os \in WinOs)'
    BY <1>10 DEF WinOs, Win!WriteTimesOut, Win!Error
  <2>3. Win!TypeOK'
    BY <1>10 DEF WinOs, Win!TypeOK, Win!WriteTimesOut, Win!Error
  <2>4. WinHeld'
    BY <1>10 DEF WinHeld, Win!WriteTimesOut, Win!Error
  <2>5. WinWrites'
    BY <1>10 DEF WinOs, WinWrites, Win!TypeOK, Win!WriteTimesOut, Win!Error
  <2>6. /\ (app.pc \in {"out", "open", "buffers", "caps"} => ~dev.read_pending)'
        /\ (os.io = "pending" => os.ring = <<>>)'
    BY <1>10 DEF Win!TypeOK, Win!WriteTimesOut, Win!Error
  <2> QED
    BY <2>1, <2>2, <2>3, <2>4, <2>5, <2>6
<1>11. CASE Win!SyncRequest
  <2>1. HidOK'
    BY <1>11 DEF WinOs, Win!TypeOK, Win!SyncRequest, Win!NoResult
  <2>2. (os \in WinOs)'
    BY <1>11 DEF WinOs, Win!SyncRequest, Win!NoResult
  <2>3. Win!TypeOK'
    BY <1>11 DEF WinOs, Win!TypeOK, Win!SyncRequest, Win!NoResult
  <2>4. WinHeld'
    BY <1>11 DEF WinHeld, Win!SyncRequest, Win!NoResult
  <2>5. WinWrites'
    BY <1>11 DEF WinOs, WinWrites, Win!TypeOK, Win!SyncRequest, Win!NoResult
  <2>6. /\ (app.pc \in {"out", "open", "buffers", "caps"} => ~dev.read_pending)'
        /\ (os.io = "pending" => os.ring = <<>>)'
    BY <1>11 DEF Win!TypeOK, Win!SyncRequest, Win!NoResult
  <2> QED
    BY <2>1, <2>2, <2>3, <2>4, <2>5, <2>6
<1>12. CASE Win!SyncRequestEnds
  <2>1. HidOK'
    BY <1>12 DEF WinOs, Win!TypeOK, Win!SyncRequestEnds
  <2>2. (os \in WinOs)'
    BY <1>12 DEF WinOs, Win!SyncRequestEnds
  <2>3. Win!TypeOK'
    BY <1>12 DEF WinOs, Win!TypeOK, Win!SyncRequestEnds
  <2>4. WinHeld'
    BY <1>12 DEF WinHeld, Win!SyncRequestEnds
  <2>5. WinWrites'
    BY <1>12 DEF WinOs, WinWrites, Win!TypeOK, Win!SyncRequestEnds
  <2>6. /\ (app.pc \in {"out", "open", "buffers", "caps"} => ~dev.read_pending)'
        /\ (os.io = "pending" => os.ring = <<>>)'
    BY <1>12 DEF Win!TypeOK, Win!SyncRequestEnds
  <2> QED
    BY <2>1, <2>2, <2>3, <2>4, <2>5, <2>6
<1>13. CASE Win!hid_close
  <2>1. HidOK'
    BY <1>13 DEF WinOs, Win!TypeOK, Win!hid_close, Win!NoResult
  <2>2. (os \in WinOs)'
    BY <1>13, NoReports DEF WinOs, Win!hid_close, Win!NoResult
  <2>3. Win!TypeOK'
    BY <1>13, NoReports DEF WinOs, Win!TypeOK, Win!hid_close, Win!NoResult
  <2>4. WinHeld'
    BY <1>13 DEF WinHeld, Win!hid_close, Win!NoResult
  <2>5. WinWrites'
    BY <1>13 DEF WinOs, WinWrites, Win!TypeOK, Win!hid_close, Win!NoResult
  <2>6. /\ (app.pc \in {"out", "open", "buffers", "caps"} => ~dev.read_pending)'
        /\ (os.io = "pending" => os.ring = <<>>)'
    BY <1>13 DEF Win!TypeOK, Win!hid_close, Win!NoResult
  <2> QED
    BY <2>1, <2>2, <2>3, <2>4, <2>5, <2>6
<1>14. CASE Win!ReportArrives
  <2>1. HidOK'
    BY <1>14, NextReport DEF WinOs, Win!TypeOK, Win!ReportArrives
  <2>2. (os \in WinOs)'
    <3>1. sent + 1 \in Reports /\ sent + 1 \in Nat
      BY <1>14, NextReport DEF WinOs, Win!ReportArrives
    <3>2. CASE os' = os
      BY <3>2
    <3>3. CASE os' = [os EXCEPT !.io = "done", !.ev = TRUE, !.got = sent + 1]
      BY <3>1, <3>3 DEF WinOs
    <3>4. CASE os' = [os EXCEPT !.ring = Append(@, sent + 1)]
      <4>1. Append(os.ring, sent + 1) \in Seq(Reports)
        BY <3>1 DEF WinOs
      <4> QED
        BY <3>4, <4>1 DEF WinOs
    <3>5. CASE os.ring # <<>> /\ os' = [os EXCEPT !.ring = Append(Tail(@), sent + 1)]
      <4>1. Append(Tail(os.ring), sent + 1) \in Seq(Reports)
        BY <3>1, <3>5, TakeReport DEF WinOs
      <4> QED
        BY <3>5, <4>1 DEF WinOs
    <3>6. ~(Len(os.ring) < RingSize) => os.ring # <<>>
      OBVIOUS
    <3> QED
      BY <1>14, <3>2, <3>3, <3>4, <3>5, <3>6 DEF Win!ReportArrives
  <2>3. Win!TypeOK'
    <3>1. sent + 1 \in Reports
      BY <1>14, NextReport DEF WinOs, Win!ReportArrives
    <3>2. CASE "handle" \notin held
      BY <1>14, <3>2 DEF Win!TypeOK, Win!ReportArrives
    <3>3. CASE "handle" \in held /\ os.io = "pending"
      <4>1. os' = [os EXCEPT !.io = "done", !.ev = TRUE, !.got = sent + 1]
        BY <1>14, <3>3 DEF Win!ReportArrives
      <4> QED
        BY <1>14, <3>3, <4>1 DEF WinOs, Win!TypeOK, Win!ReportArrives
    <3>4. CASE "handle" \in held /\ os.io # "pending"
      <4>1. PICK q \in Seq(Reports) : os' = [os EXCEPT !.ring = q] /\ Len(q) <= RingSize
        <5>1. os.ring \in Seq(Reports) /\ Len(os.ring) <= RingSize
          BY DEF WinOs, Win!TypeOK
        <5>2. CASE Len(os.ring) < RingSize
          <6>1. os' = [os EXCEPT !.ring = Append(os.ring, sent + 1)]
            BY <1>14, <3>4, <5>2 DEF Win!ReportArrives
          <6> QED
            BY <3>1, <5>1, <5>2, <6>1, RingAppend, BackendsAssumption
        <5>3. CASE ~(Len(os.ring) < RingSize)
          <6>1. os' = [os EXCEPT !.ring = Append(Tail(os.ring), sent + 1)]
            BY <1>14, <3>4, <5>3 DEF Win!ReportArrives
          <6>2. Len(os.ring) = RingSize /\ RingSize \in Nat \ {0}
            BY <5>1, <5>3, BackendsAssumption
          <6>3. os.ring # <<>>
            BY <6>2
          <6>4. /\ Tail(os.ring) \in Seq(Reports)
                /\ Len(Tail(os.ring)) = Len(os.ring) - 1
            BY <5>1, <6>3, TakeReport
          <6>5. /\ Append(Tail(os.ring), sent + 1) \in Seq(Reports)
                /\ Len(Append(Tail(os.ring), sent + 1)) <= RingSize
            BY <3>1, <6>2, <6>4, RingAppend
          <6> QED
            BY <6>1, <6>5
        <5> QED
          BY <5>2, <5>3
      <4> QED
        BY <1>14, <4>1 DEF WinOs, Win!TypeOK, Win!ReportArrives
    <3> QED
      BY <3>2, <3>3, <3>4
  <2>4. WinHeld'
    BY <1>14 DEF WinHeld, Win!ReportArrives
  <2>5. WinWrites'
    BY <1>14 DEF WinOs, WinWrites, Win!TypeOK, Win!ReportArrives
  <2>6. /\ (app.pc \in {"out", "open", "buffers", "caps"} => ~dev.read_pending)'
        /\ (os.io = "pending" => os.ring = <<>>)'
    BY <1>14 DEF Win!TypeOK, Win!ReportArrives
  <2> QED
    BY <2>1, <2>2, <2>3, <2>4, <2>5, <2>6
<1>15. CASE Win!ReadFails
  <2>1. HidOK'
    BY <1>15 DEF WinOs, Win!TypeOK, Win!ReadFails
  <2>2. (os \in WinOs)'
    BY <1>15 DEF WinOs, Win!ReadFails
  <2>3. Win!TypeOK'
    BY <1>15 DEF WinOs, Win!TypeOK, Win!ReadFails
  <2>4. WinHeld'
    BY <1>15 DEF WinHeld, Win!ReadFails
  <2>5. WinWrites'
    BY <1>15 DEF WinOs, WinWrites, Win!TypeOK, Win!ReadFails
  <2>6. /\ (app.pc \in {"out", "open", "buffers", "caps"} => ~dev.read_pending)'
        /\ (os.io = "pending" => os.ring = <<>>)'
    BY <1>15 DEF Win!TypeOK, Win!ReadFails
  <2> QED
    BY <2>1, <2>2, <2>3, <2>4, <2>5, <2>6
<1>16. CASE Win!WriteCompletes
  <2>1. HidOK'
    BY <1>16 DEF WinOs, Win!TypeOK, Win!WriteCompletes
  <2>2. (os \in WinOs)'
    <3>1. Head(os.writes) \in 1..MaxWrites /\ Tail(os.writes) \in Seq(1..MaxWrites)
      BY <1>16, WriteTail DEF WinOs, Win!WriteCompletes
    <3>2. CASE os' = [os EXCEPT !.writes = Tail(@), !.done = @ \cup {Head(os.writes)},
                                !.write_ol = "done", !.write_ev = TRUE]
      BY <1>16, <3>1, <3>2 DEF WinOs
    <3>3. CASE os' = [os EXCEPT !.writes = Tail(@), !.write_ol = "failed", !.write_ev = TRUE]
      BY <1>16, <3>1, <3>3 DEF WinOs
    <3> QED
      BY <1>16, <3>1, <3>2, <3>3 DEF Win!WriteCompletes
  <2>3. Win!TypeOK'
    <3>1. Head(os.writes) \in 1..MaxWrites /\ Tail(os.writes) \in Seq(1..MaxWrites)
      BY <1>16, WriteTail DEF WinOs, Win!WriteCompletes
    <3>2. CASE os' = [os EXCEPT !.writes = Tail(@), !.done = @ \cup {Head(os.writes)},
                                !.write_ol = "done", !.write_ev = TRUE] /\ UNCHANGED <<dev, thr, lock, queue>>
      BY <1>16, <3>1, <3>2 DEF WinOs, Win!TypeOK
    <3>3. CASE os' = [os EXCEPT !.writes = Tail(@), !.write_ol = "failed", !.write_ev = TRUE] /\ UNCHANGED <<dev, thr, lock, queue>>
      BY <1>16, <3>1, <3>3 DEF WinOs, Win!TypeOK
    <3> QED
      BY <1>16, <3>1, <3>2, <3>3 DEF Win!WriteCompletes
  <2>4. WinHeld'
    BY <1>16 DEF WinHeld, Win!WriteCompletes
  <2>5. WinWrites'
    <3>1. last' = last /\ app' = app /\ os.writes # <<>> /\ os'.late = os.late
          /\ os'.count = os.count
      BY <1>16 DEF WinOs, Win!WriteCompletes
    <3>2. os.done \subseteq os'.done
      <4>1. os'.done = os.done \/ os'.done = os.done \cup {Head(os.writes)}
        BY ZenonT(40), <1>16 DEF WinOs, Win!WriteCompletes
      <4> QED
        BY <4>1
    <3>3. CASE os.late
      BY <3>1, <3>3 DEF WinWrites
    <3>4. CASE ~os.late
      <4>1. app.pc = "writing" /\ os.writes = <<os.count>>
        BY <3>1, <3>4 DEF WinWrites
      <4>2. Head(os.writes) = os.count /\ Tail(os.writes) = <<>>
        BY <4>1
      <4>3. os'.writes = <<>> /\ (os'.write_ol = "done" => os.count \in os'.done)
        <5>1. /\ os'.writes = Tail(os.writes)
              /\ \/ os'.write_ol = "failed"
                 \/ os'.done = os.done \cup {Head(os.writes)}
          BY <1>16 DEF WinOs, Win!WriteCompletes
        <5> QED
          BY <4>2, <5>1
      <4> QED
        BY <3>1, <3>2, <3>4, <4>1, <4>3 DEF WinWrites
    <3> QED
      BY <3>3, <3>4
  <2>6. /\ (app.pc \in {"out", "open", "buffers", "caps"} => ~dev.read_pending)'
        /\ (os.io = "pending" => os.ring = <<>>)'
    <3>1. os'.io = os.io /\ os'.ring = os.ring
      BY ZenonT(40), <1>16 DEF WinOs, Win!WriteCompletes
    <3> QED
      BY <1>16, <3>1 DEF Win!WriteCompletes
  <2> QED
    BY <2>1, <2>2, <2>3, <2>4, <2>5, <2>6
<1>17. CASE Win!Unplug
  <2>1. HidOK'
    BY <1>17 DEF WinOs, Win!TypeOK, Win!Unplug
  <2>2. (os \in WinOs)'
    BY <1>17 DEF WinOs, Win!Unplug
  <2>3. Win!TypeOK'
    BY <1>17 DEF WinOs, Win!TypeOK, Win!Unplug
  <2>4. WinHeld'
    BY <1>17 DEF WinHeld, Win!Unplug
  <2>5. WinWrites'
    BY <1>17 DEF WinOs, WinWrites, Win!TypeOK, Win!Unplug
  <2>6. /\ (app.pc \in {"out", "open", "buffers", "caps"} => ~dev.read_pending)'
        /\ (os.io = "pending" => os.ring = <<>>)'
    BY <1>17 DEF Win!TypeOK, Win!Unplug
  <2> QED
    BY <2>1, <2>2, <2>3, <2>4, <2>5, <2>6
<1> QED
  BY <1>1, <1>2, <1>3, <1>4, <1>5, <1>6, <1>7, <1>8, <1>9, <1>10, <1>11, <1>12, <1>13,
     <1>14, <1>15, <1>16, <1>17
     DEF Win!Next, Win!Application, Win!Opening, Win!Reading, Win!Usb

-----------------------------------------------------------------------------
(* NetBSD: the steps.                                                      *)

LEMMA Least == ASSUME NEW T \in SUBSET Nat, T # {} PROVE \E x \in T : \A y \in T : x <= y
PROOF
<1>1. PICK x \in T : \A y \in T : <<y, x>> \notin OpToRel(<, Nat)
  BY WFMin, NatLessThanWellFounded
<1>2. SUFFICES ASSUME NEW y \in T PROVE x <= y
  OBVIOUS
<1>3. x \in Nat /\ y \in Nat
  OBVIOUS
<1>4. ~(y < x)
  BY <1>1, <1>3 DEF OpToRel
<1> QED
  BY <1>3, <1>4

LEMMA LeastReady == Netbsd!Ready # {} => Netbsd!FirstReady \in Netbsd!Ready
PROOF
<1> SUFFICES ASSUME Netbsd!Ready # {} PROVE Netbsd!FirstReady \in Netbsd!Ready
  OBVIOUS
<1>1. Netbsd!Ready \in SUBSET Nat
  BY DEF Netbsd!Ready
<1>2. \E c \in Netbsd!Ready : \A d \in Netbsd!Ready : c <= d
  BY <1>1, Least
<1> QED
  BY <1>2 DEF Netbsd!FirstReady

\* err_3 and hid_close leave no report behind.
LEMMA NetbsdClosed ==
  ASSUME Netbsd!TypeOK
  PROVE  /\ Netbsd!CloseHandles \in [ring : [1..Children -> Seq(Reports)],
                                     uhid : SUBSET (1..Children)]
         /\ \A c \in 1..Children : Len(Netbsd!CloseHandles.ring[c]) = 0
         /\ Netbsd!CloseHandles.uhid = os.uhid \ (1..dev.poll_handles_length)
PROOF
<1>1. os.uhid \in SUBSET (1..Children)
  BY DEF Netbsd!TypeOK
<1> QED
  BY <1>1, NoReports DEF Netbsd!CloseHandles, Netbsd!IdleNetbsd

LEMMA NetbsdInit == HidOK /\ Netbsd!Init => NetbsdInv
BY NoReports, BackendsAssumption
   DEF Netbsd!Init, Netbsd!NewDevice, Netbsd!IdleNetbsd, NetbsdInv, Netbsd!TypeOK,
       NetbsdHeld, Closed, At, Netbsd!Reports, Reports

LEMMA NetbsdStep == ASSUME HidOK, NetbsdInv, Netbsd!Next PROVE HidOK' /\ NetbsdInv'
PROOF
<1> USE HidApiAssumption, BackendsAssumption
    DEF HidOK, NetbsdInv, AppPcs, Waits, Results, Reports, At, Closed, Netbsd!NewDevice,
        Netbsd!IdleNetbsd, Netbsd!At, Netbsd!Goto, Netbsd!Closed, Netbsd!Return, Netbsd!Idle,
        Netbsd!deviceVars, Netbsd!unused, Netbsd!Reports, Netbsd!Waits
<1>1. CASE Netbsd!hid_open_path
  <2>1. HidOK'
    BY <1>1 DEF Netbsd!TypeOK, Netbsd!hid_open_path
  <2>2. Netbsd!TypeOK'
    BY <1>1 DEF Netbsd!TypeOK, Netbsd!hid_open_path
  <2>3. NetbsdHeld'
    BY <1>1 DEF Netbsd!TypeOK, NetbsdHeld, Netbsd!hid_open_path
  <2> QED
    BY <2>1, <2>2, <2>3
<1>2. CASE Netbsd!OpenChild
  <2>1. HidOK'
    BY <1>2 DEF Netbsd!TypeOK, Netbsd!OpenChild
  <2>2. Netbsd!TypeOK'
    <3>1. thr' = thr /\ lock' = lock /\ queue' = queue
      BY <1>2 DEF Netbsd!OpenChild
    <3>2. CASE os' = Netbsd!CloseHandles /\ dev' = dev
      BY <3>1, <3>2, NetbsdClosed DEF Netbsd!TypeOK
    <3>3. CASE /\ os' = [os EXCEPT !.uhid = @ \cup {dev.poll_handles_length + 1}]
               /\ dev' = [dev EXCEPT !.poll_handles_length = dev.poll_handles_length + 1]
      <4>1. dev.poll_handles_length + 1 \in 1..Children
            /\ dev.poll_handles_length + 1 \in 0..Children
        BY <1>2 DEF Netbsd!TypeOK, Netbsd!OpenChild
      <4> QED
        BY <3>1, <3>3, <4>1 DEF Netbsd!TypeOK
    <3> QED
      BY <1>2, <3>2, <3>3 DEF Netbsd!OpenChild
  <2>3. NetbsdHeld'
    <3>1. os.uhid = 1..dev.poll_handles_length /\ dev.poll_handles_length \in Nat
      BY <1>2 DEF NetbsdHeld, Netbsd!OpenChild, Netbsd!TypeOK
    <3>2. CASE os' = Netbsd!CloseHandles /\ held' = held \ {"drvctl", "dev"}
               /\ Netbsd!Goto("out")
      BY <3>1, <3>2, NetbsdClosed DEF NetbsdHeld
    <3>3. CASE /\ os' = [os EXCEPT !.uhid = @ \cup {dev.poll_handles_length + 1}]
               /\ dev' = [dev EXCEPT !.poll_handles_length = dev.poll_handles_length + 1]
               /\ UNCHANGED <<app, held>>
      <4>1. os'.uhid = 1..dev'.poll_handles_length
        BY <3>1, <3>3 DEF Netbsd!TypeOK
      <4> QED
        BY <1>2, <3>3, <4>1 DEF NetbsdHeld, Netbsd!OpenChild
    <3> QED
      BY <1>2, <3>2, <3>3 DEF Netbsd!OpenChild
  <2> QED
    BY <2>1, <2>2, <2>3
<1>3. CASE Netbsd!Opened
  <2>1. HidOK'
    BY <1>3 DEF Netbsd!TypeOK, Netbsd!Opened
  <2>2. Netbsd!TypeOK'
    BY <1>3 DEF Netbsd!TypeOK, Netbsd!Opened
  <2>3. NetbsdHeld'
    BY <1>3 DEF Netbsd!TypeOK, NetbsdHeld, Netbsd!Opened
  <2> QED
    BY <2>1, <2>2, <2>3
<1>4. CASE Netbsd!hid_set_nonblocking
  <2>1. HidOK'
    BY <1>4 DEF Netbsd!TypeOK, Netbsd!hid_set_nonblocking, Netbsd!NoResult
  <2>2. Netbsd!TypeOK'
    BY <1>4 DEF Netbsd!TypeOK, Netbsd!hid_set_nonblocking, Netbsd!NoResult
  <2>3. NetbsdHeld'
    BY <1>4 DEF Netbsd!TypeOK, NetbsdHeld, Netbsd!hid_set_nonblocking, Netbsd!NoResult
  <2> QED
    BY <2>1, <2>2, <2>3
<1>5. CASE Netbsd!hid_read
  <2>1. HidOK'
    BY <1>5 DEF Netbsd!TypeOK, Netbsd!hid_read, Netbsd!NoResult
  <2>2. Netbsd!TypeOK'
    BY <1>5 DEF Netbsd!TypeOK, Netbsd!hid_read, Netbsd!NoResult
  <2>3. NetbsdHeld'
    BY <1>5 DEF Netbsd!TypeOK, NetbsdHeld, Netbsd!hid_read, Netbsd!NoResult
  <2> QED
    BY <2>1, <2>2, <2>3
<1>6. CASE Netbsd!hid_read_timeout
  <2>1. HidOK'
    BY <1>6 DEF Netbsd!TypeOK, Netbsd!hid_read_timeout, Netbsd!NoResult
  <2>2. Netbsd!TypeOK'
    BY <1>6 DEF Netbsd!TypeOK, Netbsd!hid_read_timeout, Netbsd!NoResult
  <2>3. NetbsdHeld'
    BY <1>6 DEF Netbsd!TypeOK, NetbsdHeld, Netbsd!hid_read_timeout, Netbsd!NoResult
  <2> QED
    BY <2>1, <2>2, <2>3
<1>7. CASE Netbsd!ReadReturns
  <2>1. HidOK'
    <3>1. CASE Netbsd!Return(Netbsd!Error)
      BY <1>7, <3>1 DEF Netbsd!ReadReturns, Netbsd!Error
    <3>2. CASE Netbsd!Ready # {} /\ Netbsd!Return(Netbsd!Data(Head(os.ring[Netbsd!FirstReady])))
      <4>1. Netbsd!FirstReady \in 1..Children /\ os.ring[Netbsd!FirstReady] # <<>>
        BY <3>2, LeastReady DEF Netbsd!Ready
      <4>2. os.ring[Netbsd!FirstReady] \in Seq(Reports)
        BY <4>1 DEF Netbsd!TypeOK
      <4>3. Head(os.ring[Netbsd!FirstReady]) \in Nat
        BY <4>1, <4>2, TakeReport
      <4> QED
        BY <1>7, <3>2, <4>3 DEF Netbsd!ReadReturns, Netbsd!Data
    <3> QED
      BY <1>7, <3>1, <3>2 DEF Netbsd!ReadReturns
  <2>2. Netbsd!TypeOK'
    <3>1. thr' = thr /\ lock' = lock /\ queue' = queue /\ dev' = dev
      BY <1>7 DEF Netbsd!ReadReturns
    <3>2. CASE os' = os
      BY <3>1, <3>2 DEF Netbsd!TypeOK
    <3>3. CASE Netbsd!Ready # {} /\ os' = [os EXCEPT !.ring[Netbsd!FirstReady] = Tail(@)]
      <4>1. Netbsd!FirstReady \in 1..Children /\ os.ring[Netbsd!FirstReady] # <<>>
        BY <3>3, LeastReady DEF Netbsd!Ready
      <4>2. os.ring[Netbsd!FirstReady] \in Seq(Reports)
            /\ Len(os.ring[Netbsd!FirstReady]) <= RingSize
        BY <4>1 DEF Netbsd!TypeOK
      <4>3. Tail(os.ring[Netbsd!FirstReady]) \in Seq(Reports)
            /\ Len(Tail(os.ring[Netbsd!FirstReady])) <= RingSize
        BY <4>1, <4>2, RingTail
      <4> HIDE DEF Netbsd!FirstReady
      <4> QED
        BY <3>1, <3>3, <4>1, <4>3 DEF Netbsd!TypeOK
    <3> QED
      BY <1>7, <3>2, <3>3 DEF Netbsd!ReadReturns
  <2>3. NetbsdHeld'
    BY <1>7 DEF Netbsd!TypeOK, NetbsdHeld, Netbsd!ReadReturns, Netbsd!Error, Netbsd!Data
  <2> QED
    BY <2>1, <2>2, <2>3
<1>8. CASE Netbsd!Interrupted
  <2>1. HidOK'
    BY <1>8 DEF Netbsd!TypeOK, Netbsd!Interrupted, Netbsd!Error, Netbsd!Nothing
  <2>2. Netbsd!TypeOK'
    BY <1>8 DEF Netbsd!TypeOK, Netbsd!Interrupted, Netbsd!Error, Netbsd!Nothing
  <2>3. NetbsdHeld'
    BY <1>8 DEF Netbsd!TypeOK, NetbsdHeld, Netbsd!Interrupted, Netbsd!Error, Netbsd!Nothing
  <2> QED
    BY <2>1, <2>2, <2>3
<1>9. CASE Netbsd!PollTimesOut
  <2>1. HidOK'
    BY <1>9 DEF Netbsd!TypeOK, Netbsd!PollTimesOut, Netbsd!Nothing
  <2>2. Netbsd!TypeOK'
    BY <1>9 DEF Netbsd!TypeOK, Netbsd!PollTimesOut, Netbsd!Nothing
  <2>3. NetbsdHeld'
    BY <1>9 DEF Netbsd!TypeOK, NetbsdHeld, Netbsd!PollTimesOut, Netbsd!Nothing
  <2> QED
    BY <2>1, <2>2, <2>3
<1>10. CASE Netbsd!SyncRequest
  <2>1. HidOK'
    BY <1>10 DEF Netbsd!TypeOK, Netbsd!SyncRequest, Netbsd!NoResult
  <2>2. Netbsd!TypeOK'
    BY <1>10 DEF Netbsd!TypeOK, Netbsd!SyncRequest, Netbsd!NoResult
  <2>3. NetbsdHeld'
    BY <1>10 DEF Netbsd!TypeOK, NetbsdHeld, Netbsd!SyncRequest, Netbsd!NoResult
  <2> QED
    BY <2>1, <2>2, <2>3
<1>11. CASE Netbsd!SyncRequestEnds
  <2>1. HidOK'
    BY <1>11 DEF Netbsd!TypeOK, Netbsd!SyncRequestEnds
  <2>2. Netbsd!TypeOK'
    BY <1>11 DEF Netbsd!TypeOK, Netbsd!SyncRequestEnds
  <2>3. NetbsdHeld'
    BY <1>11 DEF Netbsd!TypeOK, NetbsdHeld, Netbsd!SyncRequestEnds
  <2> QED
    BY <2>1, <2>2, <2>3
<1>12. CASE Netbsd!hid_close
  <2>1. HidOK'
    BY <1>12 DEF Netbsd!TypeOK, Netbsd!hid_close, Netbsd!NoResult
  <2>2. Netbsd!TypeOK'
    BY <1>12, NetbsdClosed DEF Netbsd!TypeOK, Netbsd!hid_close, Netbsd!NoResult
  <2>3. NetbsdHeld'
    BY <1>12, NetbsdClosed
       DEF Netbsd!TypeOK, NetbsdHeld, Netbsd!hid_close, Netbsd!NoResult
  <2> QED
    BY <2>1, <2>2, <2>3
<1>13. ASSUME NEW c \in 1..Children, Netbsd!ReportArrives(c)
      PROVE  HidOK' /\ NetbsdInv'
  <2>1. HidOK'
    BY <1>13, NextReport DEF Netbsd!TypeOK, Netbsd!ReportArrives
  <2>2. Netbsd!TypeOK'
    <3>1. thr' = thr /\ lock' = lock /\ queue' = queue /\ dev' = dev
      BY <1>13 DEF Netbsd!ReportArrives
    <3>2. CASE os' = os
      BY <3>1, <3>2 DEF Netbsd!TypeOK
    <3>3. CASE Len(os.ring[c]) < RingSize /\ os' = [os EXCEPT !.ring[c] = Append(@, sent + 1)]
      <4>1. sent + 1 \in Reports /\ os.ring[c] \in Seq(Reports)
        BY <1>13, NextReport, NoReports DEF Netbsd!ReportArrives, Netbsd!TypeOK
      <4>2. Append(os.ring[c], sent + 1) \in Seq(Reports)
            /\ Len(Append(os.ring[c], sent + 1)) <= RingSize
        BY <3>3, <4>1, RingAppend
      <4> QED
        BY <3>1, <3>3, <4>2 DEF Netbsd!TypeOK
    <3> QED
      BY <1>13, <3>2, <3>3 DEF Netbsd!ReportArrives
  <2>3. NetbsdHeld'
    BY <1>13 DEF Netbsd!TypeOK, NetbsdHeld, Netbsd!ReportArrives
  <2> QED
    BY <2>1, <2>2, <2>3
<1>14. CASE Netbsd!Unplug
  <2>1. HidOK'
    BY <1>14 DEF Netbsd!TypeOK, Netbsd!Unplug
  <2>2. Netbsd!TypeOK'
    BY <1>14 DEF Netbsd!TypeOK, Netbsd!Unplug
  <2>3. NetbsdHeld'
    BY <1>14 DEF Netbsd!TypeOK, NetbsdHeld, Netbsd!Unplug
  <2> QED
    BY <2>1, <2>2, <2>3
<1> QED
  BY <1>1, <1>2, <1>3, <1>4, <1>5, <1>6, <1>7, <1>8, <1>9, <1>10, <1>11, <1>12, <1>13,
     <1>14 DEF Netbsd!Next, Netbsd!Application, Netbsd!Opening, Netbsd!Reading

-----------------------------------------------------------------------------
(* The five backends together.                                             *)

LEMMA BackendInit == Init => BackendInv
PROOF
<1> SUFFICES ASSUME Init PROVE BackendInv
  OBVIOUS
<1>1. backend \in Backends
  BY DEF Init
<1>2. CASE backend = "libusb"
  <2>1. Libusb!Init
    BY <1>2 DEF Init
  <2>2. HidOK
    BY <2>1, HidApiAssumption
       DEF Libusb!Init, Libusb!NoResult, HidOK, AppPcs, Waits, Results
  <2> QED
    BY <1>1, <1>2, <2>1, <2>2, UsbInit DEF BackendInv
<1>3. CASE backend = "mac"
  <2>1. Mac!Init
    BY <1>3 DEF Init
  <2>2. HidOK
    BY <2>1, HidApiAssumption DEF Mac!Init, Mac!NoResult, HidOK, AppPcs, Waits, Results
  <2> QED
    BY <1>1, <1>3, <2>1, <2>2, MacInit DEF BackendInv
<1>4. CASE backend = "windows"
  <2>1. Win!Init
    BY <1>4 DEF Init
  <2>2. HidOK
    BY <2>1, HidApiAssumption DEF Win!Init, Win!NoResult, HidOK, AppPcs, Waits, Results
  <2> QED
    BY <1>1, <1>4, <2>1, <2>2, WinInit DEF BackendInv
<1>5. CASE backend = "linux"
  <2>1. Linux!Init
    BY <1>5 DEF Init
  <2>2. HidOK
    BY <2>1, HidApiAssumption
       DEF Linux!Init, Linux!NoResult, HidOK, AppPcs, Waits, Results
  <2> QED
    BY <1>1, <1>5, <2>1, <2>2, LinuxInit DEF BackendInv
<1>6. CASE backend = "netbsd"
  <2>1. Netbsd!Init
    BY <1>6 DEF Init
  <2>2. HidOK
    BY <2>1, HidApiAssumption
       DEF Netbsd!Init, Netbsd!NoResult, HidOK, AppPcs, Waits, Results
  <2> QED
    BY <1>1, <1>6, <2>1, <2>2, NetbsdInit DEF BackendInv
<1> QED
  BY <1>1, <1>2, <1>3, <1>4, <1>5, <1>6, BackendsAssumption

\* What happens while devices are listed does not touch the session.
LEMMA BackendKeep ==
  ASSUME BackendInv, UNCHANGED <<backend, hidVars>>
  PROVE  BackendInv'
PROOF
<1> USE DEF hidVars
<1>1. HidOK' /\ (backend \in Backends)'
  BY DEF BackendInv, HidOK
<1>2. UsbInv' = UsbInv
  BY DEF UsbInv, Libusb!TypeOK, UsbBarrier, UsbTransfer, UsbDriver, UsbHeld, Closed, At
<1>3. MacInv' = MacInv
  BY DEF MacInv, Mac!TypeOK, MacBarriers, MacHeld, Closed, At
<1>4. WinInv' = WinInv
  BY DEF WinInv, Win!TypeOK, WinHeld, WinWrites
<1>5. LinuxInv' = LinuxInv
  BY DEF LinuxInv, Linux!TypeOK, LinuxHeld, Closed, At
<1>6. NetbsdInv' = NetbsdInv
  BY DEF NetbsdInv, Netbsd!TypeOK, NetbsdHeld, Closed, At
<1> QED
  BY <1>1, <1>2, <1>3, <1>4, <1>5, <1>6 DEF BackendInv

\* What a step does to the session: nothing, while devices are listed, or, as
\* opening a device from the list or by a path does, a step of the backend.
SessionStep ==
  \/ UNCHANGED hidVars
  \/ backend = "libusb" /\ Libusb!Next
  \/ backend = "mac" /\ Mac!Next
  \/ backend = "windows" /\ Win!Next
  \/ backend = "linux" /\ Linux!Next
  \/ backend = "netbsd" /\ Netbsd!Next

LEMMA EveryStep ==
  ASSUME backend \in Backends, [Next]_vars
  PROVE  backend' = backend /\ SessionStep
PROOF
<1>1. CASE UNCHANGED vars
  BY <1>1 DEF vars, SessionStep
<1>2. CASE Enumeration
  BY <1>2
     DEF Enumeration, Enum!Next, Enum!hid_enumerate, Enum!ListSize, Enum!ListFails, Enum!Snapshot,
         Enum!Look, Enum!DescribeInterface, Enum!Describe, Enum!SecondWalk, Enum!ListComplete,
         Enum!hid_free_enumeration, Enum!BusChanges, SessionStep
<1>3. CASE OpenFromList
  <2>1. backend' = backend
    BY <1>3 DEF OpenFromList, Enum!OpenPicked
  <2>2. backend \in {"libusb", "mac", "windows", "linux", "netbsd"}
    BY BackendsAssumption
  <2>3. SessionStep
    BY <1>3, <2>2
       DEF OpenFromList, Libusb!Next, Libusb!Application, Mac!Next, Mac!Application,
           Win!Next, Win!Application, Linux!Next, Linux!Application, Netbsd!Next,
           Netbsd!Application, SessionStep
  <2> QED
    BY <2>1, <2>3
<1>4. CASE Session
  BY <1>4 DEF Session, Outside, SessionStep
<1> QED
  BY <1>1, <1>2, <1>3, <1>4 DEF Next

LEMMA BackendStep == BackendInv /\ [Next]_vars => BackendInv'
PROOF
<1> SUFFICES ASSUME BackendInv, [Next]_vars PROVE BackendInv'
  OBVIOUS
<1>1. backend' = backend /\ SessionStep
  BY EveryStep DEF BackendInv
<1>2. CASE UNCHANGED hidVars
  BY <1>1, <1>2, BackendKeep
<1>3. CASE ~UNCHANGED hidVars
  BY <1>1, <1>3, UsbStep, MacStep, WinStep, LinuxStep, NetbsdStep DEF BackendInv, SessionStep
<1> QED
  BY <1>2, <1>3

\* BackendInv holds of every behaviour of the five backends.
LEMMA BackendTheorem == Spec => []BackendInv
PROOF
<1>1. Init => BackendInv
  BY BackendInit
<1>2. BackendInv /\ [Next]_vars => BackendInv'
  BY BackendStep
<1> QED
  BY <1>1, <1>2, PTL DEF Spec

\* Every backend keeps the types of its records, the list of input reports its
\* limit, and the driver's rings theirs.
THEOREM TypeCorrect == Spec => []TypeOK
PROOF
<1>1. BackendInv => TypeOK
  BY BackendsAssumption
     DEF BackendInv, HidOK, TypeOK, UsbInv, MacInv, WinInv, LinuxInv, NetbsdInv
<1> QED
  BY <1>1, BackendTheorem, PTL

\* Whatever fails while a device is opened, read, unplugged or closed, a session
\* that is over leaves nothing behind, but for the three leaks NothingLeft names
\* (hid_close, the error paths of hid_open_path, hid_libusb_wrap_sys_device).
THEOREM NothingLeftTheorem == Spec => []NothingLeft
PROOF
<1>1. ASSUME BackendInv, Closed
      PROVE  /\ thr = "none" /\ queue = <<>>
             /\ held \subseteq (IF backend = "netbsd" THEN {"drvctl_left_open"}
                                ELSE IF backend = "mac" /\ ~os.modern THEN {"opened"}
                                ELSE IF backend = "libusb" THEN {"config_never_freed"} ELSE {})
             /\ backend = "libusb" => /\ os.xfer = "none" /\ os.cb = "none"
                                      /\ os.driver \/ os.lost
             /\ backend = "netbsd" => os.uhid = {}
  <2>1. app.pc = "out"
    BY <1>1 DEF Closed, At
  <2>2. CASE backend = "libusb"
    BY <1>1, <2>1, <2>2
       DEF BackendInv, UsbInv, Libusb!TypeOK, UsbBefore, UsbBarrier, UsbTransfer, UsbDriver,
           UsbHeld
  <2>3. CASE backend = "mac"
    BY <1>1, <2>1, <2>3
       DEF BackendInv, MacInv, Mac!TypeOK, MacBarriers, MacHeld, MacUnopened, MacInUse,
           MacOpened
  <2>4. CASE backend = "windows"
    BY <1>1, <2>1, <2>4 DEF BackendInv, WinInv, Win!TypeOK, WinHeld
  <2>5. CASE backend = "linux"
    BY <1>1, <2>1, <2>5 DEF BackendInv, LinuxInv, Linux!TypeOK, LinuxHeld
  <2>6. CASE backend = "netbsd"
    BY <1>1, <2>1, <2>6 DEF BackendInv, NetbsdInv, Netbsd!TypeOK, NetbsdHeld
  <2> QED
    BY <1>1, <2>2, <2>3, <2>4, <2>5, <2>6, BackendsAssumption DEF BackendInv
<1>2. BackendInv => NothingLeft
  BY <1>1 DEF NothingLeft
<1> QED
  BY <1>2, BackendTheorem, PTL

\* On macOS the two barriers keep the read thread inside its run loop until
\* hid_close has signalled it.
THEOREM RunLoopAliveTheorem == Spec => []RunLoopAlive
PROOF
<1>1. BackendInv => RunLoopAlive
  BY DEF BackendInv, MacInv, Mac!TypeOK, MacBarriers, MacHeld, MacUnopened, MacInUse,
         MacOpened, RunLoopAlive, At
<1> QED
  BY <1>1, BackendTheorem, PTL

\* On Windows, until a write of the session times out, hid_write reports success
\* only of what the device has taken.
THEOREM WriteWasCarriedOutTheorem == Spec => []WriteWasCarriedOut
PROOF
<1>1. BackendInv => WriteWasCarriedOut
  BY DEF BackendInv, WinInv, WinWrites, WriteWasCarriedOut
<1> QED
  BY <1>1, BackendTheorem, PTL
=============================================================================
