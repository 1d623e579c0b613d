---------------------------- MODULE HidBackends ----------------------------
(***************************************************************************)
(* The five backends of hidapi side by side.  The build picks one; all of  *)
(* them have to keep the same promises to the application, which lists     *)
(* what is on the bus, opens a device of the list, and then reads, writes, *)
(* closes and opens that device again by its path.                         *)
(***************************************************************************)
EXTENDS HidApi, FiniteSets

CONSTANTS Backends,   \* the backends this instance looks at
          Alts, RingSize, MaxWrites, Children,  \* as in the backends
          Capacity,   \* reports that may wait before one is lost
          Ports, Units, Descriptors, MaxChanges,  \* as in HidEnumerate
          Usual       \* the descriptor of the device that is opened

ASSUME BackendsAssumption ==
  /\ Backends \subseteq {"libusb", "mac", "windows", "linux", "netbsd"}
  /\ Alts \in Nat /\ MaxWrites \in Nat /\ Children \in Nat
  /\ RingSize \in Nat \ {0}

\* What ReportsInOrder promises: no buffer on the way of a report is smaller
\* than Capacity.  A device that is there has at least one channel.
ASSUME CapacityAssumption ==
  /\ Capacity \in Nat /\ Capacity <= RingSize /\ Capacity <= QueueLimit + 2
  /\ Children >= 1

VARIABLES backend,    \* the backend the build picked
          bus, enum   \* as in HidEnumerate

Libusb == INSTANCE LibusbHid
Mac == INSTANCE MacHid
Win == INSTANCE WinHid
Linux == INSTANCE LinuxHid
Netbsd == INSTANCE NetbsdHid
Enum == INSTANCE HidEnumerate

\* The places on the bus are finitely many, and in every descriptor each backend
\* finds a finite number of usages, at least one (0 and 0 when it declares none).
ASSUME EnumerateAssumption ==
  /\ IsFiniteSet(Ports)
  /\ Units \subseteq [ids : {"asked", "other"}, serial : STRING \ {Enum!Null},
                      interfaces : Seq(Seq(BOOLEAN))]
  /\ \A items \in Descriptors : Enum!UsagesRead(items) \subseteq Seq(Nat \X Nat) \ {<<>>}

vars == <<backend, bus, enum, hidVars>>
Outside == <<backend, bus, enum>>

Init ==
  /\ backend \in Backends
  /\ Enum!Init
  /\ bus.items # Usual => Enum!Present = Ports  \* bound: the bus is full and stays
  /\ CASE backend = "libusb" -> Libusb!Init
       [] backend = "mac" -> Mac!Init
       [] backend = "windows" -> Win!Init
       [] backend = "linux" -> Linux!Init
       [] backend = "netbsd" -> Netbsd!Init

\* hid_open calls hid_open_path, or the application does with the path of a
\* record.
OpenFromList ==
  /\ bus.items = Usual
  /\ Enum!OpenPicked
  /\ CASE backend = "libusb" -> Libusb!hid_open_path
       [] backend = "mac" -> Mac!hid_open_path
       [] backend = "windows" -> Win!hid_open_path
       [] backend = "linux" -> Linux!hid_open_path
       [] backend = "netbsd" -> Netbsd!hid_open_path

Enumeration ==
  /\ Enum!Next
  /\ bus.items # Usual =>  \* bound: everything is listed, and nothing changes
       /\ UNCHANGED bus
       /\ enum'.any \/ enum' = Enum!Off
  /\ UNCHANGED hidVars

Session ==
  /\ enum.pc = "over"
  /\ UNCHANGED Outside
  /\ \/ backend = "libusb" /\ Libusb!Next
     \/ backend = "mac" /\ Mac!Next
     \/ backend = "windows" /\ Win!Next
     \/ backend = "linux" /\ Linux!Next
     \/ backend = "netbsd" /\ Netbsd!Next

Next == Enumeration \/ OpenFromList \/ Session

Opening ==
  \/ backend = "libusb" /\ Libusb!Opening
  \/ backend = "mac" /\ Mac!Opening
  \/ backend = "windows" /\ Win!Opening
  \/ backend = "linux" /\ Linux!Opening
  \/ backend = "netbsd" /\ Netbsd!Opening

Reading ==
  \/ backend = "libusb" /\ Libusb!Reading
  \/ backend = "mac" /\ Mac!Reading
  \/ backend = "windows" /\ Win!Reading
  \/ backend = "linux" /\ Linux!Reading
  \/ backend = "netbsd" /\ Netbsd!Reading

Closing ==
  \/ backend = "libusb" /\ Libusb!Closing
  \/ backend = "mac" /\ Mac!Closing

Thread ==
  \/ backend = "libusb" /\ Libusb!Thread
  \/ backend = "mac" /\ Mac!Thread

\* Steps of the read thread that wait for the mutex, or for a run loop that
\* comes and goes: they happen if they can happen again and again.
Locked ==
  \/ backend = "libusb" /\ Libusb!WakeReader
  \/ backend = "mac" /\ Mac!WakeReader

Callback ==
  \/ backend = "libusb" /\ Libusb!CallbackStatus("thread")
  \/ backend = "mac" /\ Mac!Callbacks

\* What the system does: transfers end, a device that is gone fails what waits.
System ==
  \/ backend = "libusb" /\ (Libusb!Usb \/ Libusb!CallbackTest("app") \/ Libusb!CallbackSubmits("app"))
  \/ backend = "windows" /\ Win!Usb

Fairness ==
  /\ WF_vars(UNCHANGED Outside /\ Opening) /\ WF_vars(UNCHANGED Outside /\ Reading)
  /\ WF_vars(UNCHANGED Outside /\ Closing) /\ WF_vars(UNCHANGED Outside /\ Thread)
  /\ WF_vars(UNCHANGED Outside /\ System)
  /\ SF_vars(UNCHANGED Outside /\ Locked) /\ SF_vars(UNCHANGED Outside /\ Callback)

Spec == Init /\ [][Next]_vars /\ Fairness

-----------------------------------------------------------------------------
(* Properties *)

\* The types of the fields of the backend's own records.
TypeOK ==
  /\ sent \in 0..MaxReports /\ plugged \in BOOLEAN
  /\ app.wait \in Waits /\ last \in Results
  /\ CASE backend = "libusb" -> Libusb!TypeOK
       [] backend = "mac" -> Mac!TypeOK
       [] backend = "windows" -> Win!TypeOK
       [] backend = "linux" -> Linux!TypeOK
       [] backend = "netbsd" -> Netbsd!TypeOK

\* A device that stays is listed once for each of its interfaces or usages (see
\* HidEnumerate), the device opened is one that was asked for, and its usages are
\* those its descriptor declares.
ListIsComplete == Enum!ListIsComplete
OpensWhatWasAsked == Enum!OpensWhatWasAsked
UsagesAsDeclared == Enum!UsagesAsDeclared

\* A session that was closed or never opened, on whatever error path, leaves
\* nothing allocated, open or claimed behind, no thread, and the kernel driver
\* where it was unless the system refused to take it back.  Three things do stay
\* behind: on NetBSD the descriptor of /dev/drvctl, on macOS before 10.10 the
\* opened device when the run loop had been stopped, and on libusb the
\* configuration of a device that hid_libusb_wrap_sys_device opened.
NothingLeft ==
  Closed =>
    /\ thr = "none" /\ queue = <<>>
    /\ held \subseteq (IF backend = "netbsd" THEN {"drvctl_left_open"}
                       ELSE IF backend = "mac" /\ ~os.modern THEN {"opened"}
                       ELSE IF backend = "libusb" THEN {"config_never_freed"} ELSE {})
    /\ backend = "libusb" => /\ os.xfer = "none" /\ os.cb = "none"
                             /\ os.driver \/ os.lost
    /\ backend = "netbsd" => os.uhid = {}

\* On macOS, hid_close finds the read thread's run loop alive when it signals
\* and wakes it, and a thread in the run loop still has its source.
RunLoopAlive ==
  backend = "mac" => /\ At("signal") => thr \notin {"none", "ended"}
                     /\ thr = "run" => "source" \in held

\* On Windows, as long as no write of the session has timed out, a call of
\* hid_write that reports success has been carried out by the device.
WriteWasCarriedOut ==
  backend = "windows" /\ ~os.late /\ last.res = "written" => last.report \in os.done

InUse == app.pc \in {"idle", "check", "sleep", "wait", "woken", "sync", "poll", "writing"}

One(flag, x) == IF flag THEN <<x>> ELSE <<>>

Waiting ==
  [c \in 1..Children |->
     IF backend = "netbsd" THEN os.ring[c]
     ELSE IF c > 1 THEN <<>>
     ELSE CASE backend = "libusb" -> queue \o One(os.flight # 0, os.flight)
            [] backend = "mac" -> queue \o os.port
            [] backend = "windows" -> One(os.io = "done", os.got) \o os.ring
            [] backend = "linux" -> os.ring]

Stream == INSTANCE ReportStream WITH
            Channels <- 1..Children, inUse <- InUse, waiting <- Waiting

\* Every backend hands input reports to the application as ReportStream says:
\* in order, none twice, none invented, none lost before Capacity are waiting.
ReportsInOrder == Stream!Spec

\* A call of hid_close returns, whatever the read thread and the device do.
CloseReturns ==
  app.pc \in {"cancel", "join", "shutdown", "signal", "close_barrier", "at_close_barrier"}
    ~> Closed

=============================================================================
