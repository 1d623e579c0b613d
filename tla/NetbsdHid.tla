------------------------------ MODULE NetbsdHid ------------------------------
(***************************************************************************)
(* hidapi on uhid (src/hidapi/netbsd/hid.c): a descriptor for each report  *)
(* id of the device, one poll over all of them, and a read from the first  *)
(* that is ready.                                                          *)
(***************************************************************************)
EXTENDS HidApi

CONSTANTS RingSize,  \* reports the driver keeps for a descriptor
          Children   \* uhid devices of the device: at most 256

\* dev is [poll_handles_length, blocking]; os is [ring: the reports the driver
\* keeps for each child, uhid: the children with an open descriptor].
\* report_handles maps the id of child c to its descriptor; the id is c.

NewDevice == [poll_handles_length |-> 0, blocking |-> TRUE]
IdleNetbsd == [ring |-> [c \in 1..Children |-> <<>>], uhid |-> {}]

TypeOK ==
  /\ os \in [ring : [1..Children -> Seq(Reports)], uhid : SUBSET (1..Children)]
  /\ \A c \in 1..Children : Len(os.ring[c]) <= RingSize
  /\ dev \in [poll_handles_length : 0..Children, blocking : BOOLEAN]
  /\ thr = "none" /\ lock = "none" /\ queue = <<>>

Init ==
  /\ sent = 0 /\ plugged = TRUE
  /\ app = [pc |-> "out", wait |-> "not_at_all"]
  /\ dev = NewDevice /\ thr = "none" /\ os = IdleNetbsd
  /\ lock = "none" /\ queue = <<>> /\ held = {} /\ last = NoResult

deviceVars == <<sent, plugged>>
unused == <<thr, lock, queue>>

\* hid_open_path up to its loop.
hid_open_path ==
  /\ Closed
  /\ held' = held \cup {"dev", "drvctl"} /\ Goto("open")
  /\ dev' = NewDevice
  /\ UNCHANGED <<deviceVars, os, unused, last>>

\* The loop over poll_handles at err_3 and in hid_close.
CloseHandles == [IdleNetbsd EXCEPT !.uhid = os.uhid \ (1..dev.poll_handles_length)]

\* The loop of hid_open_path: the next child's descriptor and its report id,
\* until one fails.
OpenChild ==
  /\ At("open") /\ dev.poll_handles_length < Children
  /\ LET c == dev.poll_handles_length + 1 IN
     \/ /\ plugged
        /\ os' = [os EXCEPT !.uhid = @ \cup {c}]
        /\ dev' = [dev EXCEPT !.poll_handles_length = c]
        /\ UNCHANGED <<app, held>>
     \/ /\ os' = CloseHandles
        /\ held' = held \ {"drvctl", "dev"}
        /\ Goto("out")
        /\ UNCHANGED dev
  /\ UNCHANGED <<deviceVars, unused, last>>

\* The rest of hid_open_path.  The descriptor of /dev/drvctl stays open.
Opened ==
  /\ At("open") /\ dev.poll_handles_length = Children
  /\ held' = (held \ {"drvctl"}) \cup {"drvctl_left_open"}
  /\ Goto("idle")
  /\ UNCHANGED <<deviceVars, dev, os, unused, last>>

hid_set_nonblocking ==
  /\ At("idle")
  /\ dev' = [dev EXCEPT !.blocking = ~@]
  /\ last' = NoResult
  /\ UNCHANGED <<deviceVars, app, os, unused, held>>

hid_read ==
  /\ At("idle")
  /\ app' = [pc |-> "wait", wait |-> IF dev.blocking THEN "forever" ELSE "not_at_all"]
  /\ last' = NoResult
  /\ UNCHANGED <<deviceVars, dev, os, unused, held>>

hid_read_timeout ==
  /\ At("idle")
  /\ \E w \in Waits : app' = [pc |-> "wait", wait |-> w]
  /\ last' = NoResult
  /\ UNCHANGED <<deviceVars, dev, os, unused, held>>

Ready == {c \in 1..Children : os.ring[c] # <<>>}
FirstReady == CHOOSE c \in Ready : \A d \in Ready : c <= d

\* poll, the look at each descriptor in turn, and read.  A device that is gone
\* shows at the first descriptor, before the reports of any.
ReadReturns ==
  /\ At("wait")
  /\ \/ ~plugged /\ Return(Error) /\ UNCHANGED os
     \/ /\ plugged /\ Ready # {}
        /\ os' = [os EXCEPT !.ring[FirstReady] = Tail(@)]
        /\ Return(Data(Head(os.ring[FirstReady])))
  /\ UNCHANGED <<deviceVars, dev, unused, held>>

\* A signal interrupts poll or read, or one of them fails; an error of read that
\* only says that there is nothing to read yet counts as no report.
Interrupted ==
  /\ At("wait") /\ \E r \in {Error, Nothing} : Return(r)
  /\ UNCHANGED <<deviceVars, dev, os, unused, held>>

PollTimesOut ==
  /\ At("wait") /\ app.wait # "forever" /\ plugged /\ Ready = {}
  /\ Return(Nothing)
  /\ UNCHANGED <<deviceVars, dev, os, unused, held>>

\* set_report and get_report: refused for an id without a descriptor, else an
\* ioctl.
SyncRequest ==
  /\ At("idle") /\ last' = NoResult
  /\ Goto("sync") \/ UNCHANGED app
  /\ UNCHANGED <<deviceVars, dev, os, unused, held>>

SyncRequestEnds ==
  /\ At("sync") /\ Goto("idle")
  /\ UNCHANGED <<deviceVars, dev, os, unused, held, last>>

hid_close ==
  /\ At("idle")
  /\ held' = held \ {"dev"}
  /\ dev' = NewDevice /\ os' = CloseHandles
  /\ Goto("out") /\ last' = NoResult
  /\ UNCHANGED <<deviceVars, unused>>

-----------------------------------------------------------------------------
\* The device sends a report with the id of child c.
ReportArrives(c) ==
  /\ plugged /\ sent < MaxReports
  /\ sent' = sent + 1
  /\ os' = IF c \in os.uhid /\ Len(os.ring[c]) < RingSize
           THEN [os EXCEPT !.ring[c] = Append(@, sent + 1)] ELSE os
  /\ UNCHANGED <<plugged, app, dev, unused, held, last>>

Unplug ==
  /\ plugged /\ plugged' = FALSE
  /\ UNCHANGED <<sent, app, dev, os, unused, held, last>>

Application == \/ hid_open_path \/ hid_set_nonblocking \/ hid_read
               \/ hid_read_timeout \/ SyncRequest \/ hid_close
Opening == OpenChild \/ Opened
Reading == ReadReturns \/ SyncRequestEnds

Next == \/ Application \/ Opening \/ Reading \/ Interrupted \/ PollTimesOut
        \/ \E c \in 1..Children : ReportArrives(c)
        \/ Unplug
=============================================================================
