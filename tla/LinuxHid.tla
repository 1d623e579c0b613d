------------------------------ MODULE LinuxHid ------------------------------
(***************************************************************************)
(* hidapi on hidraw (src/hidapi/linux/hid.c): one file descriptor, poll    *)
(* before read when the call has a timeout, read alone when it has none.   *)
(***************************************************************************)
EXTENDS HidApi

CONSTANT RingSize  \* reports hidraw keeps for a descriptor (64)

\* os is [ring: the reports hidraw keeps for the descriptor].  There is no
\* other state: dev, thr, lock and queue stay as they are.

IdleLinux == [ring |-> <<>>]
NewDevice == [blocking |-> TRUE]

TypeOK ==
  /\ os \in [ring : Seq(Reports)] /\ Len(os.ring) <= RingSize
  /\ dev \in [blocking : BOOLEAN]
  /\ thr = "none" /\ lock = "none" /\ queue = <<>>

Init ==
  /\ sent = 0 /\ plugged = TRUE
  /\ app = [pc |-> "out", wait |-> "not_at_all"]
  /\ dev = NewDevice /\ thr = "none" /\ os = IdleLinux
  /\ lock = "none" /\ queue = <<>> /\ held = {} /\ last = NoResult

deviceVars == <<sent, plugged>>
unused == <<thr, lock, queue>>

hid_open_path ==
  /\ Closed
  /\ held' = held \cup {"dev"}
  /\ dev' = NewDevice
  /\ Goto("open")
  /\ UNCHANGED <<deviceVars, os, unused, last>>

\* open, which may fail, and the ioctl that tells a hidraw device.
OpenNode ==
  /\ At("open")
  /\ \/ /\ plugged
        /\ held' = held \cup {"handle"} /\ os' = IdleLinux
        /\ Goto("ioctl")
     \/ held' = held \ {"dev"} /\ Goto("out") /\ UNCHANGED os
  /\ UNCHANGED <<deviceVars, dev, unused, last>>

\* hid_close of the device that is not a hidraw device.
CheckNode ==
  /\ At("ioctl")
  /\ \/ Goto("idle") /\ UNCHANGED held
     \/ held' = held \ {"handle", "dev"} /\ Goto("out")
  /\ UNCHANGED <<deviceVars, dev, os, unused, last>>

hid_set_nonblocking ==
  /\ At("idle")
  /\ dev' = [dev EXCEPT !.blocking = ~@]
  /\ last' = NoResult
  /\ UNCHANGED <<deviceVars, app, os, unused, held>>

\* hid_read waits for ever or not at all, as hid_set_nonblocking said last.
hid_read ==
  /\ At("idle")
  /\ app' = IF dev.blocking THEN [pc |-> "wait", wait |-> "forever"]
                            ELSE [pc |-> "poll", wait |-> "not_at_all"]
  /\ last' = NoResult
  /\ UNCHANGED <<deviceVars, dev, os, unused, held>>

\* hid_read_timeout goes to read itself when it may wait for ever.
hid_read_timeout ==
  /\ At("idle")
  /\ \E w \in Waits : app' = [pc |-> IF w = "forever" THEN "wait" ELSE "poll", wait |-> w]
  /\ last' = NoResult
  /\ UNCHANGED <<deviceVars, dev, os, unused, held>>

\* poll finds the device gone, which is told before what is still in the
\* ring, or a report.
PollReturns ==
  /\ At("poll")
  /\ \/ ~plugged /\ Return(Error)
     \/ plugged /\ os.ring # <<>> /\ Goto("wait") /\ UNCHANGED last
  /\ UNCHANGED <<deviceVars, dev, os, unused, held>>

PollInterrupted ==
  /\ At("poll") /\ Return(Error)
  /\ UNCHANGED <<deviceVars, dev, os, unused, held>>

\* A signal interrupts read, or it fails; an error that only says that there is
\* nothing to read yet counts as no report.
ReadInterrupted ==
  /\ At("wait") /\ \E r \in {Error, Nothing} : Return(r)
  /\ UNCHANGED <<deviceVars, dev, os, unused, held>>

PollTimesOut ==
  /\ At("poll") /\ plugged /\ os.ring = <<>>
  /\ Return(Nothing)
  /\ UNCHANGED <<deviceVars, dev, os, unused, held>>

\* read: a report, or the device is gone.
ReadReturns ==
  /\ At("wait")
  /\ \/ /\ os.ring # <<>>
        /\ os' = [os EXCEPT !.ring = Tail(@)]
        /\ Return(Data(Head(os.ring)))
     \/ /\ os.ring = <<>> /\ ~plugged
        /\ Return(Error) /\ UNCHANGED os
  /\ UNCHANGED <<deviceVars, dev, unused, held>>

\* write and the ioctls of the feature, output and input reports.
SyncRequest ==
  /\ At("idle") /\ Goto("sync") /\ last' = NoResult
  /\ UNCHANGED <<deviceVars, dev, os, unused, held>>

SyncRequestEnds ==
  /\ At("sync") /\ Goto("idle")
  /\ UNCHANGED <<deviceVars, dev, os, unused, held, last>>

hid_close ==
  /\ At("idle")
  /\ held' = held \ {"handle", "dev"}
  /\ dev' = NewDevice /\ os' = IdleLinux
  /\ Goto("out") /\ last' = NoResult
  /\ UNCHANGED <<deviceVars, unused>>

-----------------------------------------------------------------------------
\* hidraw drops the new report when its ring is full.
ReportArrives ==
  /\ plugged /\ sent < MaxReports
  /\ sent' = sent + 1
  /\ os' = IF "handle" \in held /\ Len(os.ring) < RingSize
           THEN [os EXCEPT !.ring = Append(@, sent + 1)] ELSE os
  /\ UNCHANGED <<plugged, app, dev, unused, held, last>>

Unplug ==
  /\ plugged /\ plugged' = FALSE
  /\ UNCHANGED <<sent, app, dev, os, unused, held, last>>

Application == \/ hid_open_path \/ hid_set_nonblocking \/ hid_read
               \/ hid_read_timeout \/ SyncRequest \/ hid_close
Opening == OpenNode \/ CheckNode
Reading == PollReturns \/ ReadReturns \/ SyncRequestEnds

Next == \/ Application \/ Opening \/ Reading \/ PollInterrupted
        \/ ReadInterrupted \/ PollTimesOut \/ ReportArrives \/ Unplug
=============================================================================
