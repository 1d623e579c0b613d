------------------------------- MODULE WinHid -------------------------------
(***************************************************************************)
(* hidapi on Windows (src/hidapi/windows/hid.c): opening, the overlapped   *)
(* read that goes on when hid_read_timeout has given up, and the write     *)
(* whose OVERLAPPED the next write takes although it may still be running. *)
(* There is no read thread, no mutex and no list of reports of its own.    *)
(***************************************************************************)
EXTENDS HidApi, FiniteSets

CONSTANTS RingSize,  \* reports the driver keeps (HidD_SetNumInputBuffers: 64)
          MaxWrites  \* bound: calls of hid_write

\* dev is [read_pending]; os is [ring: reports the driver keeps, io: the read
\* that ReadFile began, got: the report in read_buf, ev: its event, writes:
\* writes the driver has not finished, done: those it has finished well, count:
\* calls of hid_write, write_ol and write_ev: the status and the event in
\* dev->write_ol, late: a write of this session has timed out].

NewDevice == [read_pending |-> FALSE]
IdleWin == [ring |-> <<>>, io |-> "none", got |-> 0, ev |-> FALSE,
            writes |-> <<>>, done |-> {}, count |-> 0,
            write_ol |-> "none", write_ev |-> FALSE, late |-> FALSE]

TypeOK ==
  /\ dev \in [read_pending : BOOLEAN]
  /\ os.io \in {"none", "pending", "done", "failed"}
  /\ os.write_ol \in {"none", "pending", "done", "failed"}
  /\ Len(os.ring) <= RingSize /\ os.done \subseteq 1..MaxWrites
  /\ os.io = "none" <=> ~dev.read_pending
  /\ os.ev <=> os.io \in {"done", "failed"}
  /\ thr = "none" /\ lock = "none" /\ queue = <<>>

Init ==
  /\ sent = 0 /\ plugged = TRUE
  /\ app = [pc |-> "out", wait |-> "not_at_all"]
  /\ dev = NewDevice /\ thr = "none" /\ os = IdleWin
  /\ lock = "none" /\ queue = <<>> /\ held = {} /\ last = NoResult

deviceVars == <<sent, plugged>>
unused == <<thr, lock, queue>>

-----------------------------------------------------------------------------
(* Opening *)

hid_open_path ==
  /\ Closed
  /\ held' = held \cup {"interface_path"}
  /\ os' = IdleWin
  /\ Goto("open")
  /\ UNCHANGED <<deviceVars, dev, unused, last>>

\* end_of_function, on failure: device_handle is still the function's own.
EndOfFunction == held' = held \ {"interface_path", "handle", "pp_data"} /\ Goto("out")

\* open_device, to read and write, then again without access.
OpenDevice ==
  /\ At("open")
  /\ \/ held' = held \cup {"handle"} /\ Goto("buffers")
     \/ EndOfFunction
  /\ UNCHANGED <<deviceVars, dev, os, unused, last>>

\* HidD_SetNumInputBuffers and HidD_GetPreparsedData.
GetPreparsedData ==
  /\ At("buffers")
  /\ \/ held' = held \cup {"pp_data"} /\ Goto("caps")
     \/ EndOfFunction
  /\ UNCHANGED <<deviceVars, dev, os, unused, last>>

\* HidP_GetCaps and new_hid_device, which takes the handle over.
NewHidDevice ==
  /\ At("caps")
  /\ \/ /\ held' = (held \cup {"dev"}) \ {"interface_path", "pp_data"}
        /\ dev' = NewDevice
        /\ Goto("idle")
     \/ EndOfFunction /\ UNCHANGED dev
  /\ UNCHANGED <<deviceVars, os, unused, last>>

-----------------------------------------------------------------------------
(* Reading *)

\* CancelIo: what the thread has begun ends as a failure, writes included.
CancelIo(s) ==
  [s EXCEPT !.io = "none", !.got = 0, !.ev = FALSE, !.writes = <<>>,
            !.write_ol = IF s.writes = <<>> THEN @ ELSE "failed",
            !.write_ev = IF s.writes = <<>> THEN @ ELSE TRUE]

\* hid_read_timeout with no read running: ReadFile fails, for whatever reason,
\* finds a report, or goes on in the driver.
ReadFile(w) ==
  /\ ~dev.read_pending
  /\ \/ /\ os' = CancelIo(os)
        /\ Return(Error)
        /\ UNCHANGED dev
     \/ /\ plugged /\ os.ring # <<>>
        /\ os' = [os EXCEPT !.ring = Tail(@)]
        /\ Return(Data(Head(os.ring)))
        /\ UNCHANGED dev
     \/ /\ plugged
        /\ dev' = [dev EXCEPT !.read_pending = TRUE]
        /\ os' = IF os.ring = <<>>
                 THEN [os EXCEPT !.io = "pending", !.ev = FALSE]
                 ELSE [os EXCEPT !.io = "done", !.ev = TRUE,
                                 !.got = Head(os.ring), !.ring = Tail(@)]
        /\ app' = [pc |-> "wait", wait |-> w]
        /\ last' = NoResult

\* ... and with the read of an earlier call that timed out.
ReadAgain(w) ==
  /\ dev.read_pending
  /\ app' = [pc |-> "wait", wait |-> w]
  /\ last' = NoResult
  /\ UNCHANGED <<dev, os>>

hid_read_timeout ==
  /\ At("idle")
  /\ \E w \in Waits : ReadFile(w) \/ ReadAgain(w)
  /\ UNCHANGED <<deviceVars, unused, held>>

\* The event did not come in time: the read is left running.
ReadTimesOut ==
  /\ At("wait") /\ app.wait # "forever" /\ ~os.ev
  /\ Return(Nothing)
  /\ UNCHANGED <<deviceVars, dev, os, unused, held>>

\* WaitForSingleObject resets the event; GetOverlappedResult.
ReadEnds ==
  /\ At("wait") /\ os.ev
  /\ dev' = [dev EXCEPT !.read_pending = FALSE]
  /\ os' = [os EXCEPT !.io = "none", !.ev = FALSE, !.got = 0]
  /\ Return(IF os.io = "done" THEN Data(os.got) ELSE Error)
  /\ UNCHANGED <<deviceVars, unused, held>>

-----------------------------------------------------------------------------
(* Writing *)

Written(n) == [res |-> "written", report |-> n]

\* WriteFile begins by resetting the event and the status in dev->write_ol.
hid_write ==
  /\ At("idle") /\ os.count < MaxWrites
  /\ LET n == os.count + 1 IN
     \/ /\ plugged
        /\ os' = [os EXCEPT !.count = n, !.writes = Append(@, n),
                            !.write_ol = "pending", !.write_ev = FALSE]
        /\ Goto("writing") /\ last' = NoResult
     \/ /\ plugged /\ os.writes = <<>>
        /\ os' = [os EXCEPT !.count = n, !.done = @ \cup {n},
                            !.write_ol = "done", !.write_ev = TRUE]
        /\ Return(Written(n))
     \/ /\ os' = [os EXCEPT !.count = n, !.write_ol = "failed"]
        /\ Return(Error)
  /\ UNCHANGED <<deviceVars, dev, unused, held>>

\* A plausible bug: GetOverlappedResult's answer is not looked at.
WriteEndsUnchecked ==
  /\ At("writing") /\ os.write_ev
  /\ os' = [os EXCEPT !.write_ev = FALSE]
  /\ Return(Written(os.count))
  /\ UNCHANGED <<deviceVars, dev, unused, held>>

WriteEnds ==
  /\ At("writing") /\ os.write_ev
  /\ os' = [os EXCEPT !.write_ev = FALSE]
  /\ Return(IF os.write_ol = "done" THEN Written(os.count) ELSE Error)
  /\ UNCHANGED <<deviceVars, dev, unused, held>>

\* write_timeout_ms have passed: the call fails, the write goes on.
WriteTimesOut ==
  /\ At("writing") /\ ~os.write_ev
  /\ os' = [os EXCEPT !.late = TRUE]
  /\ Return(Error)
  /\ UNCHANGED <<deviceVars, dev, unused, held>>

\* The feature and output reports and hid_get_report wait for a request of
\* their own without a timeout.
SyncRequest ==
  /\ At("idle") /\ Goto("sync") /\ last' = NoResult
  /\ UNCHANGED <<deviceVars, dev, os, unused, held>>

SyncRequestEnds ==
  /\ At("sync") /\ Goto("idle")
  /\ UNCHANGED <<deviceVars, dev, os, unused, held, last>>

\* CancelIo, then free_hid_device, which closes the handle.
hid_close ==
  /\ At("idle")
  /\ held' = held \ {"handle", "dev"}
  /\ dev' = NewDevice /\ os' = IdleWin
  /\ Goto("out") /\ last' = NoResult
  /\ UNCHANGED <<deviceVars, unused>>

-----------------------------------------------------------------------------
(* The driver *)

\* A report ends the read that waits, or goes to the ring, which then gives up
\* its oldest report when it is full.
ReportArrives ==
  /\ plugged /\ sent < MaxReports
  /\ sent' = sent + 1
  /\ os' = IF "handle" \notin held THEN os
           ELSE IF os.io = "pending"
           THEN [os EXCEPT !.io = "done", !.ev = TRUE, !.got = sent + 1]
           ELSE [os EXCEPT !.ring = IF Len(@) < RingSize THEN Append(@, sent + 1)
                                    ELSE Append(Tail(@), sent + 1)]
  /\ UNCHANGED <<plugged, app, dev, unused, held, last>>

ReadFails ==
  /\ os.io = "pending" /\ ~plugged
  /\ os' = [os EXCEPT !.io = "failed", !.ev = TRUE]
  /\ UNCHANGED <<deviceVars, app, dev, unused, held, last>>

\* The oldest write ends; its status and event are those of dev->write_ol.
WriteCompletes ==
  /\ os.writes # <<>>
  /\ \/ /\ plugged
        /\ os' = [os EXCEPT !.writes = Tail(@), !.done = @ \cup {Head(os.writes)},
                            !.write_ol = "done", !.write_ev = TRUE]
     \/ os' = [os EXCEPT !.writes = Tail(@),
                         !.write_ol = "failed", !.write_ev = TRUE]
  /\ UNCHANGED <<deviceVars, app, dev, unused, held, last>>

Unplug ==
  /\ plugged /\ plugged' = FALSE
  /\ UNCHANGED <<sent, app, dev, os, unused, held, last>>

-----------------------------------------------------------------------------
Application == hid_open_path \/ hid_read_timeout \/ hid_write \/ SyncRequest \/ hid_close
Opening == OpenDevice \/ GetPreparsedData \/ NewHidDevice
Reading == ReadEnds \/ WriteEnds \/ SyncRequestEnds
Usb == ReadFails \/ WriteCompletes

Next ==
  \/ Application \/ Opening \/ Reading \/ Usb
  \/ ReportArrives \/ ReadTimesOut \/ WriteTimesOut \/ Unplug
=============================================================================
