----------------------------- MODULE LibusbHid ------------------------------
(***************************************************************************)
(* hidapi on libusb (src/hidapi/libusb/hid.c, with its pthread wrapper):   *)
(* opening with its error paths, the read thread and its transfer, reading *)
(* from the list of input reports, synchronous transfers, closing.  A      *)
(* section under dev->mutex that cannot block is one step; shutdown_thread *)
(* and transfer_loop_finished are read and written without the mutex, so   *)
(* read_callback's test and its submission are two.                        *)
(***************************************************************************)
EXTENDS HidApi

CONSTANT Alts  \* altsettings of the device that bear the path

\* dev is [shutdown_thread, transfer_loop_finished, is_driver_detached,
\* barrier]; thr is the position of read_thread; os is [xfer: the
\* state of dev->transfer, flight: the report in its buffer, cb: the thread
\* in read_callback, resubmit: which has found shutdown_thread clear, path:
\* opened by path, alts: altsettings left to try, driver: the kernel driver is
\* attached, lost: it could not be reattached].

Finished == {"completed", "cancelled", "timed_out", "no_device", "failed"}
NewDevice == [shutdown_thread |-> FALSE, transfer_loop_finished |-> FALSE,
              is_driver_detached |-> FALSE, barrier |-> 0]
IdleUsb == [xfer |-> "none", flight |-> 0, cb |-> "none", resubmit |-> FALSE,
            path |-> TRUE, alts |-> 0, driver |-> TRUE, lost |-> FALSE]

TypeOK ==
  /\ dev \in [shutdown_thread : BOOLEAN, transfer_loop_finished : BOOLEAN,
              is_driver_detached : BOOLEAN, barrier : 0..1]
  /\ thr \in {"none", "start", "barrier", "at_barrier", "loop", "events",
             "cancel", "drain", "wake", "ended"}
  /\ os \in [xfer : Finished \cup {"none", "submitted", "cancelling"},
             flight : 0..MaxReports, cb : {"none", "thread", "app"}, resubmit : BOOLEAN,
             path : BOOLEAN, alts : 0..Alts, driver : BOOLEAN, lost : BOOLEAN]
  /\ lock \in {"none", "app"} /\ Len(queue) <= QueueLimit + 2

Init ==
  /\ sent = 0 /\ plugged = TRUE
  /\ app = [pc |-> "out", wait |-> "not_at_all"]
  /\ dev = NewDevice /\ thr = "none"
  /\ os = IdleUsb
  /\ lock = "none" /\ queue = <<>> /\ held = {} /\ last = NoResult

deviceVars == <<sent, plugged>>
readVars == <<lock, queue, last>>

-----------------------------------------------------------------------------
(* Opening *)

\* hid_open_path up to its loop over the devices.
hid_open_path ==
  /\ Closed
  /\ held' = held \cup {"dev", "list"}
  /\ dev' = NewDevice /\ queue' = <<>>
  /\ os' = [os EXCEPT !.path = TRUE, !.alts = Alts]
  /\ Goto("try")
  /\ UNCHANGED <<deviceVars, thr, lock, last>>

\* hid_libusb_wrap_sys_device opens what the caller has a descriptor of, and
\* looks for an interface with the number given.
hid_libusb_wrap_sys_device ==
  /\ Closed
  /\ held' = held \cup {"dev"}
  /\ dev' = NewDevice /\ queue' = <<>>
  /\ os' = [os EXCEPT !.path = FALSE, !.alts = 0]
  /\ Goto("wrap")
  /\ UNCHANGED <<deviceVars, thr, lock, last>>

\* err
WrapFailed == held' = held \ {"config", "handle", "dev"} /\ Goto("out")

WrapSysDevice ==
  /\ At("wrap")
  /\ \/ held' = held \cup {"handle"} /\ Goto("get_config")
     \/ WrapFailed
  /\ UNCHANGED <<deviceVars, dev, thr, os, readVars>>

\* The active configuration or, failing that, the first.
WrapGetsConfig ==
  /\ At("get_config")
  /\ \/ held' = held \cup {"config"} /\ Goto("find_interface")
     \/ WrapFailed
  /\ UNCHANGED <<deviceVars, dev, thr, os, readVars>>

WrapFindsInterface ==
  /\ At("find_interface")
  /\ \/ Goto("detach") /\ UNCHANGED held
     \/ WrapFailed
  /\ UNCHANGED <<deviceVars, dev, thr, os, readVars>>

\* The loop body of hid_open_path for an altsetting with the path.  A failed
\* libusb_open leaves the altsettings of this interface; with none left the
\* open has failed.
TryAltsetting ==
  /\ At("try")
  /\ \/ /\ os.alts > 0
        /\ held' = held \cup {"handle", "config"}
        /\ os' = [os EXCEPT !.alts = @ - 1]
        /\ Goto("detach")
     \/ /\ held' = held \ {"config", "list", "dev"}
        /\ os' = [os EXCEPT !.alts = 0]
        /\ Goto("out")
  /\ UNCHANGED <<deviceVars, dev, thr, readVars>>

\* hidapi_initialize_device returned 0.
InitializeFailed ==
  IF os.path
  THEN held' = held \ {"handle"} /\ Goto("try")
  ELSE WrapFailed

\* hidapi_initialize_device: the kernel driver.
DetachKernelDriver ==
  /\ At("detach")
  /\ \/ /\ ~os.driver
        /\ dev' = [dev EXCEPT !.is_driver_detached = FALSE]
        /\ Goto("claim")
        /\ UNCHANGED <<os, held>>
     \/ /\ os.driver
        /\ dev' = [dev EXCEPT !.is_driver_detached = TRUE]
        /\ os' = [os EXCEPT !.driver = FALSE]
        /\ Goto("claim")
        /\ UNCHANGED held
     \/ /\ os.driver
        /\ dev' = [dev EXCEPT !.is_driver_detached = FALSE]
        /\ InitializeFailed
        /\ UNCHANGED os
  /\ UNCHANGED <<deviceVars, thr, readVars>>

\* libusb_attach_kernel_driver where the driver was detached; it may fail.
Reattach ==
  IF dev.is_driver_detached
  THEN \E ok \in BOOLEAN : os' = [os EXCEPT !.driver = ok, !.lost = @ \/ ~ok]
  ELSE UNCHANGED os

\* hidapi_initialize_device: the interface, and the read thread.
ClaimInterface ==
  /\ At("claim")
  /\ \/ /\ held' = held \cup {"interface"}
        /\ thr' = "start"
        /\ Goto("barrier")
        /\ UNCHANGED os
     \/ /\ Reattach
        /\ InitializeFailed
        /\ UNCHANGED thr
  /\ UNCHANGED <<deviceVars, dev, readVars>>

\* pthread_barrier_wait of the opening thread, as the system has it: it passes
\* when both are there.  (The wrapper's own barrier, for Android before 7, waits
\* once and lets a wake-up for no reason pass; that build is not modelled.)
OpenBarrier ==
  /\ At("barrier")
  /\ dev' = [dev EXCEPT !.barrier = Arrives(@)]
  /\ IF dev.barrier = 1
     THEN thr' = "loop" /\ Goto("opened")
     ELSE Goto("at_barrier") /\ UNCHANGED thr
  /\ UNCHANGED <<deviceVars, os, readVars, held>>

\* The device is open: the rest of hid_open_path, which frees the configuration
\* and the list, or of hid_libusb_wrap_sys_device, which frees neither.
Opened ==
  /\ At("opened")
  /\ held' = IF os.path THEN held \ {"config", "list"}
             ELSE (held \ {"config"}) \cup {"config_never_freed"}
  /\ os' = [os EXCEPT !.path = TRUE, !.alts = 0]
  /\ Goto("idle")
  /\ UNCHANGED <<deviceVars, dev, thr, readVars>>

-----------------------------------------------------------------------------
(* The read thread *)

\* read_thread up to its barrier: the transfer and its first submission.
ThreadStart ==
  /\ thr = "start"
  /\ held' = held \cup {"transfer"}
  /\ thr' = "barrier"
  /\ \/ /\ plugged
        /\ os' = [os EXCEPT !.xfer = "submitted"]
        /\ UNCHANGED dev
     \/ /\ dev' = [dev EXCEPT !.shutdown_thread = TRUE,
                              !.transfer_loop_finished = TRUE]
        /\ UNCHANGED os
  /\ UNCHANGED <<deviceVars, app, readVars>>

ThreadBarrier ==
  /\ thr = "barrier"
  /\ dev' = [dev EXCEPT !.barrier = Arrives(@)]
  /\ IF dev.barrier = 1
     THEN thr' = "loop" /\ Goto("opened")
     ELSE thr' = "at_barrier" /\ UNCHANGED app
  /\ UNCHANGED <<deviceVars, os, readVars, held>>

\* A plausible bug: only a fatal error ends the loop.
LoopOnAndOn ==
  /\ thr = "loop" /\ thr' = "events"
  /\ UNCHANGED <<deviceVars, app, dev, os, readVars, held>>

\* The loop of read_thread, into libusb_handle_events.
ThreadLoop ==
  /\ thr = "loop"
  /\ thr' = IF dev.shutdown_thread THEN "cancel" ELSE "events"
  /\ UNCHANGED <<deviceVars, app, dev, os, readVars, held>>

\* libusb_handle_events returns without a transfer of ours: after libusb's
\* 60 s, or with an error that is not fatal.
EventsReturn ==
  /\ thr = "events" /\ os.cb # "thread" /\ os.xfer \notin Finished
  /\ thr' = "loop"
  /\ UNCHANGED <<deviceVars, app, dev, os, readVars, held>>

\* ... or with a fatal error.
EventsFail ==
  /\ thr = "events" /\ os.cb # "thread"
  /\ thr' = "cancel"
  /\ dev' = [dev EXCEPT !.shutdown_thread = TRUE]
  /\ UNCHANGED <<deviceVars, app, os, readVars, held>>

libusb_cancel_transfer ==
  os' = [os EXCEPT !.xfer = IF @ = "submitted" THEN "cancelling" ELSE @]

ThreadCancel ==
  /\ thr = "cancel"
  /\ libusb_cancel_transfer
  /\ thr' = "drain"
  /\ UNCHANGED <<deviceVars, app, dev, readVars, held>>

\* The loop over libusb_handle_events_completed has ended.
ThreadDrained ==
  /\ thr = "drain" /\ dev.transfer_loop_finished
  /\ thr' = "wake"
  /\ UNCHANGED <<deviceVars, app, dev, os, readVars, held>>


\* The broadcast at the end of read_thread, under the mutex.
WakeReader ==
  /\ thr = "wake" /\ lock = "none"
  /\ app' = Woken
  /\ thr' = "ended"
  /\ UNCHANGED <<deviceVars, dev, os, readVars, held>>

-----------------------------------------------------------------------------
(* The transfer and its callback *)

\* libusb and the kernel finish the transfer, with a report or without.
\* Other failures than these (a stall, an overflow) end as "failed".
TransferEnds(end) ==
  /\ os.xfer \in {"submitted", "cancelling"}
  /\ \/ end = "cancelled" /\ os.xfer = "cancelling"
     \/ end = "timed_out" /\ os.xfer = "submitted"
     \/ end = "no_device" /\ ~plugged
     \/ end = "failed" /\ plugged
  /\ os' = [os EXCEPT !.xfer = end]
  /\ UNCHANGED <<deviceVars, app, dev, thr, readVars, held>>

ReportArrives ==
  /\ os.xfer \in {"submitted", "cancelling"}
  /\ plugged /\ sent < MaxReports
  /\ sent' = sent + 1
  /\ os' = [os EXCEPT !.xfer = "completed", !.flight = sent + 1]
  /\ UNCHANGED <<plugged, app, dev, thr, readVars, held>>

\* Threads that handle events: the read thread, and the application inside a
\* synchronous transfer.
Handles(t) ==
  \/ t = "thread" /\ thr \in {"events", "drain"}
  \/ t = "app" /\ At("sync")

\* A plausible bug: the links are counted once less than they are walked.
EnqueueOneMore(q, n) == IF Len(q) > QueueLimit + 2 THEN Append(Tail(q), n)
                                                  ELSE Append(q, n)

\* The list after read_callback has appended report n.  num_queued counts the
\* links walked to the old tail, so the list holds up to QueueLimit + 2.
Enqueue(q, n) ==
  LET num_queued == Len(q) - 1
  IN  IF q # <<>> /\ num_queued > QueueLimit THEN Append(Tail(q), n)
                                             ELSE Append(q, n)

\* read_callback up to its test of shutdown_thread.
CallbackStatus(t) ==
  /\ Handles(t) /\ os.cb = "none" /\ os.xfer \in Finished
  /\ \/ /\ os.xfer = "completed" /\ lock = "none"
        /\ queue' = Enqueue(queue, os.flight)
        /\ app' = IF queue = <<>> THEN Woken ELSE app
        /\ UNCHANGED dev
     \/ /\ os.xfer \in {"cancelled", "no_device"}
        /\ dev' = [dev EXCEPT !.shutdown_thread = TRUE]
        /\ UNCHANGED <<queue, app>>
     \/ /\ os.xfer \in {"timed_out", "failed"}
        /\ UNCHANGED <<queue, app, dev>>
  /\ os' = [os EXCEPT !.xfer = "none", !.flight = 0, !.cb = t]
  /\ UNCHANGED <<deviceVars, thr, lock, last, held>>

\* Who waits for events in libusb_handle_events returns after a callback.
EventsHandled == thr' = IF thr = "events" THEN "loop" ELSE thr

\* read_callback tests shutdown_thread: it finishes, or is about to submit the
\* transfer again, and hid_close may run before it does.
CallbackTest(t) ==
  /\ os.cb = t /\ ~os.resubmit
  /\ \/ /\ dev.shutdown_thread
        /\ dev' = [dev EXCEPT !.transfer_loop_finished = TRUE]
        /\ os' = [os EXCEPT !.cb = "none"]
        /\ EventsHandled
     \/ /\ ~dev.shutdown_thread
        /\ os' = [os EXCEPT !.resubmit = TRUE]
        /\ UNCHANGED <<dev, thr>>
  /\ UNCHANGED <<deviceVars, app, readVars, held>>

\* libusb_submit_transfer, which may fail; shutdown_thread is not looked at.
CallbackSubmits(t) ==
  /\ os.cb = t /\ os.resubmit
  /\ \/ /\ plugged
        /\ os' = [os EXCEPT !.cb = "none", !.resubmit = FALSE, !.xfer = "submitted"]
        /\ UNCHANGED dev
     \/ /\ dev' = [dev EXCEPT !.shutdown_thread = TRUE,
                              !.transfer_loop_finished = TRUE]
        /\ os' = [os EXCEPT !.cb = "none", !.resubmit = FALSE]
  /\ EventsHandled
  /\ UNCHANGED <<deviceVars, app, readVars, held>>

-----------------------------------------------------------------------------
(* Reading *)

\* hid_read_timeout takes the mutex.  hid_read waits for ever or not at all,
\* as hid_set_nonblocking said last.
hid_read_timeout ==
  /\ At("idle") /\ lock = "none"
  /\ lock' = "app"
  /\ \E w \in Waits : app' = [pc |-> "check", wait |-> w]
  /\ last' = NoResult
  /\ UNCHANGED <<deviceVars, dev, thr, os, queue, held>>

\* Under the mutex: a report, the end of the read thread, no wish to wait, or
\* into the wait.  The loops test the same after each wake-up.
ReadCheck ==
  /\ At("check")
  /\ \/ /\ queue # <<>>
        /\ Return(Data(Head(queue)))
        /\ queue' = Tail(queue)
        /\ lock' = "none"
     \/ /\ queue = <<>> /\ dev.shutdown_thread
        /\ Return(Error)
        /\ lock' = "none" /\ UNCHANGED queue
     \/ /\ queue = <<>> /\ ~dev.shutdown_thread
        /\ app.wait = "not_at_all"
        /\ Return(Nothing)
        /\ lock' = "none" /\ UNCHANGED queue
     \/ /\ queue = <<>> /\ ~dev.shutdown_thread
        /\ app.wait # "not_at_all"
        /\ Goto("sleep")
        /\ UNCHANGED <<queue, lock, last>>
  /\ UNCHANGED <<deviceVars, dev, thr, os, held>>

\* pthread_cond_wait: it gives the mutex up and waits in one step, and takes
\* the mutex again when it was woken, by a signal or for no reason.
CondWait ==
  /\ At("sleep")
  /\ Goto("wait") /\ lock' = "none"
  /\ UNCHANGED <<deviceVars, dev, thr, os, queue, held, last>>

SpuriousWakeup ==
  /\ At("wait") /\ Goto("woken")
  /\ UNCHANGED <<deviceVars, dev, thr, os, readVars, held>>

CondWoken ==
  /\ At("woken") /\ lock = "none"
  /\ Goto("check") /\ lock' = "app"
  /\ UNCHANGED <<deviceVars, dev, thr, os, queue, held, last>>

ReadTimesOut ==
  /\ At("wait") /\ app.wait = "a_while" /\ lock = "none"
  /\ Return(Nothing)
  /\ UNCHANGED <<deviceVars, dev, thr, os, lock, queue, held>>

-----------------------------------------------------------------------------
(* Synchronous transfers and closing *)

\* hid_write, the feature reports, GET_REPORT and the string requests wait in
\* libusb for a transfer of their own, with a timeout, and handle events.
SyncTransfer ==
  /\ At("idle") /\ Goto("sync") /\ last' = NoResult
  /\ UNCHANGED <<deviceVars, dev, thr, os, lock, queue, held>>

SyncTransferEnds ==
  /\ At("sync") /\ os.cb # "app" /\ Goto("idle")
  /\ UNCHANGED <<deviceVars, dev, thr, os, readVars, held>>

hid_close ==
  /\ At("idle")
  /\ dev' = [dev EXCEPT !.shutdown_thread = TRUE]
  /\ Goto("cancel") /\ last' = NoResult
  /\ UNCHANGED <<deviceVars, thr, os, lock, queue, held>>

CloseCancels ==
  /\ At("cancel")
  /\ libusb_cancel_transfer
  /\ Goto("join")
  /\ UNCHANGED <<deviceVars, dev, thr, readVars, held>>

\* A plausible bug: the interface is released without the driver being
\* attached again.
CloseForgetsDriver ==
  /\ At("join") /\ thr = "ended"
  /\ held' = held \ {"transfer", "interface", "handle", "dev"}
  /\ queue' = <<>> /\ thr' = "none" /\ dev' = NewDevice
  /\ Goto("out")
  /\ UNCHANGED <<deviceVars, os, lock, last>>

\* hid_close after hidapi_thread_join.
CloseFrees ==
  /\ At("join") /\ thr = "ended"
  /\ held' = held \ {"transfer", "interface", "handle", "dev"}
  /\ Reattach
  /\ queue' = <<>> /\ thr' = "none" /\ dev' = NewDevice
  /\ Goto("out")
  /\ UNCHANGED <<deviceVars, lock, last>>

-----------------------------------------------------------------------------
Unplug ==
  /\ plugged /\ plugged' = FALSE
  /\ UNCHANGED <<sent, app, dev, thr, os, readVars, held>>

Application ==
  \/ hid_open_path \/ hid_libusb_wrap_sys_device \/ hid_read_timeout \/ SyncTransfer \/ hid_close

\* Steps of a call that has begun, and of the read thread.
Opening == TryAltsetting \/ WrapSysDevice \/ WrapGetsConfig \/ WrapFindsInterface
           \/ DetachKernelDriver \/ ClaimInterface \/ OpenBarrier \/ Opened
Reading == ReadCheck \/ CondWait \/ CondWoken \/ SyncTransferEnds
Closing == CloseCancels \/ CloseFrees
Thread == \/ ThreadStart \/ ThreadBarrier \/ ThreadLoop \/ ThreadCancel
          \/ ThreadDrained \/ WakeReader \/ EventsReturn
          \/ CallbackStatus("thread") \/ CallbackTest("thread") \/ CallbackSubmits("thread")
Usb == TransferEnds("cancelled") \/ TransferEnds("timed_out")
       \/ TransferEnds("no_device")

Next ==
  \/ Application \/ Opening \/ Reading \/ Closing \/ Thread \/ Usb
  \/ CallbackStatus("app") \/ CallbackTest("app") \/ CallbackSubmits("app")
  \/ TransferEnds("failed") \/ ReportArrives \/ EventsFail
  \/ SpuriousWakeup \/ ReadTimesOut \/ Unplug

=============================================================================
