------------------------------- MODULE MacHid -------------------------------
(***************************************************************************)
(* hidapi on IOKit (src/hidapi/mac/hid.c): opening, the read thread with   *)
(* its run loop, the callbacks the run loop makes, reading, and the two    *)
(* barriers that keep the thread's run loop alive until hid_close no       *)
(* longer needs it.                                                        *)
(***************************************************************************)
EXTENDS HidApi

\* dev is [disconnected, shutdown_thread, barrier, shutdown_barrier], the last
\* two the counts of the barriers; thr is the position of read_thread; os is
\* [port: reports the run loop has still to deliver, registered: the callbacks
\* are, signalled: dev->source is, stopped: CFRunLoopStop was called,
\* modern: is_macos_10_10_or_greater].

NewDevice == [disconnected |-> FALSE, shutdown_thread |-> FALSE,
              barrier |-> 0, shutdown_barrier |-> 0]
IdleMac(modern) == [port |-> <<>>, registered |-> FALSE, signalled |-> FALSE,
                    stopped |-> FALSE, modern |-> modern]

TypeOK ==
  /\ dev \in [disconnected : BOOLEAN, shutdown_thread : BOOLEAN,
              barrier : 0..1, shutdown_barrier : 0..1]
  /\ thr \in {"none", "start", "at_barrier", "loop", "run", "wake",
             "shutdown_barrier", "at_shutdown_barrier", "ended"}
  /\ os \in [port : Seq(Reports), registered : BOOLEAN, signalled : BOOLEAN,
             stopped : BOOLEAN, modern : BOOLEAN]
  /\ lock \in {"none", "app"} /\ Len(queue) <= QueueLimit + 2

Init ==
  /\ sent = 0 /\ plugged = TRUE
  /\ app = [pc |-> "out", wait |-> "not_at_all"]
  /\ dev = NewDevice /\ thr = "none"
  /\ os \in {IdleMac(m) : m \in BOOLEAN}
  /\ lock = "none" /\ queue = <<>> /\ held = {} /\ last = NoResult

deviceVars == <<sent, plugged>>
readVars == <<lock, queue, last>>

\* A plausible bug, which the barrier of the libusb backend for Android has: a
\* wake-up for no reason lets the thread that waits pass.
AnyWakeup(count) == TRUE

\* pthread_barrier_wait, for the thread that came first: it loops until the
\* other has reset the count.
BarrierOpen(count) == count = 0

-----------------------------------------------------------------------------
(* Opening *)

hid_open_path ==
  /\ Closed
  /\ held' = held \cup {"dev"}
  /\ dev' = NewDevice
  /\ Goto("entry")
  /\ UNCHANGED <<deviceVars, thr, os, readVars>>

\* return_error
ReturnError == held' = held \ {"handle", "entry", "dev"} /\ Goto("out")

\* hid_open_service_registry_from_path, then IOHIDDeviceCreate.
FindEntry ==
  /\ At("entry")
  /\ \/ held' = held \cup {"entry"} /\ Goto("create")
     \/ ReturnError
  /\ UNCHANGED <<deviceVars, dev, thr, os, readVars>>

CreateDevice ==
  /\ At("create")
  /\ \/ held' = held \cup {"handle"} /\ Goto("open")
     \/ ReturnError
  /\ UNCHANGED <<deviceVars, dev, thr, os, readVars>>

\* IOHIDDeviceOpen, the callbacks and the read thread.
OpenDevice ==
  /\ At("open")
  /\ \/ /\ held' = held \cup {"opened"}
        /\ os' = [IdleMac(os.modern) EXCEPT !.registered = TRUE]
        /\ thr' = "start"
        /\ Goto("barrier")
     \/ ReturnError /\ UNCHANGED <<thr, os>>
  /\ UNCHANGED <<deviceVars, dev, readVars>>

OpenBarrier ==
  /\ At("barrier")
  /\ dev' = [dev EXCEPT !.barrier = Arrives(@)]
  /\ Goto("at_barrier")
  /\ UNCHANGED <<deviceVars, thr, os, readVars, held>>

Opened ==
  /\ At("at_barrier") /\ BarrierOpen(dev.barrier)
  /\ held' = held \ {"entry"}
  /\ Goto("idle")
  /\ UNCHANGED <<deviceVars, dev, thr, os, readVars>>

-----------------------------------------------------------------------------
(* The read thread and its run loop *)

\* read_thread up to the barrier: the run loop, and the source that stops it.
ThreadStart ==
  /\ thr = "start"
  /\ held' = held \cup {"source"}
  /\ dev' = [dev EXCEPT !.barrier = Arrives(@)]
  /\ thr' = "at_barrier"
  /\ UNCHANGED <<deviceVars, app, os, readVars>>

ThreadRuns ==
  /\ thr = "at_barrier" /\ BarrierOpen(dev.barrier)
  /\ thr' = "loop"
  /\ UNCHANGED <<deviceVars, app, dev, os, readVars, held>>

ThreadLoop ==
  /\ thr = "loop"
  /\ thr' = IF dev.shutdown_thread \/ dev.disconnected THEN "wake" ELSE "run"
  /\ UNCHANGED <<deviceVars, app, dev, os, readVars, held>>

\* A callback is due: the run loop makes it before it returns for the time.
CallbackDue == \/ os.registered /\ (os.port # <<>> \/ ~plugged)
               \/ os.signalled

\* CFRunLoopRunInMode returns: stopped, or after its 1000 s.
RunLoopReturns ==
  /\ thr = "run"
  /\ \/ /\ os.stopped
        /\ os' = [os EXCEPT !.stopped = FALSE]
        /\ dev' = [dev EXCEPT !.disconnected = TRUE]
        /\ thr' = "wake"
     \/ /\ ~os.stopped /\ ~CallbackDue
        /\ thr' = "loop"
        /\ UNCHANGED <<os, dev>>
  /\ UNCHANGED <<deviceVars, app, readVars, held>>

\* ... or with a code it does not know.
RunLoopFails ==
  /\ thr = "run"
  /\ dev' = [dev EXCEPT !.shutdown_thread = TRUE]
  /\ thr' = "wake"
  /\ UNCHANGED <<deviceVars, app, os, readVars, held>>

\* A plausible bug: the new report is put at the head of the list.
EnqueueFirst(q, n) == <<n>> \o q

\* The list after hid_report_callback has appended report n (see LibusbHid).
Enqueue(q, n) ==
  LET num_queued == Len(q) - 1
  IN  IF q # <<>> /\ num_queued > QueueLimit THEN Append(Tail(q), n)
                                             ELSE Append(q, n)

hid_report_callback ==
  /\ thr = "run" /\ ~os.stopped /\ os.registered /\ os.port # <<>>
  /\ lock = "none"
  /\ queue' = Enqueue(queue, Head(os.port))
  /\ os' = [os EXCEPT !.port = Tail(@)]
  /\ app' = Woken
  /\ UNCHANGED <<deviceVars, dev, thr, lock, held, last>>

hid_device_removal_callback ==
  /\ thr = "run" /\ ~os.stopped /\ os.registered /\ ~plugged
  /\ dev' = [dev EXCEPT !.disconnected = TRUE]
  /\ os' = [os EXCEPT !.stopped = TRUE]
  /\ UNCHANGED <<deviceVars, app, thr, readVars, held>>

perform_signal_callback ==
  /\ thr = "run" /\ ~os.stopped /\ os.signalled
  /\ os' = [os EXCEPT !.signalled = FALSE, !.stopped = TRUE]
  /\ UNCHANGED <<deviceVars, app, dev, thr, readVars, held>>

\* The broadcast at the end of read_thread, and the shutdown barrier.
WakeReader ==
  /\ thr = "wake" /\ lock = "none"
  /\ app' = Woken
  /\ thr' = "shutdown_barrier"
  /\ UNCHANGED <<deviceVars, dev, os, readVars, held>>

ThreadShutdownBarrier ==
  /\ thr = "shutdown_barrier"
  /\ dev' = [dev EXCEPT !.shutdown_barrier = Arrives(@)]
  /\ thr' = "at_shutdown_barrier"
  /\ UNCHANGED <<deviceVars, app, os, readVars, held>>

ThreadEnds ==
  /\ thr = "at_shutdown_barrier" /\ BarrierOpen(dev.shutdown_barrier)
  /\ thr' = "ended"
  /\ UNCHANGED <<deviceVars, app, dev, os, readVars, held>>

-----------------------------------------------------------------------------
(* Reading *)

hid_read_timeout ==
  /\ At("idle") /\ lock = "none"
  /\ lock' = "app"
  /\ \E w \in Waits : app' = [pc |-> "check", wait |-> w]
  /\ last' = NoResult
  /\ UNCHANGED <<deviceVars, dev, thr, os, queue, held>>

Ended == dev.disconnected \/ dev.shutdown_thread

ReadCheck ==
  /\ At("check")
  /\ \/ /\ queue # <<>>
        /\ Return(Data(Head(queue)))
        /\ queue' = Tail(queue)
        /\ lock' = "none"
     \/ /\ queue = <<>> /\ Ended
        /\ Return(Error)
        /\ lock' = "none" /\ UNCHANGED queue
     \/ /\ queue = <<>> /\ ~Ended /\ app.wait = "not_at_all"
        /\ Return(Nothing)
        /\ lock' = "none" /\ UNCHANGED queue
     \/ /\ queue = <<>> /\ ~Ended /\ app.wait # "not_at_all"
        /\ Goto("sleep")
        /\ UNCHANGED <<queue, lock, last>>
  /\ UNCHANGED <<deviceVars, dev, thr, os, held>>

\* cond_wait and cond_timedwait: after a wake-up the end of the read thread is
\* looked at first, the list only then.
CondWait ==
  /\ At("sleep")
  /\ Goto("wait") /\ lock' = "none"
  /\ UNCHANGED <<deviceVars, dev, thr, os, queue, held, last>>

SpuriousWakeup ==
  /\ At("wait") /\ Goto("woken")
  /\ UNCHANGED <<deviceVars, dev, thr, os, readVars, held>>

CondWoken ==
  /\ At("woken") /\ lock = "none"
  /\ \/ /\ Ended
        /\ Return(Error)
        /\ UNCHANGED <<queue, lock>>
     \/ /\ ~Ended /\ queue # <<>>
        /\ Return(Data(Head(queue)))
        /\ queue' = Tail(queue) /\ UNCHANGED lock
     \/ /\ ~Ended /\ queue = <<>>
        /\ Goto("sleep") /\ lock' = "app"
        /\ UNCHANGED <<queue, last>>
  /\ UNCHANGED <<deviceVars, dev, thr, os, held>>

ReadTimesOut ==
  /\ At("wait") /\ app.wait = "a_while" /\ lock = "none"
  /\ Return(Nothing)
  /\ UNCHANGED <<deviceVars, dev, thr, os, lock, queue, held>>

-----------------------------------------------------------------------------
(* Closing *)

\* hid_close: the callbacks are taken back and the device leaves the run loop
\* of the read thread.
hid_close ==
  /\ At("idle")
  /\ os' = IF os.modern \/ ~dev.disconnected
           THEN [os EXCEPT !.registered = FALSE, !.port = <<>>] ELSE os
  /\ Goto("shutdown") /\ last' = NoResult
  /\ UNCHANGED <<deviceVars, dev, thr, lock, queue, held>>

CloseFlags ==
  /\ At("shutdown")
  /\ dev' = [dev EXCEPT !.shutdown_thread = TRUE]
  /\ Goto("signal")
  /\ UNCHANGED <<deviceVars, thr, os, readVars, held>>

\* CFRunLoopSourceSignal and CFRunLoopWakeUp need the thread's run loop.
CloseSignals ==
  /\ At("signal")
  /\ os' = [os EXCEPT !.signalled = TRUE]
  /\ Goto("close_barrier")
  /\ UNCHANGED <<deviceVars, dev, thr, readVars, held>>

CloseBarrier ==
  /\ At("close_barrier")
  /\ dev' = [dev EXCEPT !.shutdown_barrier = Arrives(@)]
  /\ Goto("at_close_barrier")
  /\ UNCHANGED <<deviceVars, thr, os, readVars, held>>

\* hid_close after its barrier and pthread_join.
CloseFrees ==
  /\ At("at_close_barrier") /\ BarrierOpen(dev.shutdown_barrier)
  /\ thr = "ended"
  /\ held' = held \ ({"handle", "source", "dev"}
                     \cup (IF os.modern \/ ~dev.disconnected
                           THEN {"opened"} ELSE {}))
  /\ queue' = <<>> /\ thr' = "none" /\ dev' = NewDevice
  /\ os' = IdleMac(os.modern)
  /\ Goto("out")
  /\ UNCHANGED <<deviceVars, lock, last>>

-----------------------------------------------------------------------------
ReportArrives ==
  /\ plugged /\ sent < MaxReports
  /\ sent' = sent + 1
  /\ os' = IF os.registered THEN [os EXCEPT !.port = Append(@, sent + 1)] ELSE os
  /\ UNCHANGED <<plugged, app, dev, thr, readVars, held>>

Unplug ==
  /\ plugged /\ plugged' = FALSE
  /\ UNCHANGED <<sent, app, dev, thr, os, readVars, held>>

Application == hid_open_path \/ hid_read_timeout \/ hid_close
Opening == FindEntry \/ CreateDevice \/ OpenDevice \/ OpenBarrier \/ Opened
Reading == ReadCheck \/ CondWait \/ CondWoken
Closing == CloseFlags \/ CloseSignals \/ CloseBarrier \/ CloseFrees
Thread == \/ ThreadStart \/ ThreadRuns \/ ThreadLoop \/ RunLoopReturns
          \/ ThreadShutdownBarrier \/ ThreadEnds
Callbacks == \/ hid_report_callback \/ hid_device_removal_callback
             \/ perform_signal_callback

Next ==
  \/ Application \/ Opening \/ Reading \/ Closing \/ Thread \/ Callbacks
  \/ WakeReader \/ RunLoopFails \/ ReportArrives \/ SpuriousWakeup \/ ReadTimesOut \/ Unplug

=============================================================================
