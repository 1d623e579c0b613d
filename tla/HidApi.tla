------------------------------- MODULE HidApi -------------------------------
(***************************************************************************)
(* What the backends of the vendored hidapi have in common: one device     *)
(* that sends numbered input reports, one application thread that opens    *)
(* it, calls into the library and closes it, and (where the backend has    *)
(* one) a read thread.  Each backend gives dev (the fields of hid_device), *)
(* thr (the read thread) and os (what the operating system holds for the   *)
(* process) its own fields.                                                *)
(***************************************************************************)
EXTENDS Naturals, Sequences

CONSTANTS MaxReports,  \* bound: input reports the device sends
          QueueLimit   \* 30 in the backends that keep a list of input reports

ASSUME HidApiAssumption == MaxReports \in Nat /\ QueueLimit \in Nat

VARIABLES sent,     \* number of the last input report the device has sent
          plugged,  \* the device is on the bus
          app,      \* the application thread: [pc, wait], wait as in Waits
          dev, thr, os,
          lock,     \* who holds dev->mutex
          queue,    \* dev->input_reports
          held,     \* what is allocated, open or claimed
          last      \* what the last hid_read returned: [res, report]

hidVars == <<sent, plugged, app, dev, thr, os, lock, queue, held, last>>

\* How long hid_read_timeout may wait: -1, a number of milliseconds, 0.
Waits == {"forever", "a_while", "not_at_all"}
Reports == 1..MaxReports
Results == [res : {"none", "data", "nothing", "error", "written"}, report : Nat]
NoResult == [res |-> "none", report |-> 0]
Nothing == [res |-> "nothing", report |-> 0]
Error == [res |-> "error", report |-> 0]
Data(n) == [res |-> "data", report |-> n]

At(pc) == app.pc = pc
Goto(pc) == app' = [app EXCEPT !.pc = pc]
Idle == [pc |-> "idle", wait |-> "not_at_all"]
Return(r) == app' = Idle /\ last' = r
Closed == At("out")

\* The count of a barrier of two after pthread_barrier_wait was entered: the
\* second to arrive sets it back to 0, and both pass.
Arrives(count) == (count + 1) % 2

\* pthread_cond_signal and pthread_cond_broadcast: one thread at most waits.
Woken == IF At("wait") THEN [app EXCEPT !.pc = "woken"] ELSE app
=============================================================================
