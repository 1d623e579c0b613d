---------------------------- MODULE HidTransport ----------------------------
(***************************************************************************)
(* race::HidTransport (src/src/transport/hid_transport.cpp): the HID       *)
(* session.  device_ is the hidapi handle; pollTimer_ runs exactly while a *)
(* handle is held, so it needs no variable of its own.  The input report   *)
(* id that open() carries over its own close() is the subject of module    *)
(* HidSession and left out here.                                           *)
(***************************************************************************)
EXTENDS Dut

CONSTANTS
  Closed,       \* device_ == nullptr
  Stale         \* a handle whose unit has been pulled out: every call fails

ASSUME HandleAssumption == Closed \notin Units /\ Stale \notin Units /\ Closed # Stale

VARIABLE
  device        \* device_: the unit the handle reaches, Stale or Closed

HidTypeOK == device \in Units \cup {Closed, Stale}

IsOpen == device # Closed

\* pickDevicePath finds an interface exactly when a unit is on the fixture.
DeviceExists == plugged # NoUnit

\* open(): closes the old session first, so a failure leaves none.  The
\* handles open() may end with: hid_open_path can fail on a present device
\* ("open") when another process holds it.
OpenResults ==
  IF ~DeviceExists THEN {Closed}
  ELSE {plugged} \cup (IF "open" \in Faults THEN {Closed} ELSE {})

\* writeReport() on handle d succeeds: there is a handle, hid_write does not
\* return a negative count, and the firmware takes the report.
WriteSucceeds(d) == d \in Units /\ Len(cmdq) < QueueSize

\* A handle does not survive the unit it was opened on.
HandleAfterPull == IF device = Closed THEN Closed ELSE Stale
=============================================================================
