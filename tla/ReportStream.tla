---------------------------- MODULE ReportStream ----------------------------
(***************************************************************************)
(* What every backend of hidapi promises of input reports, without its     *)
(* threads, lists and kernel buffers: on each channel (a report id where   *)
(* the system has a descriptor for each, else one for the device) reports  *)
(* are read in the order they were sent, none is read twice, and one is    *)
(* lost only when more than Capacity wait or when no session is open.      *)
(***************************************************************************)
EXTENDS Naturals, Sequences

CONSTANTS Channels, Capacity

VARIABLES sent,     \* number of the last report the device has sent
          inUse,    \* a session is open: between the open and the close call
          waiting,  \* per channel: reports that can still be read
          last      \* what the last hid_read returned: [res, report]

streamVars == <<sent, inUse, waiting, last>>

Without(s, i) == SubSeq(s, 1, i - 1) \o SubSeq(s, i + 1, Len(s))
NoneWaits == [c \in Channels |-> <<>>]

Init ==
  /\ sent = 0 /\ inUse = FALSE /\ waiting = NoneWaits
  /\ last = [res |-> "none", report |-> 0]

\* The device sends a report; with Capacity waiting one may be lost for it.
Arrive(c) ==
  LET all == Append(waiting[c], sent + 1) IN
  /\ sent' = sent + 1
  /\ \/ waiting' = [waiting EXCEPT ![c] = all]
     \/ /\ ~inUse \/ Len(waiting[c]) >= Capacity
        /\ \E i \in 1..Len(all) : waiting' = [waiting EXCEPT ![c] = Without(all, i)]
  /\ UNCHANGED <<inUse, last>>

\* A backend that puts reports from one buffer into the next may find the
\* second one full.
Drop(c) ==
  /\ Len(waiting[c]) > Capacity
  /\ \E i \in 1..Len(waiting[c]) : waiting' = [waiting EXCEPT ![c] = Without(@, i)]
  /\ UNCHANGED <<sent, inUse, last>>

\* hid_read returns a report.
Give(c) ==
  /\ inUse /\ waiting[c] # <<>>
  /\ last' = [res |-> "data", report |-> Head(waiting[c])]
  /\ waiting' = [waiting EXCEPT ![c] = Tail(@)]
  /\ UNCHANGED <<sent, inUse>>

\* Any other call begins or returns.
Answer ==
  /\ inUse /\ last'.res # "data"
  /\ UNCHANGED <<sent, inUse, waiting>>

\* Opening and closing; the end of what waits, or all of it, may be given up.
OpenOrClose ==
  /\ ~inUse \/ ~inUse'
  /\ \A c \in Channels : \E k \in 0..Len(waiting[c]) :
       waiting'[c] = SubSeq(waiting[c], 1, k)
  /\ last'.res # "data" \/ UNCHANGED last
  /\ UNCHANGED sent

Next ==
  \/ \E c \in Channels : Arrive(c) \/ Drop(c) \/ Give(c)
  \/ Answer \/ OpenOrClose

Spec == Init /\ [][Next]_streamVars
=============================================================================
