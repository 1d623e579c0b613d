----------------------------- MODULE RaceService -----------------------------
(***************************************************************************)
(* race::RaceService (src/src/service/race_service.cpp) on the call stack  *)
(* of the one GUI thread.                                                  *)
(*                                                                         *)
(* requestResponse sends a command and then runs a QEventLoop of its own   *)
(* until an answer or a timer quits it.  That loop dispatches everything:  *)
(* clicks, the auto-write timer, the poll timer.  A slot that is called    *)
(* from it may start a request too, so requests nest, and an outer one     *)
(* cannot return before the inner ones have.  frame[1 .. depth] are the    *)
(* slots in progress, outermost first; only frame[depth] executes.         *)
(***************************************************************************)
EXTENDS HidTransport

CONSTANTS
  Settings,     \* the contents the settings dialog can be accepted with
  NoSettings,   \* "no settings": the dialog is open, or was cancelled
  MaxDepth      \* BOUND: slots that may be in progress at once

ASSUME StackAssumption == MaxDepth \in Nat \ {0} /\ NoSettings \notin Settings

Kinds == {"none", "tick", "manual", "dialog"}

\* Where a slot in progress stands.  "macWait" and "writeWait" are the two
\* event loops of a serial write, "exec" is that of the settings dialog;
\* "print" and "commit" follow an accepted write without an event loop.
Pcs == {"idle", "macWait", "writeWait", "print", "commit", "exec"}

Frames ==
  [kind    : Kinds,
   pc      : Pcs,
   live    : BOOLEAN,                     \* a tick of the timer now running
   serial  : Serials \cup {NoSerial},     \* the local variable serial
   mac     : Units \cup {NoUnit},         \* the local variable mac
   guarded : BOOLEAN,                     \* the history was searched first
   resp    : Packets \cup {NoPacket},     \* responsePayload
   quit    : BOOLEAN,                     \* loop.quit() has been called
   choice  : Settings \cup {NoSettings}]  \* what the dialog was closed with

NoFrame ==
  [kind |-> "none", pc |-> "idle", live |-> FALSE, serial |-> NoSerial,
   mac |-> NoUnit, guarded |-> FALSE, resp |-> NoPacket, quit |-> FALSE,
   choice |-> NoSettings]

VARIABLES
  depth,        \* the number of slots in progress
  frame         \* frame[i], i \in 1 .. depth; NoFrame above depth

loopVars == <<depth, frame>>

LoopTypeOK ==
  /\ depth \in 0 .. MaxDepth
  /\ frame \in [1 .. MaxDepth -> Frames]

LoopInit ==
  /\ depth = 0
  /\ frame = [i \in 1 .. MaxDepth |-> NoFrame]

Waiting == {"macWait", "writeWait"}

\* Events are dispatched: by app.exec() when no slot is in progress, by the
\* innermost slot's loop otherwise, until that loop has been told to quit.
EventLoopRuns ==
  depth > 0 => frame[depth].pc \in Waiting \cup {"exec"} /\ ~frame[depth].quit

Call(f) ==
  /\ depth < MaxDepth
  /\ depth' = depth + 1
  /\ frame' = [frame EXCEPT ![depth + 1] = f]

Continue(f) ==
  /\ frame' = [frame EXCEPT ![depth] = f]
  /\ UNCHANGED depth

Leave ==
  /\ depth' = depth - 1
  /\ frame' = [frame EXCEPT ![depth] = NoFrame]

\* racePacketReceived(p) reaches the lambda of every loop still connected: not
\* only the innermost request's, and also one that has been told to quit.
Deliver(p) ==
  /\ frame' = [i \in 1 .. MaxDepth |->
                 IF i <= depth /\ frame[i].pc \in Waiting
                 THEN [frame[i] EXCEPT !.resp = p, !.quit = TRUE]
                 ELSE frame[i]]
  /\ UNCHANGED depth

\* pollRead, every 20 ms while a session is open: fetch the oldest answer and
\* hand it to onHidReportReceived.  With no request waiting it is only logged.
\* A poll that finds nothing, or fails, changes no state.
PollRead ==
  /\ EventLoopRuns
  /\ device \in Units
  /\ respq # << >>
  /\ Deliver(Head(respq))
  /\ respq' = Tail(respq)
  /\ UNCHANGED <<plugged, flash, cmdq, device>>

\* An answer to request i can still come.
AnswerComing == device \in Units /\ (cmdq # << >> \/ respq # << >>)

\* A mutant: the timer is never started.
NoTimeout(i) == FALSE

\* The single-shot timer of request i fires, whichever loop dispatches it.
\* Without "late" the firmware always answers within the 1.5 or 2 seconds.
RequestTimeout(i) ==
  /\ EventLoopRuns
  /\ i <= depth
  /\ frame[i].pc \in Waiting
  /\ ~frame[i].quit
  /\ "late" \in Faults \/ ~AnswerComing
  /\ frame' = [frame EXCEPT ![i].quit = TRUE]
  /\ UNCHANGED depth
=============================================================================
