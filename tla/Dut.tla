-------------------------------- MODULE Dut --------------------------------
(***************************************************************************)
(* The device under test on the USB fixture: a speaker whose firmware      *)
(* answers RACE commands.  The firmware is not part of the repository; it  *)
(* is modelled from what src/src relies on.  A command reaches it in one   *)
(* OUT report, it works the commands off in order, and its answers wait in *)
(* the device until the host fetches them one GET_REPORT at a time         *)
(* (transport/hid_transport.h:25).  Nothing in the answer names the        *)
(* request it belongs to, except the RACE id that the two share.           *)
(***************************************************************************)
EXTENDS Integers, Sequences

CONSTANTS
  Units,        \* the units of a production run; a unit is named by its MAC
  NoUnit,       \* "no unit": an empty fixture, a MAC not read yet
  Serials,      \* the serial-number strings the tool can build
  NoSerial,     \* "no serial": a blank flash, a frame that builds none
  NoPacket,     \* "no answer yet": an empty responsePayload
  QueueSize,    \* BOUND: commands, and answers, that the firmware buffers
  Faults        \* the misbehaviours of the environment a run allows

ASSUME DutAssumption ==
  /\ NoUnit \notin Units
  /\ NoSerial \notin Serials
  /\ QueueSize \in Nat \ {0}

\* RACE ids: 0x0CD5 reads the MAC, 0x1C07 (the default template) writes the
\* serial, OTHER is whatever the operator sends by hand in normal mode.
RaceIds == {"MAC", "SN", "OTHER"}

Commands == [id : RaceIds, serial : Serials \cup {NoSerial}]

MacCmd   == [id |-> "MAC", serial |-> NoSerial]
SnCmd(s) == [id |-> "SN", serial |-> s]
OtherCmd == [id |-> "OTHER", serial |-> NoSerial]

\* An answer, as far as the host looks into it: the type byte (0x5B for a
\* response, 0x5D for a notification), the id, whether status is 0x00, and the
\* unit whose address a MAC answer carries.
Packets == [type : {"5B", "5D"}, id : RaceIds, ok : BOOLEAN, mac : Units]

ASSUME NoPacketAssumption == NoPacket \notin Packets

VARIABLES
  plugged,      \* the unit on the fixture, or NoUnit
  flash,        \* flash[u]: the serial number stored in unit u
  cmdq,         \* commands the plugged unit has received and not yet run
  respq         \* answers the plugged unit holds for the host

dutVars == <<plugged, flash, cmdq, respq>>

DutTypeOK ==
  /\ plugged \in Units \cup {NoUnit}
  /\ flash \in [Units -> Serials \cup {NoSerial}]
  /\ cmdq \in Seq(Commands)
  /\ respq \in Seq(Packets)

DutInit ==
  /\ plugged = NoUnit
  /\ flash = [u \in Units |-> NoSerial]
  /\ cmdq = << >>
  /\ respq = << >>

\* A powered-up unit starts with empty buffers; unplugging it loses them.
PlugIn(u) ==
  /\ plugged = NoUnit
  /\ plugged' = u
  /\ UNCHANGED <<flash, cmdq, respq>>

PullOut ==
  /\ plugged # NoUnit
  /\ plugged' = NoUnit
  /\ cmdq' = << >>
  /\ respq' = << >>
  /\ UNCHANGED flash

Answer(cmd, status) ==
  [type |-> "5B", id |-> cmd.id, ok |-> status, mac |-> plugged]

\* The firmware runs its oldest command.  A serial write may be refused with a
\* non-zero status ("reject"), and an answer may never become fetchable ("drop").
RunCommand ==
  /\ cmdq # << >>
  /\ Len(respq) < QueueSize
  /\ cmdq' = Tail(cmdq)
  /\ \E status \in {TRUE} \cup (IF "reject" \in Faults THEN {FALSE} ELSE {}) :
       /\ flash' = IF Head(cmdq).id = "SN" /\ status
                   THEN [flash EXCEPT ![plugged] = Head(cmdq).serial]
                   ELSE flash
       /\ \/ respq' = Append(respq, Answer(Head(cmdq), status))
          \/ "drop" \in Faults /\ respq' = respq
  /\ UNCHANGED plugged

\* The firmware reports something of its own accord.
Notify ==
  /\ "notify" \in Faults
  /\ plugged # NoUnit
  /\ Len(respq) < QueueSize
  /\ respq' = Append(respq, [type |-> "5D", id |-> "OTHER", ok |-> TRUE, mac |-> plugged])
  /\ UNCHANGED <<plugged, flash, cmdq>>
=============================================================================
