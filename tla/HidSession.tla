----------------------------- MODULE HidSession -----------------------------
(***************************************************************************)
(* The report ids on their way from the edit fields of the window to the   *)
(* service, which packs and unpacks with them, and to the transport, which *)
(* polls with one (parseUsbConfig in src/src/ui/main_window.cpp and open,  *)
(* close, configureInputPolling in src/src/transport/hid_transport.cpp).   *)
(* Module HidTransport has the session itself and leaves the ids out.      *)
(***************************************************************************)
EXTENDS Integers

CONSTANT Typed  \* what the operator types into an id field, read as hex

ASSUME TypedAssumption == Typed \subseteq Nat /\ {6, 7} \subseteq Typed

NotHex == -1    \* a text that is no number: toUInt fails and gives 0

VARIABLES
  edits,    \* outReportEdit_ and inReportEdit_: [out, in], and whether what
            \* vidEdit_ and pidEdit_ hold are numbers: device
  cfg,      \* MainWindow's cfg_
  srvCfg,   \* RaceService's cfg_
  pollId,   \* pollInputReportId_, 0: pollRead uses hid_read
  session,  \* device_ # nullptr
  reread    \* the service has taken over new ids under an open session; not
            \* in the program

sessionVars == <<edits, cfg, srvCfg, pollId, session, reread>>

Fields == [out : Typed \cup {NotHex}, in : Typed \cup {NotHex}, device : BOOLEAN]
Ids == [out : 0 .. 255, in : 0 .. 255]

DefaultIds == [out |-> 6, in |-> 7]
DefaultEdits == [out |-> 6, in |-> 7, device |-> TRUE]

SessionTypeOK ==
  /\ edits \in Fields
  /\ cfg \in Ids /\ srvCfg \in Ids /\ pollId \in 0 .. 255
  /\ session \in BOOLEAN /\ reread \in BOOLEAN

SessionInit ==
  /\ edits = DefaultEdits
  /\ cfg = DefaultIds /\ srvCfg = DefaultIds
  /\ pollId = 0
  /\ session = FALSE /\ reread = FALSE

\* The cast to quint8, of 0 when the text is no number.
Parsed(t) == IF t = NotHex THEN 0 ELSE t % 256

FieldsValid == edits.out # NotHex /\ edits.in # NotHex /\ edits.device

\* A mutant: the service is given the ids before they are checked.
ParseBeforeCheck ==
  /\ cfg' = [out |-> Parsed(edits.out), in |-> Parsed(edits.in)]
  /\ srvCfg' = cfg'

\* parseUsbConfig: cfg_ is set whether the fields are valid or not, the
\* service's copy only if they are.
ParseUsbConfig ==
  /\ cfg' = [out |-> Parsed(edits.out), in |-> Parsed(edits.in)]
  /\ srvCfg' = IF FieldsValid THEN cfg' ELSE srvCfg

\* close(): the session ends and the poll id is cleared.
CloseSession == session' = FALSE /\ pollId' = 0 /\ reread' = FALSE

\* configureInputPolling, then open(), which closes the old session, takes the
\* poll id over its own close() and may fail.
ConfigureAndOpen ==
  /\ pollId' = cfg'.in
  /\ session' \in BOOLEAN
  /\ reread' = FALSE

-----------------------------------------------------------------------------
EditFields ==
  /\ edits' \in Fields
  /\ UNCHANGED <<cfg, srvCfg, pollId, session, reread>>

OnConnectClicked ==
  /\ ParseUsbConfig
  /\ IF FieldsValid THEN ConfigureAndOpen ELSE UNCHANGED <<pollId, session, reread>>
  /\ UNCHANGED edits

\* The end of a tick and onStopAutoSnClicked do the same.
OnDisconnectClicked == CloseSession /\ UNCHANGED <<edits, cfg, srvCfg>>

\* The session is left as it is, whatever ids the service has now.
KeepSession ==
  /\ reread' = (reread \/ (session /\ srvCfg'.in # srvCfg.in))
  /\ UNCHANGED <<pollId, session>>

\* onWriteNextSerialClicked up to the write.
BeginManualWrite ==
  /\ ParseUsbConfig
  /\ IF FieldsValid /\ ~session THEN ConfigureAndOpen ELSE KeepSession
  /\ UNCHANGED edits

\* onAutoSnTick up to the write: it stops auto mode, finds the fixture empty,
\* finds the unit written already, or opens the session anew.
BeginTick ==
  /\ ParseUsbConfig
  /\ \/ session /\ CloseSession
     \/ ~session /\ KeepSession
     \/ FieldsValid /\ (KeepSession \/ ConfigureAndOpen)
  /\ UNCHANGED edits

SessionNext ==
  EditFields \/ OnConnectClicked \/ OnDisconnectClicked \/ BeginManualWrite \/ BeginTick

SessionSpec == SessionInit /\ [][SessionNext]_sessionVars

-----------------------------------------------------------------------------
\* hid_transport.cpp:66: an open session polls with the input report id that
\* the service expects in what comes back.  Fields that do not parse, and that
\* cfg_ has taken over all the same, reach neither; only a write or a tick that
\* keeps the session can set the two apart.
SessionAgrees == session => reread \/ pollId = srvCfg.in
=============================================================================
