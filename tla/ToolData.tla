------------------------------ MODULE ToolData ------------------------------
(***************************************************************************)
(* The tool and its data across runs: where the data directory is, what is *)
(* in it, and what the window holds of it.  A write is one step here; how  *)
(* writes, clicks and ticks interleave is the subject of MainWindow.       *)
(***************************************************************************)
EXTENDS SnRecords, HidSession

CONSTANTS
  Macs,         \* addresses, as texts
  InitialFiles, \* settings files found at the first start, per directory
  Edits,        \* what the operator may change in the dialog, a sequence of
                \* [field, part, value]
  MaxDay,       \* BOUND
  MaxWork       \* BOUND: starts of the tool, writes, and twice the dialogs accepted

VARIABLES
  root,         \* the static root of appToolDataRoot, "unset" before its first call
  disk,         \* per directory: [settings, csv]
  snMode,       \* snMode_
  nextSerial,   \* nextSerial_
  preview,      \* snPreviewEdit_: the command shown
  day,          \* the date
  written,      \* the rows appended, in order, each with its file's name and its
                \* line there; not in the program
  kept,         \* per directory: the settings last saved; not in the program
  dialogs,      \* how often the dialog was accepted; not in the program
  work          \* what MaxWork bounds; not in the program

dataVars == <<root, disk, snMode, nextSerial, preview, day, written, kept, dialogs, work>>
vars == <<dataVars, sessionVars>>

\* The directory of the executable and AppLocalDataLocation.
Dirs == {"exe", "local"}
Running == root # "unset"
NoMac == <<"-">>

\* Where a file or an edit gives the number or the width a value of the right
\* type, it is a number; texts that are none are the subject of MainWindow.  A
\* prefix or a code is any text of characters that can be in a serial.
Gives(file, k) == file.kind = "object" /\ <<"key", k>> \in file.has
Texts == Seq(DOMAIN Code)

ASSUME ValuesAssumption ==
  /\ \A f \in 1 .. Len(InitialFiles), d \in Dirs :
       LET file == InitialFiles[f][d]
       IN  /\ Gives(file, "snStart") => file.values.snStart \in Nat
           /\ Gives(file, "snWidth") => file.values.snWidth \in Nat \ {0}
           /\ Gives(file, "snPrefix") => file.values.snPrefix \in Texts
           /\ \A p \in Parts : file.kind = "object" /\ <<"code", p>> \in file.has =>
                file.values.code[p] \in Texts
  /\ \A i \in DOMAIN Edits :
       /\ Edits[i].field = "snStart" => Edits[i].value \in Nat
       /\ Edits[i].field = "snWidth" => Edits[i].value \in Nat \ {0}
       /\ Edits[i].field \in {"snPrefix", "code"} => Edits[i].value \in Texts

\* readMacAddress: hexadecimal digits and colons.
ASSUME MacsAssumption ==
  \A mac \in Macs : mac \in Seq(Range(mac)) /\ ~Contains(mac, ",") /\ ~Contains(mac, " ")

NewFiles == [name \in {} |-> <<>>]

\* appToolDataRoot: the first directory the probe can write to, and the first
\* of all if there is none.
AppToolDataRoot(writable) ==
  IF "exe" \notin writable /\ "local" \in writable THEN "local" ELSE "exe"

\* validateSerialRange raises the counter to the start number.
Raised(s, n) == IF n < s.snStart THEN s.snStart ELSE n

\* updateSnModePreview: an empty text stands for any error it shows.
Preview(s, n) ==
  LET serial == BuildSerialString(s, n)
  IN  IF serial = NoText THEN <<>> ELSE BuildCmdFromTemplate(s.snTemplate, serial).bytes

Off == /\ root' = "unset" /\ snMode' = Defaults /\ nextSerial' = 0 /\ preview' = <<>>
       /\ edits' = DefaultEdits /\ cfg' = DefaultIds /\ srvCfg' = DefaultIds
       /\ pollId' = 0 /\ session' = FALSE /\ reread' = FALSE

Init ==
  /\ root = "unset" /\ snMode = Defaults /\ nextSerial = 0 /\ preview = <<>>
  /\ \E f \in 1 .. Len(InitialFiles) :
       disk = [d \in Dirs |-> [settings |-> InitialFiles[f][d], csv |-> NewFiles]]
  /\ day = 1 /\ written = <<>>
  /\ kept = [d \in Dirs |-> LoadFromFile(disk[d].settings)]
  /\ dialogs = 0 /\ work = 0
  /\ SessionInit

\* The constructor.  Which directories can be written may have changed, and a
\* settings file that is there may fail to open: the defaults are kept.
Start ==
  /\ ~Running /\ work < MaxWork /\ work' = work + 1
  /\ \E writable \in SUBSET Dirs : root' = AppToolDataRoot(writable)
  /\ \/ snMode' = LoadFromFile(disk[root'].settings)
     \/ snMode' = Defaults /\ dialogs > 0 /\ written = <<>>  \* bound
  /\ nextSerial' = snMode'.snStart
  /\ preview' = Preview(snMode', nextSerial')
  /\ UNCHANGED <<disk, day, written, kept, dialogs, sessionVars>>

\* The tool is closed or killed, between steps or while it appends to a file.
Stop ==
  /\ Running /\ Off
  /\ \/ UNCHANGED disk
     \/ disk' = [disk EXCEPT ![root].csv = AppendCutShort(@, day)]
  /\ UNCHANGED <<day, written, kept, dialogs, work>>

\* Bound: the tool runs and has a file for the day that ends.
Midnight ==
  /\ Running /\ day < MaxDay /\ day' = day + 1
  /\ disk[root].csv # NewFiles
  /\ UNCHANGED <<root, disk, snMode, nextSerial, preview, written, kept, dialogs, work,
                 sessionVars>>

-----------------------------------------------------------------------------
Edited(s, e) ==
  IF e.field \in {"use", "code"} THEN [s EXCEPT ![e.field][e.part] = e.value]
  ELSE [s EXCEPT ![e.field] = e.value]

\* A mutant: the file is written in place, and a failure leaves it broken.
SaveInPlace(s) ==
  \/ disk' = [disk EXCEPT ![root].settings = Saved(s)] /\ kept' = [kept EXCEPT ![root] = s]
  \/ disk' = [disk EXCEPT ![root].settings = NoFile] /\ UNCHANGED kept

\* saveToFile: QSaveFile replaces the file or leaves it.
SaveToFile(s) ==
  \/ disk' = [disk EXCEPT ![root].settings = Saved(s)] /\ kept' = [kept EXCEPT ![root] = s]
  \/ UNCHANGED <<disk, kept>>

\* A mutant: the preview is left as it is.
AcceptQuietly(s) ==
  /\ snMode' = s
  /\ SaveToFile(s)
  /\ nextSerial' = Raised(s, nextSerial)
  /\ UNCHANGED preview

\* onSnSettingsClicked after exec().
Accept(s) ==
  /\ snMode' = s
  /\ SaveToFile(s)
  /\ nextSerial' = Raised(s, nextSerial)
  /\ preview' = Preview(s, nextSerial')

\* The dialog is accepted with at most one thing changed.
OnSnSettingsClicked ==
  /\ Running /\ work + 2 <= MaxWork /\ work' = work + 2
  /\ edits = DefaultEdits  \* bound
  /\ \/ Accept(Shown(snMode))
     \/ \E i \in DOMAIN Edits : Accept(Edited(Shown(snMode), Edits[i]))
  /\ dialogs' = dialogs + 1
  /\ UNCHANGED <<root, day, written, sessionVars>>

-----------------------------------------------------------------------------
\* A row is appended, or the file cannot be opened.
Record(mac, serial, burn) ==
  LET files == AppendCsvRecord(disk[root].csv, day, Line(mac, serial, burn))
      name == CurrentCsvFile(disk[root].csv, day)
  IN
  \/ /\ disk' = [disk EXCEPT ![root].csv = files]
     /\ written' = Append(written, [dir |-> root, mac |-> mac, serial |-> serial, burn |-> burn,
                                    name |-> name, line |-> Len(files[name])])
  \/ UNCHANGED <<disk, written>>

Duplicate(mac, serial) ==
  snMode.preventDuplicate /\ IsDuplicateRecord(disk[root].csv, mac, serial)

\* writeCurrentSerialOnce for the unit with address mac; NoMac: no answer.
WriteCurrentSerialOnce(mac) ==
  LET n == Raised(snMode, nextSerial)
      serial == BuildSerialString(snMode, n)
      command == BuildCmdFromTemplate(snMode.snTemplate, serial)
      Count(k) == nextSerial' = k /\ preview' = IF k = n THEN preview ELSE Preview(snMode, k)
  IN
  \/ serial = NoText /\ Count(n) /\ UNCHANGED <<disk, written>>
  \/ serial # NoText /\ mac = NoMac /\ Record(mac, serial, "MAC_READ_FAIL") /\ Count(n)
  \/ /\ serial # NoText /\ mac # NoMac /\ Duplicate(mac, serial)
     /\ Record(mac, serial, "DUPLICATE_SKIP") /\ Count(n)
  \/ /\ serial # NoText /\ mac # NoMac /\ ~Duplicate(mac, serial)
     /\ \/ Record(mac, serial, "WRITE_FAIL") /\ Count(n)
        \/ command.ok /\ Record(mac, serial, "OK") /\ Count(n + 1)

\* The unit answers with the ids it has.
Answered == srvCfg' = DefaultIds /\ pollId' = DefaultIds.in

OnWriteNextSerialClicked ==
  /\ Running /\ work < MaxWork
  /\ BeginManualWrite
  /\ edits # DefaultEdits => UNCHANGED written  \* bound
  /\ IF FieldsValid /\ session'
     THEN \E mac \in {NoMac} \cup (IF Answered THEN Macs ELSE {}) : WriteCurrentSerialOnce(mac)
     ELSE UNCHANGED <<disk, written, nextSerial, preview>>
  /\ work' = IF UNCHANGED <<written, nextSerial>> THEN work ELSE work + 1
  /\ UNCHANGED <<root, snMode, day, kept, dialogs>>

\* Bound: the ids are changed right after the first start, with no data there, and
\* with VID and PID that are none only to two like ones.
Session ==
  /\ Running /\ work = 1 /\ day = 1
  /\ disk["exe"] = [settings |-> NoFile, csv |-> NewFiles] /\ root = "exe"
  /\ \/ EditFields /\ (edits'.device \/ edits'.out = edits'.in)
     \/ OnConnectClicked \/ OnDisconnectClicked \/ BeginTick
  /\ UNCHANGED dataVars

Next == Start \/ Stop \/ Midnight \/ OnSnSettingsClicked \/ OnWriteNextSerialClicked \/ Session

Spec == Init /\ [][Next]_vars

-----------------------------------------------------------------------------
(* Properties *)

Burns == {"MAC_READ_FAIL", "DUPLICATE_SKIP", "WRITE_FAIL", "OK"}

\* What was loaded from whatever file is a full set of settings, the counter is
\* not below the start number, and no number wider than its field is recorded.
TypeOK ==
  /\ root \in Dirs \cup {"unset"}
  /\ snMode.snWidth \in Nat \ {0}
  /\ \A k \in DOMAIN Defaults : k \in DOMAIN snMode
  /\ Running => nextSerial >= snMode.snStart
  /\ \A i \in 1 .. Len(written) :
       written[i].dir \in Dirs /\ written[i].burn \in Burns /\ written[i].serial # NoText
  /\ SessionTypeOK

\* Row a is read before row b: files are read in the order of their names.
Before(a, b) ==
  \/ a.name[1] < b.name[1]
  \/ a.name[1] = b.name[1] /\ a.name[2] < b.name[2]
  \/ a.name = b.name /\ a.line < b.line

\* README.md:82: the files of a data directory, read in the order of their names
\* as the duplicate search reads them, hold every row that was appended there,
\* once and in the order of the appends, through restarts, full files, midnight
\* and appends cut short; and but for the header nothing else.
HistoryInOrder ==
  \A d \in Dirs :
    LET files == disk[d].csv
        Rows == {i \in 1 .. Len(written) : written[i].dir = d}
        IsAt(r, name, k) == r.name = name /\ r.line = k
    IN  /\ \A i \in Rows :
             LET r == written[i]
             IN  /\ r.name \in DOMAIN files /\ r.line \in 1 .. Len(files[r.name])
                 /\ files[r.name][r.line] = Line(r.mac, r.serial, r.burn)
        /\ \A i, j \in Rows : i < j => Before(written[i], written[j])
        /\ \A name \in DOMAIN files : \A k \in 1 .. Len(files[name]) :
             \/ k = 1 /\ files[name][k] = Header
             \/ \E i \in Rows : IsAt(written[i], name, k)

\* s is r's serial as the search reads it back: a comma has become an underscore,
\* and spaces at the ends are gone.
SameInFile(r, s) ==
  LET read == Trimmed(r.serial)
  IN  /\ Len(read) = Len(s)
      /\ \A j \in DOMAIN s : read[j] = s[j] \/ (read[j] = "," /\ s[j] = "_")

NextText == BuildSerialString(snMode, Raised(snMode, nextSerial))
NewMac == <<"new">>

\* README.md:18: the duplicate search finds every unit with an OK row in this
\* data directory, and every such serial number unless it has a comma or a space
\* at an end; and it finds nothing else, so that a unit whose write failed can be
\* tried again.
SearchIsExact ==
  LET Old == {written[i] : i \in {j \in 1 .. Len(written) :
                                   written[j].dir = root /\ written[j].burn = "OK"}}
      Serials == {written[i].serial : i \in 1 .. Len(written)} \cup {NextText}
  IN  Running =>
        \A m \in Macs \cup {NewMac}, s \in Serials :
          LET found == IsDuplicateRecord(disk[root].csv, m, s)
              plain == ~Contains(s, ",") /\ Trimmed(s) = s
          IN  /\ \A r \in Old : r.mac = m \/ (r.serial = s /\ plain) => found
              /\ found => \E r \in Old : r.mac = m \/ SameInFile(r, s)

\* The settings file of a data directory always loads to the settings that were
\* last saved there, whatever saves have failed since.
SettingsSurvive == \A d \in Dirs : LoadFromFile(disk[d].settings) = kept[d]

\* OK in the dialog changes what the operator changed, one thing here, and
\* besides that only codes the dialog does not offer.
OkChangesWhatWasEdited ==
  [][dialogs' # dialogs =>
       LET Changed == {k \in DOMAIN Defaults \ {"use", "code"} : snMode'[k] # snMode[k]}
           Uses == {p \in Parts : snMode'.use[p] # snMode.use[p]}
           Codes == {p \in Parts : snMode.code[p] \in Offered(p)
                                   /\ snMode'.code[p] # snMode.code[p]}
       IN  Cardinality(Changed) + Cardinality(Uses) + Cardinality(Codes) <= 1]_vars

\* The preview shows the command that the next write will send: whatever
\* changes the settings or the counter refreshes it.
PreviewIsNext == Running => preview = Preview(snMode, Raised(snMode, nextSerial))

\* README.md:46: with the default template the command is the template's bytes
\* and then the serial's, whatever characters it has; and the length byte of the
\* template counts what follows it if the serial has 8 characters.
SerialInCommand ==
  Running /\ snMode.snTemplate = DefaultTemplate /\ NextText # NoText =>
    /\ preview = <<5, 90, 11, 0, 7, 28, 0>> \o [i \in DOMAIN NextText |-> Code[NextText[i]]]
    /\ Len(NextText) = 8 => preview[3] = Len(preview) - 4
=============================================================================
