------------------------------ MODULE SnRecords ------------------------------
(***************************************************************************)
(* The CSV history of one data directory as text: which file a row goes    *)
(* to, what is written, and what the duplicate search reads back           *)
(* (currentCsvFilePath, appendCsvRecord and isDuplicateRecord in           *)
(* src/src/ui/main_window.cpp).  files maps the files there are, named by  *)
(* day and index, to their lines; the names sort as these pairs do.        *)
(***************************************************************************)
EXTENDS SnModeSettings

CONSTANTS FileLimit,  \* lines that make 5 MB
          LastIndex   \* 999

ASSUME RecordsAssumption == FileLimit \in Nat \ {0} /\ LastIndex \in Nat \ {0}

Header == <<"timestamp", ",", "mac", ",", "serial_number", ",",
            "burn_result", ",", "print_result">>
HeaderStart == SubSeq(Header, 1, 5)

Full(files, name) == name \in DOMAIN files /\ Len(files[name]) >= FileLimit

\* A mutant: a file may be filled once more when it is full.
FileAfterFull(files, day) ==
  LET free == {i \in 1 .. LastIndex : ~Full(files, <<day, i>>)}
  IN  <<day, IF free = {} THEN 1 ELSE Min(free)>>

\* currentCsvFilePath: the first file of the day that is not full, or else the
\* last, however long it is.
CurrentCsvFile(files, day) ==
  LET free == {i \in 1 .. LastIndex : ~Full(files, <<day, i>>)}
  IN  <<day, IF free = {} THEN LastIndex ELSE Min(free)>>

\* A mutant: commas are written as they are.
Unchanged(text) == text

\* A comma would be one column more.
Safe(text) == [i \in DOMAIN text |-> IF text[i] = "," THEN "_" ELSE text[i]]

Line(mac, serial, burn) ==
  <<"stamp", ",">> \o Safe(mac) \o <<",">> \o Safe(serial) \o <<",", burn, ",", "NOT_RUN">>

\* One file with these lines, the others as they were.
Put(files, name, lines) ==
  [n \in DOMAIN files \cup {name} |-> IF n = name THEN lines ELSE files[n]]

\* appendCsvRecord: a new file begins with the header.
AppendCsvRecord(files, day, line) ==
  LET name == CurrentCsvFile(files, day)
      lines == IF name \in DOMAIN files THEN files[name] ELSE <<Header>>
  IN  Put(files, name, Append(lines, line))

\* The tool is killed in appendCsvRecord before the text is flushed: a file
\* that was not there is there and empty.
AppendCutShort(files, day) ==
  LET name == CurrentCsvFile(files, day)
  IN  IF name \in DOMAIN files THEN files ELSE Put(files, name, <<>>)

\* QString::split at commas, from the beginning on.
Split(line) ==
  LET split[i \in 0 .. Len(line)] ==
        IF i = 0 THEN <<NoText>>
        ELSE IF line[i] = "," THEN Append(split[i - 1], NoText)
        ELSE LET before == split[i - 1] IN Extended(before, line[i])
  IN  split[Len(line)]

\* Each column trimmed.
Columns(line) == LET cols == Split(line) IN [k \in DOMAIN cols |-> Trimmed(cols[k])]

\* The tool writes addresses in capitals, so comparing without regard to case
\* is comparing.
Matches(line, mac, serial) ==
  LET cols == Columns(line)
  IN  Len(cols) >= 5 /\ cols[4] = <<"OK">> /\ (cols[2] = mac \/ cols[3] = serial)

\* isDuplicateRecord over files that can all be read.
IsDuplicateRecord(files, mac, serial) ==
  \E name \in DOMAIN files : \E i \in DOMAIN files[name] :
    /\ ~(i = 1 /\ IsPrefix(HeaderStart, files[name][1]))
    /\ Matches(files[name][i], mac, serial)
=============================================================================
