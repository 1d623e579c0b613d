--------------------------- MODULE SnModeSettings ---------------------------
(***************************************************************************)
(* The serial-number settings (src/src/ui/sn_mode_settings.cpp), their     *)
(* JSON file, and the widgets of the dialog that shows and changes them    *)
(* (src/src/ui/sn_mode_settings_dialog.cpp).  snStart and snWidth hold     *)
(* numbers here; texts that are none are the subject of MainWindow.        *)
(***************************************************************************)
EXTENDS SerialFormat

Parts == {"Plant", "Manufacturer", "Product", "Month", "Year"}

DefaultTemplate ==
  <<"0", "5", " ", "5", "A", " ", "0", "B", " ", "0", "0", " ",
    "0", "7", " ", "1", "C", " ", "0", "0", " ", "{SERIAL_ASCII}">>

\* The printer's fields, its template and snPollMs are words.
Defaults ==
  [snPrefix |-> <<"S", "P", "K">>, snStart |-> 1, snWidth |-> 8,
   snPollMs |-> "500", snTemplate |-> DefaultTemplate,
   use |-> [p \in Parts |-> TRUE],
   preventDuplicate |-> TRUE, enablePrint |-> FALSE,
   code |-> [p \in Parts |-> CASE p = "Plant" -> <<"H", "Z">>
                               [] p = "Manufacturer" -> <<"A">>
                               [] p = "Product" -> <<"0", "0", "1", "1">>
                               [] p = "Month" -> <<"A">>
                               [] p = "Year" -> <<"B">>],
   printerIp |-> "192.168.1.100", printerPort |-> "9100", printTemplate |-> "ZPL"]

-----------------------------------------------------------------------------
(* The file.  has: the settings it gives a value of the right type, as the *)
(* names of fields, and of parts for those of use and code.                *)

Keys == DOMAIN Defaults \ {"use", "code"}
UseKeys == {<<"use", p>> : p \in Parts}
CodeKeys == {<<"code", p>> : p \in Parts}
AllKeys == {<<"key", k>> : k \in Keys} \cup UseKeys \cup CodeKeys

\* No file, or one that holds no JSON object.
NoFile == [kind |-> "absent"]
JsonFile(s, has) == [kind |-> "object", has |-> has, values |-> s]

\* A mutant: a value of another type is taken all the same.
MergedAnyType(file) == file.values

\* What the fields of the file fall back to, one by one.
Merged(file) ==
  [k \in DOMAIN Defaults |->
     IF k \in {"use", "code"}
     THEN [p \in Parts |-> IF <<k, p>> \in file.has THEN file.values[k][p] ELSE Defaults[k][p]]
     ELSE IF <<"key", k>> \in file.has THEN file.values[k] ELSE Defaults[k]]

\* loadFromFile, and the constructor's defaults where it fails.
LoadFromFile(file) == IF file.kind = "object" THEN Merged(file) ELSE Defaults

\* saveToFile
Saved(s) == JsonFile(s, AllKeys)

-----------------------------------------------------------------------------
(* The dialog. *)

\* populateCombos; the first of each is in the comment.
Offered(p) ==
  CASE p = "Plant" -> {<<"H", "Z">>, <<"D", "G">>}                      \* HZ
    [] p = "Manufacturer" -> {<<"A">>, <<"H">>}                         \* A
    [] p = "Product" ->                                                 \* 0011
         {<<"0", "0", "1", d>> : d \in {"1", "2", "3", "4", "5"}}
         \cup {<<"0", "0", c, d>> : c \in {"2", "3", "4", "5"}, d \in {"1", "2"}}
    [] p = "Month" -> {<<HexDigits[d]>> : d \in 11 .. 16}               \* A
                      \cup {<<"G">>, <<"H">>, <<"I">>, <<"J">>}
    [] p = "Year" -> {<<HexDigits[d]>> : d \in 11 .. 16}                \* A
FirstItem(p) ==
  CASE p = "Plant" -> <<"H", "Z">> [] p = "Product" -> <<"0", "0", "1", "1">>
    [] p \in {"Manufacturer", "Month", "Year"} -> <<"A">>

\* A mutant: the combo boxes are left at their first items.
SelectFirst(p, c) == FirstItem(p)

\* selectComboData: a code that is not offered leaves the first item selected.
SelectComboData(p, c) == IF c \in Offered(p) THEN c ELSE FirstItem(p)

\* setSettings, and settings() of a dialog in which nothing was touched.
Shown(s) == [s EXCEPT !.code = [p \in Parts |-> SelectComboData(p, s.code[p])]]
=============================================================================
