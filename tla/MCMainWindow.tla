---------------------------- MODULE MCMainWindow ----------------------------
(***************************************************************************)
(* MainWindow on small instances: values for its constants.                *)
(***************************************************************************)
EXTENDS MainWindow

\* Two formats, and serial numbers of one short digit range.
MCFormats == {"SPK", "ALT"}
MCSerials == [fmt : MCFormats, num : 1 .. 3]

SetOf(fmt, start, dup, print) ==
  [fmt |-> fmt, start |-> start, limit |-> 3, validStart |-> TRUE, validWidth |-> TRUE,
   validPoll |-> TRUE, preventDuplicate |-> dup, enablePrint |-> print]

\* The defaults.
Plain == {SetOf("SPK", 1, TRUE, FALSE)}

\* With the label printer, and so few numbers that the width runs out after two
\* units; or with duplicates allowed.
Production == {SetOf("SPK", 2, TRUE, TRUE), SetOf("SPK", 1, FALSE, FALSE)}

\* What the dialog may be closed with: another format and start number, a
\* start that is no number, a width that is none, a poll interval below 100.
Edited ==
  {SetOf("SPK", 1, TRUE, FALSE), SetOf("ALT", 2, TRUE, FALSE),
   [SetOf("SPK", 1, TRUE, FALSE) EXCEPT !.validStart = FALSE],
   [SetOf("SPK", 1, TRUE, FALSE) EXCEPT !.validWidth = FALSE, !.validPoll = FALSE]}
=============================================================================
