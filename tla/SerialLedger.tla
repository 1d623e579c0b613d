---------------------------- MODULE SerialLedger ----------------------------
(***************************************************************************)
(* What serial-number mode promises a factory, without sessions, requests  *)
(* or timers: a ledger of units and serial numbers that repeats neither,   *)
(* and units that hold what the ledger says from the day they are in it    *)
(* (README.md:16 to 18 of the tool).  MainWindow is shown to implement it. *)
(***************************************************************************)
EXTENDS Integers, Sequences

CONSTANTS
  Units,        \* the units of a production run
  Serials,      \* the serial numbers
  NoSerial      \* the content of a blank unit, no serial number

VARIABLES
  content,      \* content[u]: the serial number in unit u
  ledger        \* the successful writes, oldest first

ledgerVars == <<content, ledger>>

Entries == [mac : Units, serial : Serials]

LedgerTypeOK ==
  /\ content \in [Units -> Serials \cup {NoSerial}]
  /\ ledger \in Seq(Entries)

InLedger(u, s) == \E i \in 1 .. Len(ledger) : ledger[i].mac = u \/ ledger[i].serial = s

LedgerInit ==
  /\ content = [u \in Units |-> NoSerial]
  /\ ledger = << >>

\* A serial number reaches a unit.  Neither is in the ledger yet, but both may
\* have been through a burn that was never entered.
Burn(u, s) ==
  /\ ~InLedger(u, s)
  /\ content' = [content EXCEPT ![u] = s]
  /\ UNCHANGED ledger

\* The write is entered: neither the unit nor the number is there yet, and the
\* unit does hold the number.
Enter(u, s) ==
  /\ ~InLedger(u, s)
  /\ content[u] = s
  /\ ledger' = Append(ledger, [mac |-> u, serial |-> s])
  /\ UNCHANGED content

LedgerNext == \E u \in Units, s \in Serials : Burn(u, s) \/ Enter(u, s)

LedgerSpec == LedgerInit /\ [][LedgerNext]_ledgerVars
-----------------------------------------------------------------------------
\* No MAC and no serial number stands in the ledger twice.
LedgerUnique ==
  \A i, j \in 1 .. Len(ledger) :
    i < j => ledger[i].mac # ledger[j].mac /\ ledger[i].serial # ledger[j].serial

\* Every unit in the ledger holds the serial number entered for it.
LedgerTrue == \A i \in 1 .. Len(ledger) : content[ledger[i].mac] = ledger[i].serial
=============================================================================
