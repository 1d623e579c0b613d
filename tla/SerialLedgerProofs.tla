------------------------- MODULE SerialLedgerProofs -------------------------
(***************************************************************************)
(* What an implementation of SerialLedger inherits from it: the history    *)
(* repeats nothing and is true of the units.                               *)
(***************************************************************************)
EXTENDS SerialLedger, SequenceTheorems, TLAPS

\* LedgerTrue alone is not inductive over Burn: the guard of Burn speaks of the
\* whole ledger, so all three parts are carried together.
LedgerInv == LedgerTypeOK /\ LedgerUnique /\ LedgerTrue

LEMMA LedgerInitial == LedgerInit => LedgerInv
BY DEF LedgerInit, LedgerInv, LedgerTypeOK, LedgerUnique, LedgerTrue

\* A burn spares every unit in the ledger.
LEMMA BurnLemma ==
  ASSUME LedgerInv, NEW u \in Units, NEW s \in Serials, Burn(u, s)
  PROVE  LedgerInv'
PROOF
<1>1. content' \in [Units -> Serials \cup {NoSerial}] /\ UNCHANGED ledger
  BY DEF Burn, LedgerInv, LedgerTypeOK
<1>2. \A i \in 1 .. Len(ledger) : ledger[i].mac # u /\ ledger[i].mac \in Units
  <2>1. ledger \in Seq(Entries) /\ Len(ledger) \in Nat
    BY DEF LedgerInv, LedgerTypeOK
  <2>2. \A i \in 1 .. Len(ledger) : ledger[i] \in Entries
    BY <2>1
  <2>3. \A i \in 1 .. Len(ledger) : ledger[i].mac # u
    BY DEF Burn, InLedger
  <2> QED
    BY <2>2, <2>3 DEF Entries
<1>3. \A i \in 1 .. Len(ledger) : content'[ledger[i].mac] = content[ledger[i].mac]
  BY <1>2 DEF Burn, LedgerInv, LedgerTypeOK
<1> QED
  BY <1>1, <1>3 DEF LedgerInv, LedgerTypeOK, LedgerUnique, LedgerTrue

\* An entry is new in both parts, and true of its unit.
LEMMA EnterLemma ==
  ASSUME LedgerInv, NEW u \in Units, NEW s \in Serials, Enter(u, s)
  PROVE  LedgerInv'
PROOF
<1> DEFINE e == [mac |-> u, serial |-> s]
<1>1. ledger \in Seq(Entries) /\ Len(ledger) \in Nat /\ e \in Entries
  BY DEF LedgerInv, LedgerTypeOK, Entries
<1>2. ledger' = Append(ledger, e) /\ UNCHANGED content
  BY DEF Enter
<1>3. e.mac = u /\ e.serial = s
  OBVIOUS
<1> HIDE DEF e
<1>4. /\ Len(ledger') = Len(ledger) + 1
      /\ ledger'[Len(ledger) + 1] = e
      /\ \A i \in 1 .. Len(ledger) : ledger'[i] = ledger[i]
  BY <1>1, <1>2
<1>5. \A i \in 1 .. Len(ledger) : ledger[i].mac # u /\ ledger[i].serial # s
  BY DEF Enter, InLedger
<1>6. LedgerTypeOK'
  BY <1>1, <1>2 DEF LedgerInv, LedgerTypeOK
<1>7. LedgerUnique'
  BY <1>1, <1>3, <1>4, <1>5 DEF LedgerInv, LedgerUnique
<1>8. LedgerTrue'
  BY <1>1, <1>2, <1>3, <1>4 DEF Enter, LedgerInv, LedgerTrue
<1> QED
  BY <1>6, <1>7, <1>8 DEF LedgerInv

LEMMA LedgerInvariant == LedgerSpec => []LedgerInv
PROOF
<1>1. LedgerInv /\ [LedgerNext]_ledgerVars => LedgerInv'
  <2>1. LedgerInv /\ UNCHANGED ledgerVars => LedgerInv'
    BY DEF ledgerVars, LedgerInv, LedgerTypeOK, LedgerUnique, LedgerTrue
  <2> QED
    BY <2>1, BurnLemma, EnterLemma DEF LedgerNext
<1> QED
  BY <1>1, LedgerInitial, PTL DEF LedgerSpec

\* README.md:16 and 18 of the tool, for whatever implements the ledger: the
\* history repeats neither a MAC nor a serial number, and every unit in it
\* holds, from then on, the serial number it was entered with.
THEOREM LedgerTheorem == LedgerSpec => [](LedgerUnique /\ LedgerTrue)
PROOF
<1>1. LedgerInv => LedgerUnique /\ LedgerTrue
  BY DEF LedgerInv
<1> QED
  BY <1>1, LedgerInvariant, PTL
=============================================================================
