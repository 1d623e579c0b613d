--------------------------- MODULE ToolDataProofs ---------------------------
(***************************************************************************)
(* The settings through failed saves and restarts, the rows through days   *)
(* and full files, the search among them, the command shown and the next   *)
(* one sent, and the ids: for every settings file found, every edit in the *)
(* dialog, every address and any number of starts, days and writes.        *)
(*                                                                         *)
(* That a file loads to what was saved holds for settings that are whole:  *)
(* a function with a value for every field and every part.  Whatever file  *)
(* is found loads to whole settings, and an edit keeps them whole.         *)
(***************************************************************************)
EXTENDS ToolData, FiniteSetTheorems, SequenceTheorems, WellFoundedInduction, TLAPS

-----------------------------------------------------------------------------
(* The ids.  Whatever the operator types, in whatever order the window's   *)
(* slots run, the transport polls with the report id the service expects,  *)
(* unless a slot kept an open session while it changed the ids.            *)

SessionInv == SessionTypeOK /\ SessionAgrees

\* parseUsbConfig leaves two bytes in cfg_ and in the service's copy.
LEMMA ParsedIds ==
  ASSUME SessionTypeOK, ParseUsbConfig
  PROVE  cfg' \in Ids /\ srvCfg' \in Ids /\ (FieldsValid => srvCfg' = cfg')
<1>1. ASSUME NEW t \in Typed \cup {NotHex} PROVE Parsed(t) \in 0 .. 255
  <2>1. CASE t = NotHex BY <2>1 DEF Parsed
  <2>2. CASE t # NotHex
    <3>1. t \in Nat BY <1>1, <2>2, TypedAssumption
    <3> QED BY <2>2, <3>1 DEF Parsed
  <2> QED BY <2>1, <2>2
<1>2. edits.out \in Typed \cup {NotHex} /\ edits.in \in Typed \cup {NotHex}
  BY DEF SessionTypeOK, Fields
<1>3. Parsed(edits.out) \in 0 .. 255 /\ Parsed(edits.in) \in 0 .. 255 BY <1>1, <1>2
<1>4. cfg' \in Ids BY <1>3 DEF ParseUsbConfig, Ids
<1>5. srvCfg' \in Ids BY <1>4 DEF ParseUsbConfig, SessionTypeOK
<1> QED BY <1>4, <1>5 DEF ParseUsbConfig

\* A session that is opened anew polls with the id that was just parsed.
LEMMA OpenedAgrees ==
  ASSUME cfg' \in Ids, srvCfg' = cfg', ConfigureAndOpen
  PROVE  pollId' \in 0 .. 255 /\ session' \in BOOLEAN /\ reread' \in BOOLEAN /\ SessionAgrees'
BY DEF ConfigureAndOpen, SessionAgrees, Ids

\* A session that is kept agrees as long as the service's id has not changed.
LEMMA KeptAgrees ==
  ASSUME SessionInv, KeepSession
  PROVE  pollId' \in 0 .. 255 /\ session' \in BOOLEAN /\ reread' \in BOOLEAN /\ SessionAgrees'
<1>1. pollId' \in 0 .. 255 /\ session' \in BOOLEAN
  BY DEF SessionInv, SessionTypeOK, KeepSession
<1>2. reread' \in BOOLEAN BY DEF SessionInv, SessionTypeOK, KeepSession
<1>3. SessionAgrees'
  BY DEF SessionInv, SessionTypeOK, SessionAgrees, KeepSession
<1> QED BY <1>1, <1>2, <1>3

LEMMA ClosedAgrees ==
  ASSUME CloseSession
  PROVE  pollId' \in 0 .. 255 /\ session' \in BOOLEAN /\ reread' \in BOOLEAN /\ SessionAgrees'
<1>1. pollId' \in 0 .. 255 BY SMT DEF CloseSession
<1>2. session' \in BOOLEAN /\ reread' \in BOOLEAN BY Zenon DEF CloseSession
<1>3. ~session' BY Zenon DEF CloseSession
<1>4. SessionAgrees' BY <1>3, Zenon DEF SessionAgrees
<1> QED BY <1>1, <1>2, <1>4

LEMMA SessionInvInit == SessionInit => SessionInv
<1> SUFFICES ASSUME SessionInit PROVE SessionInv
  OBVIOUS
<1>1. DefaultEdits \in Fields /\ DefaultIds \in Ids
  BY TypedAssumption, SMT DEF DefaultEdits, DefaultIds, Fields, Ids
<1>2. pollId \in 0 .. 255 BY SMT DEF SessionInit
<1>3. session \in BOOLEAN /\ reread \in BOOLEAN /\ ~session BY Zenon DEF SessionInit
<1>4. edits \in Fields /\ cfg \in Ids /\ srvCfg \in Ids BY <1>1, Zenon DEF SessionInit
<1>5. SessionTypeOK BY <1>2, <1>3, <1>4, Zenon DEF SessionTypeOK
<1>6. SessionAgrees BY <1>3, Zenon DEF SessionAgrees
<1> QED BY <1>5, <1>6, Zenon DEF SessionInv

LEMMA SessionInvStep == SessionInv /\ [SessionNext]_sessionVars => SessionInv'
<1> SUFFICES ASSUME SessionInv, [SessionNext]_sessionVars PROVE SessionInv'
  OBVIOUS
<1> USE DEF SessionInv
<1>1. CASE EditFields
  BY <1>1 DEF EditFields, SessionTypeOK, SessionAgrees
<1>2. CASE OnConnectClicked
  <2>1. cfg' \in Ids /\ srvCfg' \in Ids /\ (FieldsValid => srvCfg' = cfg')
    BY <1>2, ParsedIds DEF OnConnectClicked
  <2>2. edits' \in Fields BY <1>2 DEF OnConnectClicked, SessionTypeOK
  <2>3. CASE FieldsValid
    BY <1>2, <2>1, <2>2, <2>3, OpenedAgrees DEF OnConnectClicked, SessionTypeOK
  <2>4. CASE ~FieldsValid
    <3>1. srvCfg' = srvCfg BY <1>2, <2>4 DEF OnConnectClicked, ParseUsbConfig
    <3>2. UNCHANGED <<pollId, session, reread>> BY <1>2, <2>4 DEF OnConnectClicked
    <3> QED BY <2>1, <2>2, <3>1, <3>2 DEF SessionTypeOK, SessionAgrees
  <2> QED BY <2>3, <2>4
<1>3. CASE OnDisconnectClicked
  <2>1. pollId' \in 0 .. 255 /\ session' \in BOOLEAN /\ reread' \in BOOLEAN /\ SessionAgrees'
    BY <1>3, ClosedAgrees DEF OnDisconnectClicked
  <2> QED BY <1>3, <2>1 DEF OnDisconnectClicked, SessionTypeOK
<1>4. CASE BeginManualWrite
  <2>1. cfg' \in Ids /\ srvCfg' \in Ids /\ (FieldsValid => srvCfg' = cfg')
    BY <1>4, ParsedIds DEF BeginManualWrite
  <2>2. edits' \in Fields BY <1>4 DEF BeginManualWrite, SessionTypeOK
  <2>3. CASE FieldsValid /\ ~session
    <3>1. ConfigureAndOpen BY <1>4, <2>3 DEF BeginManualWrite
    <3> QED BY <2>1, <2>2, <2>3, <3>1, OpenedAgrees DEF SessionTypeOK
  <2>4. CASE ~(FieldsValid /\ ~session)
    <3>1. KeepSession BY <1>4, <2>4 DEF BeginManualWrite
    <3> QED BY <2>1, <2>2, <3>1, KeptAgrees DEF SessionTypeOK
  <2> QED BY <2>3, <2>4
<1>5. CASE BeginTick
  <2>1. cfg' \in Ids /\ srvCfg' \in Ids /\ (FieldsValid => srvCfg' = cfg')
    BY <1>5, ParsedIds DEF BeginTick
  <2>2. edits' \in Fields BY <1>5 DEF BeginTick, SessionTypeOK
  <2>3. CASE CloseSession BY <2>1, <2>2, <2>3, ClosedAgrees DEF SessionTypeOK
  <2>4. CASE KeepSession BY <2>1, <2>2, <2>4, KeptAgrees DEF SessionTypeOK
  <2>5. CASE FieldsValid /\ ConfigureAndOpen
    BY <2>1, <2>2, <2>5, OpenedAgrees DEF SessionTypeOK
  <2> QED BY <1>5, <2>3, <2>4, <2>5 DEF BeginTick
<1>6. CASE UNCHANGED sessionVars
  BY <1>6 DEF sessionVars, SessionTypeOK, SessionAgrees
<1> QED BY <1>1, <1>2, <1>3, <1>4, <1>5, <1>6 DEF SessionNext

\* The ids stay bytes, whatever is typed into the fields: parseUsbConfig.
THEOREM SessionTypeCorrect == SessionSpec => []SessionTypeOK
<1>1. SessionInv => SessionTypeOK BY DEF SessionInv
<1> QED BY <1>1, SessionInvInit, SessionInvStep, PTL DEF SessionSpec

\* An open session polls with the id the service expects, unless a write or a
\* tick kept it while the service took over another one: parseUsbConfig, open,
\* configureInputPolling.
THEOREM PollIdAgrees == SessionSpec => []SessionAgrees
<1>1. SessionInv => SessionAgrees BY DEF SessionInv
<1> QED BY <1>1, SessionInvInit, SessionInvStep, PTL DEF SessionSpec

-----------------------------------------------------------------------------
(* Induction, over sets: the library's theorems take an operator, which    *)
(* no prover here can instantiate.  A set of numbers that has 0, and with  *)
(* each number the next, has them all; and what a definition asks of a     *)
(* recursive function, step by step, some function fulfils.                *)

LEMMA Smallest == ASSUME NEW T \in SUBSET Nat, T # {} PROVE \E x \in T : \A y \in T : x <= y
<1>1. PICK x \in T : \A y \in T : <<y, x>> \notin OpToRel(<, Nat)
  BY WFMin, NatLessThanWellFounded
<1>2. SUFFICES ASSUME NEW y \in T PROVE x <= y
  OBVIOUS
<1>3. x \in Nat /\ y \in Nat
  OBVIOUS
<1>4. ~(y < x)
  BY <1>1, <1>3 DEF OpToRel
<1> QED
  BY <1>3, <1>4

\* Induction up to n, over a set.
LEMMA UpTo ==
  ASSUME NEW n \in Nat, NEW P, 0 \in P, \A i \in 1 .. n : i - 1 \in P => i \in P
  PROVE  \A i \in 0 .. n : i \in P
<1> DEFINE Bad == {i \in 0 .. n : i \notin P}
<1>1. SUFFICES ASSUME Bad # {} PROVE FALSE
  OBVIOUS
<1>2. PICK m \in Bad : \A y \in Bad : m <= y
  <2>1. Bad \in SUBSET Nat
    OBVIOUS
  <2> HIDE DEF Bad
  <2> QED
    BY <1>1, <2>1, Smallest
<1>3. m \in 1 .. n /\ m - 1 \in 0 .. n /\ m - 1 < m
  BY <1>2
<1>4. m - 1 \notin Bad
  BY <1>2, <1>3
<1> QED
  BY <1>2, <1>3, <1>4

\* A function on 0 .. n that is defined step by step, its i-th value in S[i].
Stepwise(f, n, S, a, step) ==
  /\ f = [i \in 0 .. n |-> f[i]]
  /\ f[0] = a
  /\ \A i \in 1 .. n : f[i] = step[i][f[i - 1]]
  /\ \A i \in 0 .. n : f[i] \in S[i]

\* There is such a function if each step leads from S[i - 1] into S[i].
LEMMA Recursion ==
  ASSUME NEW n \in Nat, NEW S, NEW a \in S[0], NEW step,
         \A i \in 1 .. n : \A x \in S[i - 1] : step[i][x] \in S[i]
  PROVE  \E f : Stepwise(f, n, S, a, step)
<1> DEFINE P == {k \in 0 .. n : \E f : Stepwise(f, k, S, a, step)}
<1>1. 0 \in P
  <2> DEFINE f == [i \in 0 .. 0 |-> a]
  <2>1. Stepwise(f, 0, S, a, step)
    <3>1. \A i \in 0 .. 0 : i = 0
      OBVIOUS
    <3>2. \A i \in 1 .. 0 : FALSE
      OBVIOUS
    <3> QED
      BY <3>1, <3>2 DEF Stepwise
  <2> HIDE DEF f
  <2> QED
    BY <2>1
<1>2. ASSUME NEW k \in 1 .. n, k - 1 \in P PROVE k \in P
  <2>1. PICK f : Stepwise(f, k - 1, S, a, step)
    BY <1>2
  <2> DEFINE g == [i \in 0 .. k |-> IF i = k THEN step[k][f[k - 1]] ELSE f[i]]
  <2>2. /\ f[0] = a
        /\ \A i \in 1 .. k - 1 : f[i] = step[i][f[i - 1]]
        /\ \A i \in 0 .. k - 1 : f[i] \in S[i]
    BY <2>1 DEF Stepwise
  <2>3. \A i \in 0 .. k - 1 : g[i] = f[i]
    OBVIOUS
  <2>4. g[k] = step[k][g[k - 1]] /\ g[k] \in S[k]
    BY <2>2, <2>3
  <2>5. g = [i \in 0 .. k |-> g[i]] /\ g[0] = a
    BY <2>2, <2>3
  <2> HIDE DEF g
  <2>6. \A i \in 1 .. k : g[i] = step[i][g[i - 1]]
    <3>1. SUFFICES ASSUME NEW i \in 1 .. k, i # k PROVE g[i] = step[i][g[i - 1]]
      BY <2>4
    <3>2. i \in 1 .. k - 1 /\ i \in 0 .. k - 1 /\ i - 1 \in 0 .. k - 1
      BY <3>1
    <3> QED
      BY <2>2, <2>3, <3>2
  <2>7. \A i \in 0 .. k : g[i] \in S[i]
    <3>1. \A i \in 0 .. k : i = k \/ i \in 0 .. k - 1
      OBVIOUS
    <3> QED
      BY <2>2, <2>3, <2>4, <3>1
  <2>8. Stepwise(g, k, S, a, step)
    BY <2>5, <2>6, <2>7, Zenon DEF Stepwise
  <2> QED
    BY <2>8
<1> HIDE DEF P
<1>3. n \in P
  BY <1>1, <1>2, UpTo
<1> QED
  BY <1>3 DEF P

-----------------------------------------------------------------------------
(* Texts.                                                                  *)

\* A number without its last digits.
LEMMA LeadingDigits ==
  ASSUME NEW v \in Nat, NEW w \in Nat
  PROVE  \A n \in 0 .. w : Leading(v, w)[n] \in Nat
<1> DEFINE S == [i \in 0 .. w |-> Nat]
           step == [i \in 1 .. w |-> [x \in Nat |-> x \div 10]]
           IsLeading(f) == f = [n \in 0 .. w |-> IF n = 0 THEN v ELSE f[n - 1] \div 10]
<1>1. PICK f : Stepwise(f, w, S, v, step)
  <2>1. ASSUME NEW i \in 1 .. w, NEW x \in S[i - 1] PROVE step[i][x] \in S[i]
    <3>1. i \in 0 .. w /\ i - 1 \in 0 .. w /\ x \in Nat
      OBVIOUS
    <3> QED
      BY <3>1
  <2>2. v \in S[0]
    OBVIOUS
  <2> HIDE DEF S, step
  <2> QED
    BY <2>1, <2>2, Recursion
<1>2. IsLeading(f)
  <2>1. ASSUME NEW n \in 1 .. w PROVE f[n] = f[n - 1] \div 10
    <3>1. n \in 0 .. w /\ n - 1 \in 0 .. w
      OBVIOUS
    <3>2. f[n - 1] \in Nat
      BY <1>1, <3>1 DEF Stepwise
    <3> QED
      BY <1>1, <3>2 DEF Stepwise
  <2>2. f = [i \in 0 .. w |-> f[i]] /\ f[0] = v
    BY <1>1 DEF Stepwise
  <2>3. \A n \in 0 .. w : f[n] = IF n = 0 THEN v ELSE f[n - 1] \div 10
    BY <2>1, <2>2
  <2>4. [i \in 0 .. w |-> f[i]] = [n \in 0 .. w |-> IF n = 0 THEN v ELSE f[n - 1] \div 10]
    BY <2>3
  <2> QED
    BY <2>2, <2>4, Zenon
<1>3. IsLeading(Leading(v, w))
  BY <1>2 DEF Leading
<1> DEFINE g == Leading(v, w)
<1> HIDE DEF g
<1>4. g = [n \in 0 .. w |-> IF n = 0 THEN v ELSE g[n - 1] \div 10]
  BY <1>3 DEF g
<1> DEFINE P == {n \in 0 .. w : g[n] \in Nat}
<1>5. 0 \in P
  BY <1>4
<1>6. \A i \in 1 .. w : i - 1 \in P => i \in P
  BY <1>4
<1> HIDE DEF P
<1>7. \A i \in 0 .. w : i \in P
  BY <1>5, <1>6, UpTo
<1> QED
  BY <1>7 DEF P, g

\* Min and Max of a set of places.
LEMMA MinOf ==
  ASSUME NEW T \in SUBSET Nat, T # {}
  PROVE  Min(T) \in T /\ \A y \in T : Min(T) <= y
BY Smallest DEF Min

LEMMA MaxOf ==
  ASSUME NEW n \in Nat, NEW T \in SUBSET (1 .. n), T # {}
  PROVE  Max(T) \in T /\ \A y \in T : Max(T) >= y
<1> DEFINE R == {k \in Nat : n - k \in T}
<1>1. \A y \in T : n - y \in Nat /\ n - (n - y) = y /\ n - y \in R
  OBVIOUS
<1>2. PICK k \in R : \A y \in R : k <= y
  <2>1. R \in SUBSET Nat /\ R # {}
    BY <1>1
  <2> HIDE DEF R
  <2> QED
    BY <2>1, Smallest
<1>3. n - k \in T /\ \A y \in T : n - k >= y
  BY <1>1, <1>2
<1> QED
  BY <1>3 DEF Max

LEMMA BetweenText ==
  ASSUME NEW S, NEW text \in Seq(S), NEW places \in SUBSET (1 .. Len(text))
  PROVE  /\ Between(text, places) \in Seq(S)
         /\ places # {} =>
              /\ Min(places) \in places /\ Max(places) \in places
              /\ \A i \in places : Min(places) <= i /\ i <= Max(places)
<1>1. CASE places = {}
  BY <1>1 DEF Between, NoText
<1>2. CASE places # {}
  <2>1. Min(places) \in places /\ \A y \in places : Min(places) <= y
    <3>1. places \in SUBSET Nat
      OBVIOUS
    <3> QED
      BY <1>2, <3>1, MinOf
  <2>2. Max(places) \in places /\ \A y \in places : Max(places) >= y
    BY <1>2, MaxOf, Len(text) \in Nat
  <2>3. SubSeq(text, Min(places), Max(places)) \in Seq(S)
    <3>1. Min(places) \in 1 .. Len(text) /\ Max(places) \in 1 .. Len(text)
      BY <2>1, <2>2
    <3> QED
      BY <3>1, SubSeqProperties
  <2>4. Between(text, places) \in Seq(S)
    BY <1>2, <2>3 DEF Between
  <2> QED
    BY <1>2, <2>1, <2>2, <2>4
<1> QED
  BY <1>1, <1>2

Solid(text) == {i \in DOMAIN text : text[i] # " "}

LEMMA SeqDomain ==
  ASSUME NEW S, NEW text \in Seq(S)
  PROVE  /\ Len(text) \in Nat /\ DOMAIN text = 1 .. Len(text)
         /\ Solid(text) \in SUBSET (1 .. Len(text))
<1>1. Len(text) \in Nat /\ DOMAIN text = 1 .. Len(text)
  OBVIOUS
<1> QED
  BY <1>1, Zenon DEF Solid

LEMMA SameSeq ==
  ASSUME NEW S, NEW a \in Seq(S), NEW T, NEW b \in Seq(T), Len(a) = Len(b),
         \A i \in 1 .. Len(a) : a[i] = b[i]
  PROVE  a = b
OBVIOUS

LEMMA WholeSeq ==
  ASSUME NEW S, NEW a \in Seq(S)
  PROVE  SubSeq(a, 1, Len(a)) = a
OBVIOUS

LEMMA PartSeq ==
  ASSUME NEW S, NEW a \in Seq(S), NEW m \in 1 .. Len(a), NEW n \in 1 .. Len(a), m <= n
  PROVE  /\ SubSeq(a, m, n) \in Seq(S) /\ Len(SubSeq(a, m, n)) = n - m + 1
         /\ \A i \in 1 .. n - m + 1 : SubSeq(a, m, n)[i] = a[m + i - 1]
OBVIOUS

LEMMA MadeSeq ==
  ASSUME NEW n \in Nat, NEW T, NEW g, \A i \in 1 .. n : g[i] \in T
  PROVE  LET s == [i \in 1 .. n |-> g[i]]
         IN  s \in Seq(T) /\ Len(s) = n /\ \A i \in 1 .. n : s[i] = g[i]
OBVIOUS

LEMMA EndsOf ==
  ASSUME NEW n \in Nat, n # 0
  PROVE  1 .. n # {} /\ Min(1 .. n) = 1 /\ Max(1 .. n) = n
<1>1. 1 \in 1 .. n /\ n \in 1 .. n
  OBVIOUS
<1>2. 1 .. n \in SUBSET Nat /\ 1 .. n # {}
  OBVIOUS
<1>3. Min(1 .. n) \in 1 .. n /\ \A y \in 1 .. n : Min(1 .. n) <= y
  BY <1>2, MinOf
<1>4. Max(1 .. n) \in 1 .. n /\ \A y \in 1 .. n : Max(1 .. n) >= y
  BY <1>2, MaxOf
<1> QED
  BY <1>1, <1>3, <1>4

LEMMA TrimmedText ==
  ASSUME NEW S, NEW text \in Seq(S)
  PROVE  Trimmed(text) \in Seq(S)
<1>1. Solid(text) \in SUBSET (1 .. Len(text))
  BY SeqDomain
<1>2. Trimmed(text) = Between(text, Solid(text))
  BY DEF Trimmed, Solid
<1> QED
  BY <1>1, <1>2, BetweenText

\* A text without spaces is left as it is.
LEMMA TrimmedPlain ==
  ASSUME NEW S, NEW text \in Seq(S), \A i \in 1 .. Len(text) : text[i] # " "
  PROVE  Trimmed(text) = text
<1>1. Solid(text) = 1 .. Len(text) /\ Len(text) \in Nat
  BY SeqDomain, Zenon DEF Solid
<1>2. Trimmed(text) = Between(text, 1 .. Len(text))
  BY <1>1 DEF Trimmed, Solid
<1>3. CASE Len(text) = 0
  BY <1>1, <1>2, <1>3 DEF Between, NoText
<1>4. CASE Len(text) # 0
  <2>1. 1 .. Len(text) # {} /\ Min(1 .. Len(text)) = 1 /\ Max(1 .. Len(text)) = Len(text)
    BY <1>1, <1>4, EndsOf
  <2>4. Trimmed(text) = SubSeq(text, 1, Len(text))
    BY <1>2, <2>1 DEF Between
  <2> QED
    BY <2>4, WholeSeq
<1> QED
  BY <1>3, <1>4

\* A comma that becomes an underscore changes nothing of where the spaces are.
LEMMA SafeText ==
  ASSUME NEW S, NEW text \in Seq(S)
  PROVE  /\ Safe(text) \in Seq(S \cup {"_"}) /\ Len(Safe(text)) = Len(text)
         /\ \A i \in 1 .. Len(text) : Safe(text)[i] = IF text[i] = "," THEN "_" ELSE text[i]
<1> DEFINE g == [i \in 1 .. Len(text) |-> IF text[i] = "," THEN "_" ELSE text[i]]
<1>1. Len(text) \in Nat /\ \A i \in 1 .. Len(text) : text[i] \in S
  OBVIOUS
<1>2. Safe(text) = g
  BY SeqDomain, Zenon DEF Safe
<1>3. \A i \in 1 .. Len(text) : g[i] \in S \cup {"_"}
  BY <1>1
<1>4. [i \in 1 .. Len(text) |-> g[i]] = g
  OBVIOUS
<1> HIDE DEF g
<1>5. g \in Seq(S \cup {"_"}) /\ Len(g) = Len(text)
  <2> DEFINE T == S \cup {"_"}
             n == Len(text)
             s == [i \in 1 .. n |-> g[i]]
  <2>1. n \in Nat /\ \A i \in 1 .. n : g[i] \in T
    BY <1>1, <1>3
  <2> HIDE DEF T, n
  <2>2. s \in Seq(T) /\ Len(s) = n
    BY <2>1, MadeSeq
  <2> QED
    BY <1>4, <2>2 DEF T, n
<1> QED
  BY <1>1, <1>2, <1>5 DEF g

LEMMA TrimmedSafe ==
  ASSUME NEW S, NEW text \in Seq(S)
  PROVE  LET a == Trimmed(text)
             b == Trimmed(Safe(text))
         IN  /\ a \in Seq(S) /\ b \in Seq(S \cup {"_"}) /\ Len(a) = Len(b)
             /\ \A j \in 1 .. Len(a) : b[j] = IF a[j] = "," THEN "_" ELSE a[j]
<1>1. /\ Safe(text) \in Seq(S \cup {"_"}) /\ Len(Safe(text)) = Len(text) /\ Len(text) \in Nat
      /\ \A i \in 1 .. Len(text) : Safe(text)[i] = IF text[i] = "," THEN "_" ELSE text[i]
  BY SafeText, SeqDomain
<1> DEFINE places == Solid(text)
<1>2. Solid(Safe(text)) = places
  <2>1. DOMAIN Safe(text) = 1 .. Len(text) /\ DOMAIN text = 1 .. Len(text)
    BY <1>1, SeqDomain
  <2>2. \A i \in 1 .. Len(text) : Safe(text)[i] # " " <=> text[i] # " "
    BY <1>1
  <2> QED
    BY <2>1, <2>2, Zenon DEF Solid
<1>3. Trimmed(text) = Between(text, places) /\ Trimmed(Safe(text)) = Between(Safe(text), places)
  BY <1>2 DEF Trimmed, Solid
<1>4. places \in SUBSET (1 .. Len(text))
  BY SeqDomain
<1>5. Trimmed(text) \in Seq(S) /\ Trimmed(Safe(text)) \in Seq(S \cup {"_"})
  BY <1>1, TrimmedText
<1> HIDE DEF places
<1>6. CASE places = {}
  BY <1>3, <1>5, <1>6 DEF Between, NoText
<1>7. CASE places # {}
  <2>1. Min(places) \in 1 .. Len(text) /\ Max(places) \in 1 .. Len(text) /\ Min(places) <= Max(places)
    BY <1>4, <1>7, BetweenText
  <2>2. Trimmed(text) = SubSeq(text, Min(places), Max(places))
        /\ Trimmed(Safe(text)) = SubSeq(Safe(text), Min(places), Max(places))
    BY <1>3, <1>7 DEF Between
  <2> DEFINE m == Min(places)
             n == Max(places)
  <2> HIDE DEF m, n
  <2>3. m \in 1 .. Len(text) /\ n \in 1 .. Len(text) /\ m <= n
    BY <2>1 DEF m, n
  <2>4. /\ Len(SubSeq(text, m, n)) = n - m + 1 /\ Len(SubSeq(Safe(text), m, n)) = n - m + 1
        /\ \A i \in 1 .. n - m + 1 : /\ SubSeq(text, m, n)[i] = text[m + i - 1]
                                     /\ SubSeq(Safe(text), m, n)[i] = Safe(text)[m + i - 1]
    <3> DEFINE T == S \cup {"_"}
    <3>1. m \in 1 .. Len(Safe(text)) /\ n \in 1 .. Len(Safe(text)) /\ Safe(text) \in Seq(T)
      BY <1>1, <2>3
    <3> HIDE DEF T
    <3> QED
      BY <2>3, <3>1, PartSeq
  <2>5. \A i \in 1 .. n - m + 1 : m + i - 1 \in 1 .. Len(text)
    <3>1. PICK len \in Nat : len = Len(text)
      BY <1>1
    <3> QED
      BY <2>3, <3>1
  <2> QED
    BY <1>1, <1>5, <2>2, <2>4, <2>5 DEF m, n
<1> QED
  BY <1>6, <1>7

\* The number in its width.
LEMMA DigitsText ==
  ASSUME NEW v \in Nat, NEW w \in Nat
  PROVE  Digits(v, w) \in Texts
<1>1. ASSUME NEW i \in 1 .. w PROVE HexDigits[(Leading(v, w)[w - i] % 10) + 1] \in DOMAIN Code
  <2>1. Leading(v, w)[w - i] \in Nat
    BY LeadingDigits
  <2>2. (Leading(v, w)[w - i] % 10) + 1 \in 1 .. 10
    BY <2>1
  <2>3. \A d \in 1 .. 16 : HexDigits[d] \in DOMAIN Code
    BY CodeAssumption DEF HexDigits, Range
  <2> QED
    BY <2>2, <2>3
<1> QED
  BY <1>1 DEF Digits, Texts

Usable(s) ==
  /\ s.snStart \in Nat /\ s.snWidth \in Nat \ {0}
  /\ s.snPrefix \in Texts /\ \A p \in Parts : s.code[p] \in Texts

LEMMA SerialText ==
  ASSUME NEW s, Usable(s), NEW v \in Nat
  PROVE  BuildSerialString(s, v) \in Texts
<1>1. \A a, b \in Texts : a \o b \in Texts
  BY DEF Texts
<1>2. NoText \in Texts
  BY DEF Texts, NoText
<1>3. Trimmed(s.snPrefix) \in Texts
  BY TrimmedText DEF Usable, Texts
<1>4. \A p \in Parts : Part(s, p) \in Texts
  BY <1>2 DEF Usable, Part
<1>5. Digits(v, s.snWidth) \in Texts
  BY DigitsText DEF Usable
<1>6. {"Plant", "Manufacturer", "Product", "Month", "Year"} \subseteq Parts
  BY DEF Parts
<1> HIDE DEF Texts
<1> QED
  BY <1>1, <1>2, <1>3, <1>4, <1>5, <1>6 DEF BuildSerialString

-----------------------------------------------------------------------------
(* A line and its columns: what appendCsvRecord has put together,          *)
(* isDuplicateRecord takes apart again.  Nothing in a column is a comma.   *)

\* What is put together and taken apart again.
LEMMA FrontAppend ==
  ASSUME NEW S, NEW x \in Seq(S), NEW y \in S
  PROVE  /\ Front(Append(x, y)) = x /\ Last(Append(x, y)) = y
         /\ Append(x, y) \in Seq(S) /\ Append(x, y) # <<>>
<1>1. Append(x, y) \in Seq(S) /\ Len(Append(x, y)) = Len(x) + 1 /\ Len(x) \in Nat
  OBVIOUS
<1>2. SubSeq(Append(x, y), 1, Len(x)) = x
  BY <1>1
<1>3. Len(x) + 1 - 1 = Len(x)
  BY <1>1
<1> QED
  BY <1>1, <1>2, <1>3 DEF Front, Last

LEMMA ExtendedAppend ==
  ASSUME NEW S, NEW x \in Seq(Seq(S)), NEW y \in Seq(S), NEW c \in S
  PROVE  Extended(Append(x, y), c) = Append(x, Append(y, c))
BY FrontAppend DEF Extended

LEMMA ExtendedTexts ==
  ASSUME NEW S, NEW x \in Seq(Seq(S)), x # <<>>, NEW c \in S
  PROVE  Extended(x, c) \in Seq(Seq(S)) /\ Extended(x, c) # <<>>
<1>1. PICK n \in Nat : n = Len(x)
  OBVIOUS
<1>2. n # 0
  BY <1>1
<1>3. Last(x) \in Seq(S)
  BY <1>1, <1>2 DEF Last
<1>4. Append(Last(x), c) \in Seq(S)
  BY <1>3
<1>5. Front(x) \in Seq(Seq(S))
  <2>1. \A i \in 1 .. n - 1 : i \in 1 .. Len(x)
    BY <1>1
  <2>2. SubSeq(x, 1, n - 1) \in Seq(Seq(S))
    BY <1>1, <2>1
  <2> QED
    BY <1>1, <2>2 DEF Front
<1> HIDE <1>3
<1> QED
  BY <1>4, <1>5, SMTT(30) DEF Extended

LEMMA SubSeqGrows ==
  ASSUME NEW S, NEW a \in Seq(S), NEW m \in Nat, NEW n \in Nat, m <= n, n < Len(a)
  PROVE  /\ SubSeq(a, m + 1, m) = <<>>
         /\ Append(SubSeq(a, m + 1, n), a[n + 1]) = SubSeq(a, m + 1, n + 1)
         /\ SubSeq(a, m + 1, n) \in Seq(S) /\ a[n + 1] \in S
<1>1. PICK len \in Nat : len = Len(a)
  OBVIOUS
<1>2. a[n + 1] \in S
  BY <1>1
<1>3. SubSeq(a, m + 1, n) \in Seq(S) /\ SubSeq(a, m + 1, m) = <<>>
  BY <1>1
<1> QED
  BY <1>1, <1>2, <1>3

SplitStep(g, line, i) ==
  g[i] = IF line[i] = "," THEN Append(g[i - 1], NoText) ELSE Extended(g[i - 1], line[i])

\* The values of split for each beginning of the line.
Splits(g, line, S) ==
  /\ g[0] = <<NoText>>
  /\ \A i \in 1 .. Len(line) : SplitStep(g, line, i)
  /\ \A i \in 0 .. Len(line) : g[i] \in Seq(Seq(S)) /\ g[i] # <<>>

LEMMA SplitExists ==
  ASSUME NEW S, NEW line \in Seq(S)
  PROVE  \E g : Splits(g, line, S) /\ Split(line) = g[Len(line)]
<1> DEFINE n == Len(line)
           Some == {x \in Seq(Seq(S)) : x # <<>>}
           T == [i \in 0 .. n |-> Some]
           Next1(i, x) == IF line[i] = "," THEN Append(x, NoText) ELSE Extended(x, line[i])
           step == [i \in 1 .. n |-> [x \in Some |-> Next1(i, x)]]
           IsSplit(f) == f = [i \in 0 .. n |->
                                IF i = 0 THEN <<NoText>>
                                ELSE IF line[i] = "," THEN Append(f[i - 1], NoText)
                                ELSE LET before == f[i - 1] IN Extended(before, line[i])]
<1>1. n \in Nat /\ NoText \in Seq(S) /\ <<NoText>> \in Some
  BY DEF NoText
<1>2. ASSUME NEW i \in 1 .. n, NEW x \in Some PROVE Next1(i, x) \in Some
  <2>1. line[i] \in S
    OBVIOUS
  <2>2. Append(x, NoText) \in Some
    BY <1>1, FrontAppend
  <2>3. Extended(x, line[i]) \in Some
    BY <2>1, ExtendedTexts
  <2> QED
    BY <2>2, <2>3
<1> HIDE DEF n, Some, Next1
<1>3. PICK f : Stepwise(f, n, T, <<NoText>>, step)
  <2>1. ASSUME NEW i \in 1 .. n, NEW x \in T[i - 1] PROVE step[i][x] \in T[i]
    <3>1. i \in 0 .. n /\ i - 1 \in 0 .. n
      BY <1>1
    <3>2. x \in Some
      BY <3>1
    <3> QED
      BY <1>2, <3>1, <3>2
  <2>2. <<NoText>> \in T[0]
    BY <1>1
  <2> HIDE DEF T, step
  <2> QED
    BY <1>1, <2>1, <2>2, Recursion
<1>4. /\ f = [i \in 0 .. n |-> f[i]] /\ f[0] = <<NoText>>
      /\ \A i \in 1 .. n : f[i] = Next1(i, f[i - 1])
  <2>1. f = [i \in 0 .. n |-> f[i]] /\ f[0] = <<NoText>>
    BY <1>3 DEF Stepwise
  <2>2. ASSUME NEW i \in 1 .. n PROVE f[i] = Next1(i, f[i - 1])
    <3>1. i - 1 \in 0 .. n
      BY <1>1
    <3>2. f[i - 1] \in Some /\ f[i] = step[i][f[i - 1]]
      BY <1>3, <3>1 DEF Stepwise
    <3> QED
      BY <3>2
  <2> QED
    BY <2>1, <2>2
<1>5. IsSplit(f)
  <2> DEFINE h == [i \in 0 .. n |-> IF i = 0 THEN <<NoText>> ELSE Next1(i, f[i - 1])]
  <2>1. \A i \in 0 .. n : f[i] = IF i = 0 THEN <<NoText>> ELSE Next1(i, f[i - 1])
    <3>1. \A i \in 0 .. n : i = 0 \/ i \in 1 .. n
      BY <1>1
    <3> QED
      BY <1>4, <3>1, Zenon
  <2>2. [i \in 0 .. n |-> f[i]] = h
    BY <2>1, Zenon
  <2>3. f = h
    BY <1>4, <2>2, Zenon
  <2> QED
    BY <2>3, Zenon DEF Next1
<1> DEFINE g == CHOOSE f1 : IsSplit(f1)
<1>6. Split(line) = g[n]
  BY Zenon DEF Split, n
<1>7. IsSplit(g)
  BY <1>5, Zenon
<1> HIDE DEF g
<1>8. /\ g[0] = <<NoText>>
      /\ \A i \in 1 .. n : g[i] = Next1(i, g[i - 1])
  <2> DEFINE h == [i \in 0 .. n |-> IF i = 0 THEN <<NoText>> ELSE Next1(i, g[i - 1])]
  <2>1. g = h
    BY <1>7, Zenon DEF Next1
  <2>2. \A i \in 0 .. n : h[i] = IF i = 0 THEN <<NoText>> ELSE Next1(i, g[i - 1])
    OBVIOUS
  <2> HIDE DEF h
  <2>3. \A i \in 0 .. n : g[i] = IF i = 0 THEN <<NoText>> ELSE Next1(i, g[i - 1])
    BY <2>1, <2>2, Zenon
  <2> QED
    BY <1>1, <2>3
<1> DEFINE P == {i \in 0 .. n : g[i] \in Some}
<1>9. 0 \in P
  BY <1>1, <1>8
<1>10. \A i \in 1 .. n : i - 1 \in P => i \in P
  BY <1>1, <1>2, <1>8
<1> HIDE DEF P
<1>11. \A i \in 0 .. n : i \in P
  BY <1>1, <1>9, <1>10, UpTo
<1>12. Splits(g, line, S)
  BY <1>8, <1>11, Zenon DEF Splits, SplitStep, P, n, Some, Next1
<1> QED
  BY <1>6, <1>12 DEF n

NoComma(line, a, b) == \A i \in a + 1 .. b : line[i] # ","
Begun(g, a, x) == g[a] = Append(x, NoText)

\* A column: from a comma, or the beginning, to the next or the end.
LEMMA SplitField ==
  ASSUME NEW S, NEW line \in Seq(S), NEW g, Splits(g, line, S), NEW x \in Seq(Seq(S)),
         NEW a \in Nat, NEW b \in Nat, a <= b, b <= Len(line),
         Begun(g, a, x), NoComma(line, a, b)
  PROVE  /\ g[b] = Append(x, SubSeq(line, a + 1, b))
         /\ SubSeq(line, a + 1, b) \in Seq(S)
         /\ b + 1 <= Len(line) /\ line[b + 1] = "," =>
              Begun(g, b + 1, Append(x, SubSeq(line, a + 1, b)))
<1> DEFINE Got(k) == g[a + k] = Append(x, SubSeq(line, a + 1, a + k))
                     /\ SubSeq(line, a + 1, a + k) \in Seq(S)
           P == {k \in 0 .. b - a : Got(k)}
<1>1. PICK len \in Nat : len = Len(line)
  OBVIOUS
<1>2. 0 \in P
  <2>1. SubSeq(line, a + 1, a) = <<>>
    BY <1>1
  <2>2. a + 0 = a /\ g[a] = Append(x, <<>>) /\ <<>> \in Seq(S) /\ 0 \in 0 .. b - a
    BY DEF NoText, Begun
  <2>3. Got(0)
    BY <2>1, <2>2
  <2> QED
    BY <2>2, <2>3
<1>3. ASSUME NEW k \in 1 .. b - a, k - 1 \in P PROVE k \in P
  <2> DEFINE c == a + (k - 1)
  <2>1. c \in Nat /\ a <= c /\ c < len /\ a + k = c + 1 /\ a + k \in 1 .. len /\ a + k \in a + 1 .. b
        /\ a + k - 1 = c
    BY <1>1
  <2>2. g[c] = Append(x, SubSeq(line, a + 1, c))
    BY <1>3
  <2>3. line[c + 1] # "," /\ g[c + 1] = Extended(g[c], line[c + 1])
    <3>1. c + 1 \in a + 1 .. b /\ c + 1 \in 1 .. Len(line) /\ (c + 1) - 1 = c
      BY <1>1, <2>1
    <3>2. line[c + 1] # ","
      BY <3>1, Zenon DEF NoComma
    <3>3. SplitStep(g, line, c + 1)
      BY <3>1, Zenon DEF Splits
    <3>4. g[c + 1] = Extended(g[(c + 1) - 1], line[c + 1])
      BY <3>2, <3>3, Zenon DEF SplitStep
    <3> QED
      BY <3>1, <3>2, <3>4
  <2> HIDE DEF c
  <2>4. /\ Append(SubSeq(line, a + 1, c), line[c + 1]) = SubSeq(line, a + 1, c + 1)
        /\ SubSeq(line, a + 1, c) \in Seq(S) /\ line[c + 1] \in S
    BY <1>1, <2>1, SubSeqGrows
  <2>5. Extended(g[c], line[c + 1]) = Append(x, SubSeq(line, a + 1, c + 1))
    <3> DEFINE y == SubSeq(line, a + 1, c)
               z == line[c + 1]
    <3>1. y \in Seq(S) /\ z \in S
      BY <2>4
    <3> HIDE DEF y, z
    <3>2. Extended(Append(x, y), z) = Append(x, Append(y, z))
      BY <3>1, ExtendedAppend
    <3> QED
      BY <2>2, <2>4, <3>2 DEF y, z
  <2>6. SubSeq(line, a + 1, c + 1) \in Seq(S)
    BY <2>4
  <2>7. Got(k)
    BY <2>1, <2>3, <2>5, <2>6
  <2> QED
    BY <2>7
<1> HIDE DEF P
<1>4. b - a \in P
  <2>1. b - a \in Nat
    OBVIOUS
  <2>2. \A k \in 0 .. b - a : k \in P
    BY <1>2, <1>3, <2>1, UpTo
  <2> QED
    BY <2>1, <2>2
<1>5. g[b] = Append(x, SubSeq(line, a + 1, b)) /\ SubSeq(line, a + 1, b) \in Seq(S)
  <2>1. a + (b - a) = b
    OBVIOUS
  <2> QED
    BY <1>4, <2>1 DEF P
<1>6. ASSUME b + 1 <= Len(line), line[b + 1] = ","
      PROVE  g[b + 1] = Append(g[b], NoText)
  <2>1. b + 1 <= len
    BY <1>1, <1>6
  <2>2. b + 1 \in 1 .. Len(line) /\ (b + 1) - 1 = b
    BY <1>1, <2>1
  <2>3. SplitStep(g, line, b + 1)
    BY <2>2, Zenon DEF Splits
  <2>4. g[b + 1] = Append(g[(b + 1) - 1], NoText)
    BY <1>6, <2>3, Zenon DEF SplitStep
  <2> QED
    BY <2>2, <2>4
<1> QED
  BY <1>5, <1>6 DEF Begun

LEMMA ConcatAt ==
  ASSUME NEW S, NEW a \in Seq(S), NEW b \in Seq(S)
  PROVE  /\ a \o b \in Seq(S) /\ Len(a \o b) = Len(a) + Len(b)
         /\ \A i \in 1 .. Len(a) : (a \o b)[i] = a[i]
         /\ \A i \in 1 .. Len(b) : (a \o b)[Len(a) + i] = b[i]
OBVIOUS

LEMMA SeqWider ==
  ASSUME NEW S, NEW T, S \subseteq T, NEW a \in Seq(S)
  PROVE  a \in Seq(T)
OBVIOUS

Joined(c, a, m, b, n, S) ==
  /\ c \in Seq(S) /\ Len(c) = m + n
  /\ \A i \in 1 .. m : c[i] = a[i]
  /\ \A i \in 1 .. n : c[m + i] = b[i]

LEMMA ConcatParts ==
  ASSUME NEW S, NEW a \in Seq(S), NEW b \in Seq(S), NEW m \in Nat, NEW n \in Nat,
         Len(a) = m, Len(b) = n
  PROVE  Joined(a \o b, a, m, b, n, S)
BY ConcatAt DEF Joined

LEMMA PieceOf ==
  ASSUME NEW S, NEW line \in Seq(S), NEW T, NEW a \in Seq(T), NEW m \in Nat, m + Len(a) <= Len(line),
         \A i \in 1 .. Len(a) : line[m + i] = a[i]
  PROVE  SubSeq(line, m + 1, m + Len(a)) = a
<1>1. PICK n \in Nat : n = Len(line)
  OBVIOUS
<1>2. PICK k \in Nat : k = Len(a)
  OBVIOUS
<1> DEFINE s == SubSeq(line, m + 1, m + k)
<1>3. CASE k = 0
  <2>1. s = <<>>
    BY <1>1, <1>2, <1>3
  <2>2. a = <<>>
    <3>1. Len(a) = 0
      BY <1>2, <1>3
    <3> QED
      BY <3>1
  <2> QED
    BY <1>2, <2>1, <2>2
<1>4. CASE k # 0
  <2>1. m + 1 \in 1 .. Len(line) /\ m + k \in 1 .. Len(line) /\ m + 1 <= m + k
    BY <1>1, <1>2, <1>4
  <2>2. /\ s \in Seq(S) /\ Len(s) = m + k - (m + 1) + 1
        /\ \A i \in 1 .. m + k - (m + 1) + 1 : s[i] = line[(m + 1) + i - 1]
    BY <2>1, PartSeq
  <2>3. m + k - (m + 1) + 1 = k /\ \A i \in 1 .. k : (m + 1) + i - 1 = m + i
    BY <1>1, <1>2
  <2>4. Len(s) = Len(a) /\ \A i \in 1 .. Len(s) : s[i] = a[i]
    <3>1. Len(s) = k /\ \A i \in 1 .. k : s[i] = line[m + i]
      BY <2>2, <2>3
    <3> HIDE DEF s
    <3> QED
      BY <1>2, <3>1
  <2> HIDE DEF s
  <2>5. s = a
    BY <2>2, <2>4, SameSeq
  <2> QED
    BY <1>2, <2>5 DEF s
<1> QED
  BY <1>3, <1>4

\* Where the parts of a line are.
LineParts(line, a, b, burn, S) ==
  LET m == Len(a)
      n == Len(b)
  IN  /\ line \in Seq(S) /\ m \in Nat /\ n \in Nat /\ Len(line) = m + n + 7
      /\ line[1] = "stamp" /\ line[2] = ","
      /\ \A i \in 1 .. m : line[2 + i] = a[i]
      /\ line[m + 3] = ","
      /\ \A i \in 1 .. n : line[m + 3 + i] = b[i]
      /\ line[m + n + 4] = "," /\ line[m + n + 5] = burn /\ line[m + n + 6] = ","
      /\ line[m + n + 7] = "NOT_RUN"

LEMMA LinePartsOf ==
  ASSUME NEW S, NEW mac \in Seq(S), NEW serial \in Seq(S), NEW burn
  PROVE  LineParts(Line(mac, serial, burn), Safe(mac), Safe(serial), burn,
                   S \cup {"_", ",", "stamp", "NOT_RUN", burn})
<1> DEFINE T == S \cup {"_", ",", "stamp", "NOT_RUN", burn}
           a == Safe(mac)
           b == Safe(serial)
           s1 == <<"stamp", ",">>
           s3 == <<",">>
           s5 == <<",", burn, ",", "NOT_RUN">>
           p2 == s1 \o a
           p3 == p2 \o s3
           p4 == p3 \o b
           line == p4 \o s5
<1>1. Line(mac, serial, burn) = line
  BY DEF Line
<1>2. a \in Seq(T) /\ b \in Seq(T)
  <2>1. a \in Seq(S \cup {"_"}) /\ b \in Seq(S \cup {"_"})
    BY SafeText
  <2>2. S \cup {"_"} \subseteq T
    OBVIOUS
  <2> HIDE DEF a, b, T
  <2> QED
    BY <2>1, <2>2, SeqWider
<1>3. /\ s1 \in Seq(T) /\ Len(s1) = 2 /\ s3 \in Seq(T) /\ Len(s3) = 1
      /\ s5 \in Seq(T) /\ Len(s5) = 4
  OBVIOUS
<1>31. /\ s1[1] = "stamp" /\ s1[2] = "," /\ s3[1] = ","
       /\ s5[1] = "," /\ s5[2] = burn /\ s5[3] = "," /\ s5[4] = "NOT_RUN"
  OBVIOUS
<1> HIDE DEF T, a, b, s1, s3, s5
<1>4. PICK m \in Nat : m = Len(a)
  BY <1>2
<1>5. PICK n \in Nat : n = Len(b)
  BY <1>2
<1>51. 1 \in Nat /\ 2 \in Nat /\ 4 \in Nat /\ 2 + m \in Nat /\ 2 + m + 1 \in Nat /\ 2 + m + 1 + n \in Nat
  OBVIOUS
<1>6. /\ p2 \in Seq(T) /\ Len(p2) = 2 + m
      /\ \A i \in 1 .. 2 : p2[i] = s1[i]
      /\ \A i \in 1 .. m : p2[2 + i] = a[i]
  <2>1. Joined(p2, s1, 2, a, m, T)
    BY <1>2, <1>3, <1>4, <1>51, ConcatParts, Zenon
  <2> QED
    BY <2>1 DEF Joined
<1> HIDE DEF p2
<1>7. /\ p3 \in Seq(T) /\ Len(p3) = 2 + m + 1
      /\ \A i \in 1 .. 2 + m : p3[i] = p2[i]
      /\ \A i \in 1 .. 1 : p3[2 + m + i] = s3[i]
  <2>1. Joined(p3, p2, 2 + m, s3, 1, T)
    BY <1>3, <1>51, <1>6, ConcatParts, Zenon
  <2> QED
    BY <2>1 DEF Joined
<1> HIDE DEF p3
<1>8. /\ p4 \in Seq(T) /\ Len(p4) = 2 + m + 1 + n
      /\ \A i \in 1 .. 2 + m + 1 : p4[i] = p3[i]
      /\ \A i \in 1 .. n : p4[2 + m + 1 + i] = b[i]
  <2>1. Joined(p4, p3, 2 + m + 1, b, n, T)
    BY <1>2, <1>5, <1>51, <1>7, ConcatParts, Zenon
  <2> QED
    BY <2>1 DEF Joined
<1> HIDE DEF p4
<1>9. /\ line \in Seq(T) /\ Len(line) = 2 + m + 1 + n + 4
      /\ \A i \in 1 .. 2 + m + 1 + n : line[i] = p4[i]
      /\ \A i \in 1 .. 4 : line[2 + m + 1 + n + i] = s5[i]
  <2>1. Joined(line, p4, 2 + m + 1 + n, s5, 4, T)
    BY <1>3, <1>51, <1>8, ConcatParts, Zenon
  <2> QED
    BY <2>1 DEF Joined
<1> HIDE DEF line
<1>10. Len(line) = m + n + 7
  BY <1>9
<1>11. line[1] = "stamp" /\ line[2] = ","
  <2>1. \A i \in 1 .. 2 : i \in 1 .. 2 + m /\ i \in 1 .. 2 + m + 1 /\ i \in 1 .. 2 + m + 1 + n
    OBVIOUS
  <2>2. \A i \in 1 .. 2 : line[i] = s1[i]
    BY <2>1, <1>6, <1>7, <1>8, <1>9
  <2>3. line[1] = s1[1] /\ line[2] = s1[2]
    BY <2>2
  <2> QED
    BY <2>3, <1>31
<1>12. ASSUME NEW i \in 1 .. m PROVE line[2 + i] = a[i]
  <2>1. 2 + i \in 1 .. 2 + m /\ 2 + i \in 1 .. 2 + m + 1 /\ 2 + i \in 1 .. 2 + m + 1 + n
    OBVIOUS
  <2> QED
    BY <2>1, <1>6, <1>7, <1>8, <1>9
<1>13. line[m + 3] = ","
  <2>1. m + 3 = 2 + m + 1 /\ m + 3 \in 1 .. 2 + m + 1 /\ m + 3 \in 1 .. 2 + m + 1 + n /\ 1 \in 1 .. 1
    OBVIOUS
  <2> QED
    <3>1. p3[2 + m + 1] = s3[1]
      BY <2>1, <1>7
    <3>2. line[2 + m + 1] = p3[2 + m + 1]
      BY <2>1, <1>8, <1>9
    <3> QED
      BY <2>1, <3>1, <3>2, <1>31
<1>14. ASSUME NEW i \in 1 .. n PROVE line[m + 3 + i] = b[i]
  <2>1. m + 3 + i = 2 + m + 1 + i /\ m + 3 + i \in 1 .. 2 + m + 1 + n
    OBVIOUS
  <2> QED
    BY <2>1, <1>8, <1>9
<1>15. line[m + n + 4] = "," /\ line[m + n + 5] = burn /\ line[m + n + 6] = "," /\ line[m + n + 7] = "NOT_RUN"
  <2> DEFINE k == 2 + m + 1 + n
  <2>1. m + n + 4 = k + 1 /\ m + n + 5 = k + 2 /\ m + n + 6 = k + 3 /\ m + n + 7 = k + 4
    OBVIOUS
  <2>2. \A i \in 1 .. 4 : line[k + i] = s5[i]
    BY <1>9
  <2> HIDE DEF k
  <2>3. line[k + 1] = s5[1] /\ line[k + 2] = s5[2] /\ line[k + 3] = s5[3] /\ line[k + 4] = s5[4]
    BY <2>2
  <2> QED
    BY <2>1, <2>3, <1>31
<1>16. LineParts(line, a, b, burn, T)
  BY <1>4, <1>5, <1>9, <1>10, <1>11, <1>12, <1>13, <1>14, <1>15 DEF LineParts
<1> QED
  BY <1>1, <1>16 DEF T, a, b

HoldsAt(line, m, a, k) == \A i \in 1 .. k : line[m + i] = a[i]

OneColumn(a) == \A i \in 1 .. Len(a) : a[i] # ","

Ended(g, line, S, x, a, e) ==
  /\ g[e] = Append(x, a) /\ a \in Seq(S)
  /\ e + 1 <= Len(line) /\ line[e + 1] = "," => Begun(g, e + 1, Append(x, a))

\* A column that has been read: g and the columns so far, after the comma.
LEMMA FieldRead ==
  ASSUME NEW S, NEW line \in Seq(S), NEW g, Splits(g, line, S), NEW x \in Seq(Seq(S)),
         NEW m \in Nat, NEW k \in Nat, NEW e, e = m + k, e <= Len(line),
         NEW T, NEW a \in Seq(T), Len(a) = k,
         Begun(g, m, x), HoldsAt(line, m, a, k), OneColumn(a)
  PROVE  Ended(g, line, S, x, a, e)
<1>1. SubSeq(line, m + 1, m + k) = a
  <2>1. m + Len(a) <= Len(line) /\ \A i \in 1 .. Len(a) : line[m + i] = a[i]
    BY Zenon DEF HoldsAt
  <2>2. SubSeq(line, m + 1, m + Len(a)) = a
    BY <2>1, PieceOf, Zenon
  <2> QED
    BY <2>2, Zenon
<1>2. NoComma(line, m, m + k)
  <2>1. SUFFICES ASSUME NEW i \in m + 1 .. m + k PROVE line[i] # ","
    BY Zenon DEF NoComma
  <2>2. i - m \in 1 .. k /\ m + (i - m) = i
    OBVIOUS
  <2>3. a[i - m] # ","
    BY <2>2, Zenon DEF OneColumn
  <2>4. line[i] = a[i - m]
    BY <2>2, Zenon DEF HoldsAt
  <2> QED
    BY <2>3, <2>4, Zenon
<1>3. m + k \in Nat /\ m <= m + k
  OBVIOUS
<1>4. /\ g[m + k] = Append(x, SubSeq(line, m + 1, m + k))
      /\ SubSeq(line, m + 1, m + k) \in Seq(S)
      /\ (m + k) + 1 <= Len(line) /\ line[(m + k) + 1] = "," =>
           Begun(g, (m + k) + 1, Append(x, SubSeq(line, m + 1, m + k)))
  BY <1>2, <1>3, SplitField, Zenon
<1> QED
  BY <1>1, <1>4, Zenon DEF Ended

LEMMA OneTuple ==
  ASSUME NEW w
  PROVE  LET c == <<w>>
         IN  c \in Seq({w}) /\ Len(c) = 1 /\ c[1] = w /\ \A i \in 1 .. Len(c) : i = 1
OBVIOUS

LEMMA OneWord ==
  ASSUME NEW w, w # ","
  PROVE  LET c == <<w>> IN c \in Seq({w}) /\ Len(c) = 1 /\ c[1] = w /\ OneColumn(c)
<1> DEFINE c == <<w>>
<1>1. c \in Seq({w}) /\ Len(c) = 1 /\ c[1] = w /\ \A i \in 1 .. Len(c) : i = 1
  BY OneTuple
<1> HIDE DEF c
<1>3. OneColumn(c)
  BY <1>1, Zenon DEF OneColumn
<1> QED
  BY <1>1, <1>3 DEF c

LEMMA HoldsOne ==
  ASSUME NEW w, NEW line, NEW m \in Nat, NEW c, c[1] = w, line[m + 1] = w
  PROVE  HoldsAt(line, m, c, 1)
<1>1. \A i \in 1 .. 1 : i = 1
  OBVIOUS
<1> QED
  BY <1>1, Zenon DEF HoldsAt

LEMMA SafePlain ==
  ASSUME NEW S, NEW text \in Seq(S)
  PROVE  OneColumn(Safe(text))
<1>1. SUFFICES ASSUME NEW i \in 1 .. Len(Safe(text)), Safe(text)[i] = "," PROVE FALSE
  BY Zenon DEF OneColumn
<1>2. Safe(text)[i] = IF text[i] = "," THEN "_" ELSE text[i]
  BY SafeText
<1> QED
  BY <1>1, <1>2

\* A line is split into what was put into it.
LEMMA LineSplit ==
  ASSUME NEW S, NEW mac \in Seq(S), NEW serial \in Seq(S), NEW burn \in Burns
  PROVE  LET cols == Split(Line(mac, serial, burn))
         IN  DOMAIN cols = 1 .. 5 /\ cols[2] = Safe(mac) /\ cols[3] = Safe(serial) /\ cols[4] = <<burn>>
<1> DEFINE T == S \cup {"_", ",", "stamp", "NOT_RUN", burn}
           line == Line(mac, serial, burn)
           a == Safe(mac)
           b == Safe(serial)
<1>1. LineParts(line, a, b, burn, T)
  BY LinePartsOf
<1>2. a \in Seq(S \cup {"_"}) /\ b \in Seq(S \cup {"_"})
  BY SafeText
<1>21. OneColumn(a) /\ OneColumn(b)
  BY SafePlain
<1> HIDE DEF T, line, a, b
<1> DEFINE c1 == <<"stamp">>
           c4 == <<burn>>
           c5 == <<"NOT_RUN">>
           x0 == <<>>
           x1 == Append(x0, c1)
           x2 == Append(x1, a)
           x3 == Append(x2, b)
           x4 == Append(x3, c4)
           x5 == Append(x4, c5)
<1>3. line \in Seq(T)
  BY <1>1 DEF LineParts
<1>4. PICK g : Splits(g, line, T) /\ Split(line) = g[Len(line)]
  BY <1>3, SplitExists
<1>5. PICK m \in Nat : m = Len(a)
  BY <1>1 DEF LineParts
<1>6. PICK n \in Nat : n = Len(b)
  BY <1>1 DEF LineParts
<1>7. Len(line) = m + n + 7
  BY <1>1, <1>5, <1>6 DEF LineParts
<1>8. Begun(g, 0, x0) /\ x0 \in Seq(Seq(T))
  BY <1>4 DEF Splits, Begun, NoText
<1>9. Begun(g, 2, x1) /\ x1 \in Seq(Seq(T))
  <2>1. c1 \in Seq({"stamp"}) /\ Len(c1) = 1 /\ c1[1] = "stamp" /\ OneColumn(c1)
    <3>1. "stamp" # ","
      BY DEF Burns
    <3> QED
      BY <3>1, OneWord, Zenon
  <2>3. line[1] = "stamp" /\ line[2] = ","
    BY <1>1 DEF LineParts
  <2>4. HoldsAt(line, 0, c1, 1)
    <3>0. 0 \in Nat /\ 0 + 1 = 1
      OBVIOUS
    <3>1. 0 \in Nat /\ line[0 + 1] = "stamp"
      BY <2>3, <3>0, Zenon
    <3> QED
      BY <2>1, <3>1, HoldsOne, Zenon
  <2>50. 0 + 1 <= Len(line) /\ 0 + 1 + 1 <= Len(line) /\ 0 + 1 + 1 = 2 /\ 0 \in Nat /\ 1 \in Nat
    BY <1>7
  <2>5. line[0 + 1 + 1] = ","
    BY <2>3, <2>50, Zenon
  <2> HIDE DEF c1, x0
  <2>51. Ended(g, line, T, x0, c1, 0 + 1)
    BY <1>3, <1>4, <1>8, <2>1, <2>4, <2>50, FieldRead, Zenon
  <2>6. c1 \in Seq(T) /\ Begun(g, 0 + 1 + 1, Append(x0, c1))
    BY <2>5, <2>50, <2>51, Zenon DEF Ended
  <2>7. Append(x0, c1) \in Seq(Seq(T))
    BY <1>8, <2>6
  <2> QED
    BY <2>50, <2>6, <2>7
<1> HIDE DEF x1
<1>10. Begun(g, m + 3, x2) /\ x2 \in Seq(Seq(T))
  <2>1. HoldsAt(line, 2, a, m)
    BY <1>1, <1>5 DEF LineParts, HoldsAt
  <2>2. line[m + 3] = ","
    BY <1>1, <1>5 DEF LineParts
  <2>3. 2 + m <= Len(line) /\ 2 + m + 1 <= Len(line) /\ 2 + m + 1 = m + 3 /\ 2 \in Nat
    BY <1>7
  <2>30. line[2 + m + 1] = ","
    BY <2>2, <2>3, Zenon
  <2>31. Ended(g, line, T, x1, a, 2 + m)
    BY <1>2, <1>21, <1>3, <1>4, <1>5, <1>9, <2>1, <2>3, FieldRead, Zenon
  <2>4. a \in Seq(T) /\ Begun(g, 2 + m + 1, x2)
    BY <2>3, <2>30, <2>31, Zenon DEF Ended
  <2>5. Append(x1, a) \in Seq(Seq(T))
    BY <1>9, <2>4
  <2> QED
    BY <2>3, <2>4, <2>5
<1> HIDE DEF x2
<1>11. Begun(g, m + n + 4, x3) /\ x3 \in Seq(Seq(T))
  <2>1. HoldsAt(line, m + 3, b, n)
    BY <1>1, <1>5, <1>6 DEF LineParts, HoldsAt
  <2>2. line[m + n + 4] = ","
    BY <1>1, <1>5, <1>6 DEF LineParts
  <2>3. (m + 3) + n <= Len(line) /\ (m + 3) + n + 1 <= Len(line) /\ (m + 3) + n + 1 = m + n + 4 /\ m + 3 \in Nat
    BY <1>7
  <2>31. line[(m + 3) + n + 1] = ","
    BY <2>2, <2>3
  <2>4. b \in Seq(T) /\ Begun(g, (m + 3) + n + 1, x3)
    <3>1. Ended(g, line, T, x2, b, (m + 3) + n)
      BY <1>2, <1>21, <1>3, <1>4, <1>6, <1>10, <2>1, <2>3, FieldRead, Zenon
    <3> QED
      BY <2>3, <2>31, <3>1, Zenon DEF Ended
  <2>5. Append(x2, b) \in Seq(Seq(T))
    BY <1>10, <2>4
  <2> QED
    BY <2>3, <2>4, <2>5
<1> HIDE DEF x3
<1>12. Begun(g, m + n + 6, x4) /\ x4 \in Seq(Seq(T))
  <2>1. c4 \in Seq({burn}) /\ Len(c4) = 1 /\ c4[1] = burn /\ OneColumn(c4)
    <3>1. burn # ","
      BY DEF Burns
    <3> QED
      BY <3>1, OneWord, Zenon
  <2>3. line[m + n + 5] = burn /\ line[m + n + 6] = ","
    BY <1>1, <1>5, <1>6 DEF LineParts
  <2>4. (m + n + 4) + 1 = m + n + 5 /\ (m + n + 4) + 1 + 1 = m + n + 6 /\ m + n + 4 \in Nat /\ 1 \in Nat
        /\ (m + n + 4) + 1 <= Len(line) /\ (m + n + 4) + 1 + 1 <= Len(line)
    BY <1>7
  <2>41. line[(m + n + 4) + 1] = burn /\ line[(m + n + 4) + 1 + 1] = ","
    BY <2>3, <2>4
  <2>5. HoldsAt(line, (m + n + 4), c4, 1)
    BY <2>1, <2>41, <2>4, HoldsOne, Zenon
  <2> HIDE DEF c4
  <2>6. c4 \in Seq(T) /\ Begun(g, (m + n + 4) + 1 + 1, x4)
    <3>1. Ended(g, line, T, x3, c4, (m + n + 4) + 1)
      BY <1>3, <1>4, <1>11, <2>1, <2>4, <2>5, FieldRead, Zenon
    <3> QED
      BY <2>4, <2>41, <3>1, Zenon DEF Ended
  <2>7. Append(x3, c4) \in Seq(Seq(T))
    BY <1>11, <2>6
  <2> QED
    BY <2>4, <2>6, <2>7
<1> HIDE DEF x4
<1>13. g[Len(line)] = x5 /\ c5 \in Seq(T)
  <2>1. c5 \in Seq({"NOT_RUN"}) /\ Len(c5) = 1 /\ c5[1] = "NOT_RUN" /\ OneColumn(c5)
    <3>1. "NOT_RUN" # ","
      BY DEF Burns
    <3> QED
      BY <3>1, OneWord, Zenon
  <2>3. line[m + n + 7] = "NOT_RUN"
    BY <1>1, <1>5, <1>6 DEF LineParts
  <2>4. (m + n + 6) + 1 = m + n + 7 /\ m + n + 6 \in Nat /\ 1 \in Nat /\ (m + n + 6) + 1 <= Len(line)
        /\ (m + n + 6) + 1 = Len(line)
    BY <1>7
  <2>5. HoldsAt(line, m + n + 6, c5, 1)
    BY <2>1, <2>3, <2>4, HoldsOne, Zenon
  <2> HIDE DEF c5
  <2>6. g[(m + n + 6) + 1] = x5 /\ c5 \in Seq(T)
    <3>1. Ended(g, line, T, x4, c5, (m + n + 6) + 1)
      BY <1>3, <1>4, <1>12, <2>1, <2>4, <2>5, FieldRead, Zenon
    <3> QED
      BY <3>1, Zenon DEF Ended
  <2> QED
    BY <2>4, <2>6
<1>14. DOMAIN x5 = 1 .. 5 /\ x5[2] = a /\ x5[3] = b /\ x5[4] = c4
  <2>0. x1 = Append(x0, c1) /\ x2 = Append(x1, a) /\ x3 = Append(x2, b) /\ x4 = Append(x3, c4)
        /\ c5 \in Seq(T)
    BY <1>13 DEF x1, x2, x3, x4
  <2> HIDE DEF c1, c4, c5
  <2>1. Len(x1) = 1
    BY <2>0
  <2>2. Len(x2) = 2 /\ x2[2] = a
    BY <1>9, <2>0, <2>1
  <2>3. Len(x3) = 3 /\ x3[2] = a /\ x3[3] = b
    BY <1>10, <2>0, <2>2
  <2>4. Len(x4) = 4 /\ x4[2] = a /\ x4[3] = b /\ x4[4] = c4
    BY <1>11, <2>0, <2>3
  <2>5. Len(x5) = 5 /\ x5[2] = a /\ x5[3] = b /\ x5[4] = c4 /\ x5 \in Seq(Seq(T))
    BY <1>12, <2>0, <2>4
  <2> HIDE DEF x5
  <2> QED
    BY <2>5
<1> HIDE DEF x5
<1> QED
  BY <1>4, <1>13, <1>14, Zenon DEF line, a, b

LEMMA LineMatches ==
  ASSUME NEW S, NEW mac \in Seq(S), NEW serial \in Seq(S), NEW burn \in Burns, NEW m, NEW s
  PROVE  Matches(Line(mac, serial, burn), m, s) <=>
           burn = "OK" /\ (Trimmed(Safe(mac)) = m \/ Trimmed(Safe(serial)) = s)
<1> DEFINE line == Line(mac, serial, burn)
           cols == Split(line)
<1>1. burn # "," /\ burn # " "
  BY DEF Burns
<1> DEFINE a == Safe(mac)
           b == Safe(serial)
<1>4. DOMAIN cols = 1 .. 5 /\ cols[2] = a /\ cols[3] = b /\ cols[4] = <<burn>>
  BY LineSplit
<1> HIDE DEF a, b, cols
<1> DEFINE read == Columns(line)
<1>5. read = [k \in 1 .. 5 |-> Trimmed(cols[k])]
  BY <1>4, Zenon DEF Columns, cols
<1> HIDE DEF read
<1>6. Len(read) = 5 /\ read[2] = Trimmed(a) /\ read[3] = Trimmed(b) /\ read[4] = Trimmed(<<burn>>)
  BY <1>4, <1>5, SMTT(30)
<1>7. Trimmed(<<burn>>) = <<burn>>
  <2>1. /\ <<burn>> \in Seq({burn}) /\ <<burn>>[1] = burn
        /\ \A i \in 1 .. Len(<<burn>>) : i = 1
    BY OneTuple
  <2>2. \A i \in 1 .. Len(<<burn>>) : <<burn>>[i] # " "
    BY <1>1, <2>1, Zenon
  <2> QED
    BY <2>1, <2>2, TrimmedPlain, Zenon
<1>8. <<burn>> = <<"OK">> <=> burn = "OK"
  OBVIOUS
<1>9. Matches(line, m, s) <=>
        Len(read) >= 5 /\ read[4] = <<"OK">> /\ (read[2] = m \/ read[3] = s)
  BY Zenon DEF Matches, read
<1> QED
  BY <1>6, <1>7, <1>8, <1>9 DEF a, b

-----------------------------------------------------------------------------
(* The files of a directory.                                               *)

Lines == {Header} \cup {Line(mac, serial, burn) : mac \in Macs \cup {NoMac}, serial \in Texts, burn \in Burns}

FileOK(files, name, today) ==
  /\ name \in (1 .. today) \X (1 .. LastIndex)
  /\ files[name] \in Seq(Lines)
  /\ \A i \in 1 .. name[2] - 1 : Full(files, <<name[1], i>>)

FilesOK(files, today) == \A name \in DOMAIN files : FileOK(files, name, today)

\* Where the next row goes: behind everything that is there.
IsNextFile(files, name, today) ==
  /\ name \in (1 .. today) \X (1 .. LastIndex) /\ name[1] = today
  /\ \A i \in 1 .. name[2] - 1 : Full(files, <<today, i>>)
  /\ \A other \in DOMAIN files : other[1] < today \/ (other[1] = today /\ other[2] <= name[2])

LEMMA ChosenFile ==
  ASSUME NEW today \in Nat \ {0}, NEW files, FilesOK(files, today)
  PROVE  IsNextFile(files, CurrentCsvFile(files, today), today)
<1> DEFINE free == {i \in 1 .. LastIndex : ~Full(files, <<today, i>>)}
           at == IF free = {} THEN LastIndex ELSE Min(free)
<1>1. CurrentCsvFile(files, today) = <<today, at>>
  BY DEF CurrentCsvFile
<1>2. LastIndex \in Nat \ {0}
  BY RecordsAssumption
<1>3. /\ at \in 1 .. LastIndex
      /\ \A i \in 1 .. at - 1 : Full(files, <<today, i>>)
      /\ Full(files, <<today, at>>) => at = LastIndex
  <2>1. CASE free = {}
    <3>1. \A i \in 1 .. LastIndex : Full(files, <<today, i>>)
      BY <2>1
    <3> QED
      BY <1>2, <2>1, <3>1
  <2>2. CASE free # {}
    <3>1. free \in SUBSET Nat
      OBVIOUS
    <3>2. Min(free) \in free /\ \A y \in free : Min(free) <= y
      BY <2>2, <3>1, MinOf
    <3>3. at \in free /\ \A y \in free : at <= y
      BY <2>2, <3>2
    <3>4. at \in 1 .. LastIndex /\ ~Full(files, <<today, at>>)
      BY <3>3
    <3>5. ASSUME NEW i \in 1 .. at - 1 PROVE Full(files, <<today, i>>)
      <4>1. i \in 1 .. LastIndex /\ ~(at <= i)
        BY <1>2, <3>4
      <4> QED
        BY <3>3, <4>1
    <3> HIDE DEF at, free
    <3> QED
      BY <3>4, <3>5
  <2> QED
    BY <2>1, <2>2
<1> HIDE DEF at, free
<1>4. ASSUME NEW other \in DOMAIN files
      PROVE  other[1] < today \/ (other[1] = today /\ other[2] <= at)
  <2>1. /\ other \in (1 .. today) \X (1 .. LastIndex)
        /\ \A i \in 1 .. other[2] - 1 : Full(files, <<other[1], i>>)
    BY <1>4, Zenon DEF FilesOK, FileOK
  <2>2. SUFFICES ASSUME other[1] = today, other[2] > at PROVE FALSE
    BY <1>2, <1>3, <2>1
  <2>3. at \in 1 .. other[2] - 1
    BY <1>2, <1>3, <2>1, <2>2
  <2>4. Full(files, <<today, at>>)
    BY <2>1, <2>2, <2>3
  <2> QED
    BY <1>2, <1>3, <2>1, <2>2, <2>4
<1> DEFINE name == CurrentCsvFile(files, today)
<1>5. name[1] = today /\ name[2] = at /\ name \in (1 .. today) \X (1 .. LastIndex)
  BY <1>1, <1>3
<1> HIDE DEF name
<1> QED
  BY <1>3, <1>4, <1>5, Zenon DEF IsNextFile, name

\* More lines in the file the next row goes to.
LEMMA PutOK ==
  ASSUME NEW today \in Nat \ {0}, NEW files, FilesOK(files, today), NEW name,
         IsNextFile(files, name, today), NEW lines \in Seq(Lines),
         name \in DOMAIN files => Len(files[name]) <= Len(lines)
  PROVE  FilesOK(Put(files, name, lines), today)
<1> DEFINE more == Put(files, name, lines)
<1>1. /\ DOMAIN more = DOMAIN files \cup {name} /\ more[name] = lines
      /\ \A n \in DOMAIN files : n # name => more[n] = files[n]
  BY DEF Put
<1> HIDE DEF more
<1>2. ASSUME NEW n, Full(files, n) PROVE Full(more, n)
  <2>1. n \in DOMAIN files /\ Len(files[n]) >= FileLimit
    BY <1>2 DEF Full
  <2>2. CASE n = name
    <3>1. files[n] \in Seq(Lines)
      BY <2>1, Zenon DEF FilesOK, FileOK
    <3>2. Len(files[n]) \in Nat /\ Len(lines) \in Nat /\ FileLimit \in Nat
      BY <3>1, RecordsAssumption
    <3>3. Len(more[n]) >= FileLimit
      BY <1>1, <2>1, <2>2, <3>2
    <3> QED
      BY <1>1, <2>2, <3>3 DEF Full
  <2>3. CASE n # name
    BY <1>1, <2>1, <2>3 DEF Full
  <2> QED
    BY <2>2, <2>3
<1>3. ASSUME NEW n \in DOMAIN more PROVE FileOK(more, n, today)
  <2>1. CASE n = name
    BY <1>1, <1>2, <2>1, Zenon DEF FileOK, IsNextFile
  <2>2. CASE n # name
    BY <1>1, <1>2, <1>3, <2>2, Zenon DEF FileOK, FilesOK
  <2> QED
    BY <2>1, <2>2
<1> QED
  BY <1>3 DEF FilesOK, more

-----------------------------------------------------------------------------
(* The rows and the files of one directory.                                *)

AtPlace(files, r) ==
  /\ r.name \in DOMAIN files /\ r.line \in 1 .. Len(files[r.name])
  /\ files[r.name][r.line] = Line(r.mac, r.serial, r.burn)

RowsAt(rows, d) == {i \in 1 .. Len(rows) : rows[i].dir = d}
Placed(files, rows, d) == \A i \in RowsAt(rows, d) : AtPlace(files, rows[i])
Ordered(rows, d) == \A i, j \in RowsAt(rows, d) : i < j => Before(rows[i], rows[j])
RowAt(rows, d, name, k) == \E i \in RowsAt(rows, d) : rows[i].name = name /\ rows[i].line = k
Known(files, rows, d) ==
  \A name \in DOMAIN files : \A k \in 1 .. Len(files[name]) :
    (k = 1 /\ files[name][k] = Header) \/ RowAt(rows, d, name, k)

HistoryIn(files, rows, d) == Placed(files, rows, d) /\ Ordered(rows, d) /\ Known(files, rows, d)

LEMMA HistoryParts ==
  /\ HistoryInOrder <=> \A d \in Dirs : HistoryIn(disk[d].csv, written, d)
  /\ HistoryInOrder' <=> \A d \in Dirs : HistoryIn(disk'[d].csv, written', d)
BY Zenon DEF HistoryInOrder, HistoryIn, Placed, Ordered, Known, AtPlace, RowsAt, RowAt

LEMMA OneMoreRow ==
  ASSUME NEW R, NEW rows \in Seq(R), NEW r \in R, NEW n \in Nat, n = Len(rows)
  PROVE  LET a == Append(rows, r)
         IN  /\ Len(a) = n + 1 /\ a[n + 1] = r
             /\ \A i \in 1 .. n : a[i] = rows[i]
             /\ \A i \in 1 .. n + 1 : i \in 1 .. n \/ i = n + 1
OBVIOUS

LEMMA RowsAtMore ==
  ASSUME NEW R, NEW rows \in Seq(R), NEW r \in R, NEW n \in Nat, n = Len(rows), NEW d
  PROVE  LET a == Append(rows, r)
         IN  /\ \A i \in RowsAt(rows, d) : i \in RowsAt(a, d) /\ i \in 1 .. n /\ a[i] = rows[i]
             /\ \A i \in RowsAt(a, d) : i \in RowsAt(rows, d) \/ (i = n + 1 /\ r.dir = d /\ a[i] = r)
             /\ r.dir = d => n + 1 \in RowsAt(a, d) /\ a[n + 1] = r
<1> DEFINE a == Append(rows, r)
<1>1. /\ Len(a) = n + 1 /\ a[n + 1] = r
      /\ \A i \in 1 .. n : a[i] = rows[i]
      /\ \A i \in 1 .. n + 1 : i \in 1 .. n \/ i = n + 1
  BY OneMoreRow
<1>2. n + 1 \in 1 .. n + 1 /\ \A i \in 1 .. n : i \in 1 .. n + 1
  OBVIOUS
<1> HIDE DEF a
<1>3. ASSUME NEW i \in RowsAt(rows, d) PROVE i \in RowsAt(a, d) /\ i \in 1 .. n /\ a[i] = rows[i]
  <2>1. i \in 1 .. n /\ rows[i].dir = d
    BY <1>3, Zenon DEF RowsAt
  <2>2. a[i] = rows[i] /\ i \in 1 .. Len(a)
    BY <1>1, <1>2, <2>1, Zenon
  <2> QED
    BY <2>1, <2>2, Zenon DEF RowsAt
<1>4. ASSUME NEW i \in RowsAt(a, d)
      PROVE  i \in RowsAt(rows, d) \/ (i = n + 1 /\ r.dir = d /\ a[i] = r)
  <2>1. i \in 1 .. n + 1 /\ a[i].dir = d
    BY <1>1, <1>4, Zenon DEF RowsAt
  <2>2. CASE i \in 1 .. n
    BY <1>1, <2>1, <2>2, Zenon DEF RowsAt
  <2>3. CASE i = n + 1
    BY <1>1, <2>1, <2>3, Zenon
  <2> QED
    BY <1>1, <2>1, <2>2, <2>3, Zenon
<1>5. r.dir = d => n + 1 \in RowsAt(a, d) /\ a[n + 1] = r
  BY <1>1, <1>2, Zenon DEF RowsAt
<1> QED
  BY <1>3, <1>4, <1>5 DEF a

\* A row of the other directory.
LEMMA AppendElsewhere ==
  ASSUME NEW R, NEW rows \in Seq(R), NEW r \in R, NEW d, r.dir # d, NEW files, HistoryIn(files, rows, d)
  PROVE  HistoryIn(files, Append(rows, r), d)
<1> DEFINE a == Append(rows, r)
<1>1. PICK n \in Nat : n = Len(rows)
  OBVIOUS
<1>2. /\ \A i \in RowsAt(rows, d) : i \in RowsAt(a, d) /\ i \in 1 .. n /\ a[i] = rows[i]
      /\ \A i \in RowsAt(a, d) : i \in RowsAt(rows, d) \/ (i = n + 1 /\ r.dir = d /\ a[i] = r)
  BY <1>1, RowsAtMore
<1> HIDE DEF a
<1>3. RowsAt(a, d) = RowsAt(rows, d) /\ \A i \in RowsAt(rows, d) : a[i] = rows[i]
  BY <1>2
<1>4. Placed(files, a, d)
  BY <1>3, Zenon DEF HistoryIn, Placed
<1>5. Ordered(a, d)
  <2>1. SUFFICES ASSUME NEW i \in RowsAt(a, d), NEW j \in RowsAt(a, d), i < j PROVE Before(a[i], a[j])
    BY Zenon DEF Ordered
  <2>2. i \in RowsAt(rows, d) /\ j \in RowsAt(rows, d) /\ a[i] = rows[i] /\ a[j] = rows[j]
    BY <1>3
  <2>3. Before(rows[i], rows[j])
    BY <2>1, <2>2, Zenon DEF HistoryIn, Ordered
  <2> QED
    BY <2>2, <2>3, Zenon
<1>6. Known(files, a, d)
  <2>1. \A f, k : RowAt(rows, d, f, k) => RowAt(a, d, f, k)
    BY <1>2, Zenon DEF RowAt
  <2> QED
    BY <2>1, Zenon DEF HistoryIn, Known
<1> QED
  BY <1>4, <1>5, <1>6 DEF HistoryIn, a

\* The row that is appended comes behind all others, and nothing else moves.
LEMMA AppendHere ==
  ASSUME NEW today \in Nat \ {0}, NEW files, FilesOK(files, today), NEW name,
         IsNextFile(files, name, today),
         NEW base \in Seq(Lines), base = IF name \in DOMAIN files THEN files[name] ELSE <<Header>>,
         NEW R, NEW rows \in Seq(R), NEW r \in R, NEW d, HistoryIn(files, rows, d),
         r.dir = d, r.name = name, r.line = Len(base) + 1,
         NEW line \in Lines, line = Line(r.mac, r.serial, r.burn)
  PROVE  HistoryIn(Put(files, name, Append(base, line)), Append(rows, r), d)
<1> DEFINE a == Append(rows, r)
           lines == Append(base, line)
           more == Put(files, name, lines)
<1>1. PICK n \in Nat : n = Len(rows)
  OBVIOUS
<1>2. PICK m \in Nat : m = Len(base)
  OBVIOUS
<1>3. /\ Len(lines) = m + 1 /\ lines[m + 1] = line
      /\ \A k \in 1 .. m : lines[k] = base[k]
      /\ \A k \in 1 .. m + 1 : k \in 1 .. m \/ k = m + 1
  BY <1>2, OneMoreRow
<1>4. /\ \A i \in RowsAt(rows, d) : i \in RowsAt(a, d) /\ i \in 1 .. n /\ a[i] = rows[i]
      /\ \A i \in RowsAt(a, d) : i \in RowsAt(rows, d) \/ (i = n + 1 /\ r.dir = d /\ a[i] = r)
      /\ n + 1 \in RowsAt(a, d) /\ a[n + 1] = r
  BY <1>1, RowsAtMore
<1> HIDE DEF a, lines
<1>5. /\ DOMAIN more = DOMAIN files \cup {name} /\ more[name] = lines
      /\ \A f \in DOMAIN files : f # name => more[f] = files[f]
  BY DEF Put
<1> HIDE DEF more
\* A row that was there is where it was.
<1>6. ASSUME NEW q, AtPlace(files, q)
      PROVE  AtPlace(more, q) /\ Before(q, r)
  <2>1. /\ q.name \in DOMAIN files /\ q.line \in 1 .. Len(files[q.name])
        /\ files[q.name][q.line] = Line(q.mac, q.serial, q.burn)
    BY <1>6, Zenon DEF AtPlace
  <2>2. CASE q.name # name
    <3>1. AtPlace(more, q)
      BY <1>5, <2>1, <2>2, Zenon DEF AtPlace
    <3>2. q.name[1] < today \/ (q.name[1] = today /\ q.name[2] <= name[2])
      BY <2>1, Zenon DEF IsNextFile
    <3>3. name \in (1 .. today) \X (1 .. LastIndex) /\ name[1] = today
      BY Zenon DEF IsNextFile
    <3>4. q.name \in (1 .. today) \X (1 .. LastIndex)
      BY <2>1, Zenon DEF FilesOK, FileOK
    <3>5. q.name[1] < name[1] \/ (q.name[1] = name[1] /\ q.name[2] < name[2])
      BY <2>2, <3>2, <3>3, <3>4, RecordsAssumption, SMTT(30)
    <3> QED
      BY <3>1, <3>5, Zenon DEF Before
  <2>3. CASE q.name = name
    <3>1. base = files[name] /\ q.line \in 1 .. m
      BY <1>2, <2>1, <2>3
    <3>2. q.line \in 1 .. m + 1 /\ q.line < m + 1 /\ lines[q.line] = base[q.line]
      BY <1>3, <3>1
    <3>3. AtPlace(more, q)
      BY <1>3, <1>5, <2>1, <2>3, <3>1, <3>2, Zenon DEF AtPlace
    <3>4. q.line < r.line
      BY <1>2, <3>2
    <3> QED
      BY <2>3, <3>3, <3>4, Zenon DEF Before
  <2> QED
    BY <2>2, <2>3
<1>7. AtPlace(more, r)
  <2>1. r.line = m + 1 /\ m + 1 \in 1 .. m + 1
    BY <1>2
  <2> QED
    BY <1>3, <1>5, <2>1, Zenon DEF AtPlace
<1>8. \A i \in RowsAt(rows, d) : AtPlace(files, rows[i])
  BY Zenon DEF HistoryIn, Placed
<1>9. Placed(more, a, d)
  BY <1>4, <1>6, <1>7, <1>8, Zenon DEF Placed
<1>10. Ordered(a, d)
  <2>1. SUFFICES ASSUME NEW i \in RowsAt(a, d), NEW j \in RowsAt(a, d), i < j PROVE Before(a[i], a[j])
    BY Zenon DEF Ordered
  <2>2. CASE j \in RowsAt(rows, d)
    <3>1. i \in RowsAt(rows, d)
      <4>1. j \in 1 .. n
        BY <1>4, <2>2
      <4>2. i # n + 1
        BY <2>1, <4>1
      <4> QED
        BY <1>4, <4>2
    <3> QED
      BY <1>4, <2>1, <2>2, <3>1, Zenon DEF HistoryIn, Ordered
  <2>3. CASE j \notin RowsAt(rows, d)
    <3>1. j = n + 1 /\ a[j] = r
      BY <1>4, <2>3
    <3>2. i \in RowsAt(rows, d)
      <4>1. i # n + 1
        BY <2>1, <3>1
      <4> QED
        BY <1>4, <4>1
    <3> QED
      BY <1>4, <1>6, <1>8, <3>1, <3>2, Zenon
  <2> QED
    BY <2>2, <2>3
<1>11. Known(more, a, d)
  <2>0. \A f, k : RowAt(rows, d, f, k) => RowAt(a, d, f, k)
    BY <1>4, Zenon DEF RowAt
  <2>1. SUFFICES ASSUME NEW f \in DOMAIN more, NEW k \in 1 .. Len(more[f])
                 PROVE  (k = 1 /\ more[f][k] = Header) \/ RowAt(a, d, f, k)
    BY Zenon DEF Known
  <2>2. CASE f # name
    <3>1. f \in DOMAIN files /\ more[f] = files[f]
      BY <1>5, <2>2
    <3> QED
      BY <2>0, <2>1, <3>1, Zenon DEF HistoryIn, Known
  <2>3. CASE f = name /\ k = m + 1
    <3>1. r.name = f /\ r.line = k
      BY <1>2, <2>3
    <3> QED
      BY <1>4, <3>1, Zenon DEF RowAt
  <2>4. CASE f = name /\ k \in 1 .. m
    <3>1. more[f][k] = base[k]
      BY <1>3, <1>5, <2>4, Zenon
    <3>2. CASE name \in DOMAIN files
      <4>1. base = files[f] /\ k \in 1 .. Len(files[f])
        BY <1>2, <2>4, <3>2
      <4> QED
        BY <2>0, <2>4, <3>1, <3>2, <4>1, Zenon DEF HistoryIn, Known
    <3>3. CASE name \notin DOMAIN files
      <4>1. base = <<Header>>
        BY <3>3
      <4>2. m = 1 /\ base[1] = Header
        BY <1>2, <4>1
      <4>3. k = 1
        BY <2>4, <4>2
      <4> QED
        BY <3>1, <4>2, <4>3
    <3> QED
      BY <3>2, <3>3
  <2>5. k \in 1 .. m + 1 \/ f # name
    BY <1>3, <1>5, <2>1
  <2> QED
    BY <1>3, <2>2, <2>3, <2>4, <2>5
<1> QED
  BY <1>9, <1>10, <1>11 DEF HistoryIn, a, lines, more

\* A file that is there and empty.
LEMMA CutShortHere ==
  ASSUME NEW files, NEW name, name \notin DOMAIN files, NEW rows, NEW d, HistoryIn(files, rows, d)
  PROVE  HistoryIn(Put(files, name, <<>>), rows, d)
<1> DEFINE more == Put(files, name, <<>>)
<1>1. /\ DOMAIN more = DOMAIN files \cup {name} /\ more[name] = <<>>
      /\ \A f \in DOMAIN files : more[f] = files[f]
  BY DEF Put
<1>2. \A k \in 1 .. Len(<<>>) : FALSE
  OBVIOUS
<1> HIDE DEF more
<1>3. Placed(more, rows, d)
  BY <1>1, Zenon DEF HistoryIn, Placed, AtPlace
<1>4. Known(more, rows, d)
  BY <1>1, <1>2, Zenon DEF HistoryIn, Known
<1> QED
  BY <1>3, <1>4 DEF HistoryIn, more

-----------------------------------------------------------------------------
(* The search.                                                             *)

RowOK(r) ==
  /\ r.dir \in Dirs /\ r.burn \in Burns /\ r.serial \in Texts /\ r.serial # NoText
  /\ r.mac \in Macs \cup {NoMac} /\ (r.burn = "OK" => r.mac \in Macs)

LEMMA SafeSame ==
  ASSUME NEW S, NEW text \in Seq(S), ~Contains(text, ",")
  PROVE  Safe(text) = text
<1>1. \A i \in 1 .. Len(text) : text[i] # ","
  BY Zenon DEF Contains
<1>2. /\ Safe(text) \in Seq(S \cup {"_"}) /\ Len(Safe(text)) = Len(text)
      /\ \A i \in 1 .. Len(text) : Safe(text)[i] = IF text[i] = "," THEN "_" ELSE text[i]
  BY SafeText, Zenon
<1>3. \A i \in 1 .. Len(text) : Safe(text)[i] = text[i]
  BY <1>1, <1>2, Zenon
<1> QED
  BY <1>2, <1>3, SameSeq, Zenon

LEMMA MacText ==
  ASSUME NEW mac \in Macs
  PROVE  mac \in Seq(Range(mac)) /\ Trimmed(Safe(mac)) = mac
<1>1. mac \in Seq(Range(mac)) /\ ~Contains(mac, ",") /\ ~Contains(mac, " ")
  BY MacsAssumption
<1>2. Safe(mac) = mac
  BY <1>1, SafeSame, Zenon
<1>3. \A i \in 1 .. Len(mac) : mac[i] # " "
  BY <1>1, Zenon DEF Contains
<1>4. Trimmed(mac) = mac
  BY <1>1, <1>3, TrimmedPlain, Zenon
<1> QED
  BY <1>1, <1>2, <1>4

LEMMA RowTexts ==
  ASSUME NEW r, RowOK(r)
  PROVE  \E Z : r.mac \in Seq(Z) /\ r.serial \in Seq(Z)
<1>1. r.serial \in Seq(DOMAIN Code)
  BY DEF RowOK, Texts
<1>2. \E Z : r.mac \in Seq(Z)
  <2>1. NoMac \in Seq({"-"})
    BY DEF NoMac
  <2> QED
    BY <2>1, MacText, Zenon DEF RowOK
<1>3. PICK Z : r.mac \in Seq(Z)
  BY <1>2
<1> DEFINE W == Z \cup DOMAIN Code
<1>4. r.mac \in Seq(W) /\ r.serial \in Seq(W)
  <2>1. Z \subseteq W /\ DOMAIN Code \subseteq W
    OBVIOUS
  <2> HIDE DEF W
  <2> QED
    BY <1>1, <1>3, <2>1, SeqWider
<1> QED
  BY <1>4

Hit(r, m, s) == r.burn = "OK" /\ (r.mac = m \/ Trimmed(Safe(r.serial)) = s)

LEMMA RowMatches ==
  ASSUME NEW r, RowOK(r), NEW m, NEW s
  PROVE  Matches(Line(r.mac, r.serial, r.burn), m, s) <=> Hit(r, m, s)
<1>1. PICK Z : r.mac \in Seq(Z) /\ r.serial \in Seq(Z)
  BY RowTexts
<1>2. r.burn \in Burns
  BY DEF RowOK
<1>3. Matches(Line(r.mac, r.serial, r.burn), m, s) <=>
        r.burn = "OK" /\ (Trimmed(Safe(r.mac)) = m \/ Trimmed(Safe(r.serial)) = s)
  BY <1>1, <1>2, LineMatches, Zenon
<1>4. r.burn = "OK" => Trimmed(Safe(r.mac)) = r.mac
  BY MacText, Zenon DEF RowOK
<1> QED
  BY <1>3, <1>4, Zenon DEF Hit

\* The search knows the header from a row.
LEMMA HeaderText ==
  \E Z : /\ Header \in Seq(Z) /\ Len(Header) = 9 /\ HeaderStart \in Seq(Z) /\ Len(HeaderStart) = 5
         /\ HeaderStart[1] = "timestamp" /\ SubSeq(HeaderStart, 1, 5) = HeaderStart
<1> DEFINE Z == {"timestamp", ",", "mac", "serial_number", "burn_result", "print_result"}
<1>1. Header \in Seq(Z) /\ Len(Header) = 9
  BY DEF Header
<1>2. Header[1] = "timestamp"
  BY DEF Header
<1> HIDE DEF Z
<1>3. 1 \in 1 .. Len(Header) /\ 5 \in 1 .. Len(Header) /\ 1 <= 5 /\ 5 - 1 + 1 = 5 /\ 1 \in 1 .. 5
      /\ 1 + 1 - 1 = 1
  BY <1>1
<1>4. /\ HeaderStart \in Seq(Z) /\ Len(HeaderStart) = 5 - 1 + 1
      /\ \A k \in 1 .. 5 - 1 + 1 : HeaderStart[k] = Header[1 + k - 1]
  BY <1>1, <1>3, PartSeq DEF HeaderStart
<1>5. HeaderStart[1] = Header[1]
  BY <1>3, <1>4
<1>6. Len(HeaderStart) = 5 /\ SubSeq(HeaderStart, 1, 5) = HeaderStart
  BY <1>3, <1>4, WholeSeq
<1> QED
  BY <1>1, <1>2, <1>4, <1>5, <1>6, Zenon

LEMMA HeaderBegins == IsPrefix(HeaderStart, Header)
<1>1. 5 <= 9 /\ SubSeq(Header, 1, 5) = HeaderStart
  BY DEF HeaderStart
<1> QED
  BY <1>1, HeaderText, Zenon DEF IsPrefix

LEMMA RowIsNoHeader ==
  ASSUME NEW r, RowOK(r)
  PROVE  ~IsPrefix(HeaderStart, Line(r.mac, r.serial, r.burn))
<1> DEFINE line == Line(r.mac, r.serial, r.burn)
<1>1. PICK Z : r.mac \in Seq(Z) /\ r.serial \in Seq(Z)
  BY RowTexts
<1>2. \E T : LineParts(line, Safe(r.mac), Safe(r.serial), r.burn, T)
  BY <1>1, LinePartsOf
<1> HIDE DEF line
<1>3. PICK T : line \in Seq(T)
  BY <1>2 DEF LineParts
<1>4. line[1] = "stamp"
  BY <1>2 DEF LineParts
<1>5. Len(HeaderStart) = 5 /\ HeaderStart[1] = "timestamp" /\ SubSeq(HeaderStart, 1, 5) = HeaderStart
  BY HeaderText
<1>6. SUFFICES ASSUME 5 <= Len(line), SubSeq(HeaderStart, 1, 5) = SubSeq(line, 1, 5) PROVE FALSE
  BY <1>5, Zenon DEF IsPrefix, line
<1>7. SubSeq(line, 1, 5)[1] = "timestamp"
  BY <1>5, <1>6, Zenon
<1>8. SubSeq(line, 1, 5)[1] = line[1]
  <2>1. 1 \in 1 .. Len(line) /\ 5 \in 1 .. Len(line)
    BY <1>3, <1>6
  <2> QED
    BY <1>3, <2>1, PartSeq
<1> QED
  BY <1>4, <1>7, <1>8

RowsOK(rows) == \A i \in 1 .. Len(rows) : RowOK(rows[i])

FoundIn(rows, d, m, s) == \E i \in RowsAt(rows, d) : Hit(rows[i], m, s)

\* What the search finds is in a row.
LEMMA FoundIsRow ==
  ASSUME NEW today, NEW files, FilesOK(files, today), NEW rows, NEW d, HistoryIn(files, rows, d),
         RowsOK(rows), NEW m, NEW s
  PROVE  IsDuplicateRecord(files, m, s) <=> FoundIn(rows, d, m, s)
<1>1. \A i \in RowsAt(rows, d) : RowOK(rows[i]) /\ AtPlace(files, rows[i])
  BY Zenon DEF RowsOK, RowsAt, HistoryIn, Placed
<1>2. \A name \in DOMAIN files : DOMAIN files[name] = 1 .. Len(files[name])
  <2>1. \A name \in DOMAIN files : files[name] \in Seq(Lines)
    BY Zenon DEF FilesOK, FileOK
  <2> QED
    BY <2>1
<1>3. ASSUME FoundIn(rows, d, m, s)
      PROVE  IsDuplicateRecord(files, m, s)
  <2>0. PICK i \in RowsAt(rows, d) : Hit(rows[i], m, s)
    BY <1>3, Zenon DEF FoundIn
  <2> DEFINE r == rows[i]
  <2>1. /\ r.name \in DOMAIN files /\ r.line \in 1 .. Len(files[r.name])
        /\ files[r.name][r.line] = Line(r.mac, r.serial, r.burn)
    BY <1>1, Zenon DEF AtPlace
  <2>20. RowOK(r)
    BY <1>1, Zenon
  <2>2. Matches(files[r.name][r.line], m, s)
    <3>1. Hit(r, m, s)
      BY <2>0
    <3> HIDE DEF r
    <3>2. Matches(Line(r.mac, r.serial, r.burn), m, s)
      BY <2>20, <3>1, RowMatches, Zenon
    <3> QED
      BY <2>1, <3>2, Zenon
  <2>3. ~IsPrefix(HeaderStart, files[r.name][r.line])
    BY <1>1, <2>1, RowIsNoHeader, Zenon
  <2>4. r.line \in DOMAIN files[r.name]
    BY <1>2, <2>1, Zenon
  <2> QED
    BY <2>1, <2>2, <2>3, <2>4, Zenon DEF IsDuplicateRecord
<1>4. ASSUME IsDuplicateRecord(files, m, s)
      PROVE  FoundIn(rows, d, m, s)
  <2>0. PICK name \in DOMAIN files :
          \E k \in DOMAIN files[name] :
            ~(k = 1 /\ IsPrefix(HeaderStart, files[name][1])) /\ Matches(files[name][k], m, s)
    BY <1>4, Zenon DEF IsDuplicateRecord
  <2>1. PICK k \in DOMAIN files[name] :
          ~(k = 1 /\ IsPrefix(HeaderStart, files[name][1])) /\ Matches(files[name][k], m, s)
    BY <2>0, Zenon
  <2>2. k \in 1 .. Len(files[name])
    BY <1>2, Zenon
  <2>3. ~(k = 1 /\ files[name][k] = Header)
    BY <2>1, HeaderBegins, Zenon
  <2>4. RowAt(rows, d, name, k)
    BY <2>2, <2>3, Zenon DEF HistoryIn, Known
  <2>5. PICK i \in RowsAt(rows, d) : rows[i].name = name /\ rows[i].line = k
    BY <2>4, Zenon DEF RowAt
  <2>6. files[name][k] = Line(rows[i].mac, rows[i].serial, rows[i].burn)
    BY <1>1, <2>5, Zenon DEF AtPlace
  <2>7. Matches(Line(rows[i].mac, rows[i].serial, rows[i].burn), m, s)
    BY <2>1, <2>6, Zenon
  <2> QED
    BY <1>1, <2>7, RowMatches, Zenon DEF FoundIn
<1> QED
  BY <1>3, <1>4, Zenon

\* What the search reads of a serial.
LEMMA ReadSerial ==
  ASSUME NEW r, RowOK(r), NEW s
  PROVE  /\ r.serial = s /\ ~Contains(s, ",") /\ Trimmed(s) = s => Trimmed(Safe(r.serial)) = s
         /\ Trimmed(Safe(r.serial)) = s => SameInFile(r, s)
<1>1. r.serial \in Seq(DOMAIN Code)
  BY DEF RowOK, Texts
<1>2. ASSUME r.serial = s, ~Contains(s, ","), Trimmed(s) = s PROVE Trimmed(Safe(r.serial)) = s
  BY <1>1, <1>2, SafeSame, Zenon
<1>3. ASSUME Trimmed(Safe(r.serial)) = s PROVE SameInFile(r, s)
  <2> DEFINE a == Trimmed(r.serial)
             b == Trimmed(Safe(r.serial))
  <2>1. /\ a \in Seq(DOMAIN Code) /\ b \in Seq(DOMAIN Code \cup {"_"}) /\ Len(a) = Len(b)
        /\ \A j \in 1 .. Len(a) : b[j] = IF a[j] = "," THEN "_" ELSE a[j]
    BY <1>1, TrimmedSafe, Zenon
  <2>10. Len(a) \in Nat /\ Len(b) = Len(a) /\ DOMAIN b = 1 .. Len(b)
    BY <2>1, SeqDomain
  <2> HIDE DEF a, b
  <2>2. DOMAIN b = 1 .. Len(a)
    BY <2>10, Zenon
  <2>3. \A j \in DOMAIN b : a[j] = b[j] \/ (a[j] = "," /\ b[j] = "_")
    BY <2>1, <2>2, Zenon
  <2>4. b = s
    BY <1>3 DEF b
  <2> QED
    BY <2>1, <2>3, <2>4, Zenon DEF SameInFile, a
<1> QED
  BY <1>2, <1>3, Zenon

\* Where the history is in order, the search is exact.
LEMMA SearchFromHistory ==
  ASSUME HistoryInOrder, root \in Dirs \cup {"unset"}, NEW today,
         \A d \in Dirs : FilesOK(disk[d].csv, today), RowsOK(written)
  PROVE  SearchIsExact
<1> DEFINE Old == {written[i] : i \in {j \in 1 .. Len(written) :
                                   written[j].dir = root /\ written[j].burn = "OK"}}
<1>1. SUFFICES ASSUME Running, NEW m, NEW s
      PROVE  LET found == IsDuplicateRecord(disk[root].csv, m, s)
                 plain == ~Contains(s, ",") /\ Trimmed(s) = s
             IN  /\ \A r \in Old : r.mac = m \/ (r.serial = s /\ plain) => found
                 /\ found => \E r \in Old : r.mac = m \/ SameInFile(r, s)
  BY Zenon DEF SearchIsExact
<1>2. root \in Dirs
  BY <1>1 DEF Running
<1>3. HistoryIn(disk[root].csv, written, root) /\ FilesOK(disk[root].csv, today)
  BY <1>2, HistoryParts, Zenon
<1>4. IsDuplicateRecord(disk[root].csv, m, s) <=> FoundIn(written, root, m, s)
  BY <1>3, FoundIsRow, Zenon
<1>5. ASSUME NEW r
      PROVE  r \in Old <=> \E i \in RowsAt(written, root) : written[i].burn = "OK" /\ r = written[i]
  BY Zenon DEF RowsAt
<1>6. \A i \in RowsAt(written, root) : RowOK(written[i])
  BY Zenon DEF RowsAt, RowsOK
<1> HIDE DEF Old
<1>7. \A r \in Old : RowOK(r)
  BY <1>5, <1>6, Zenon
<1>8. ASSUME NEW r \in Old, r.mac = m \/ (r.serial = s /\ ~Contains(s, ",") /\ Trimmed(s) = s)
      PROVE  IsDuplicateRecord(disk[root].csv, m, s)
  <2>1. r.mac = m \/ Trimmed(Safe(r.serial)) = s
    BY <1>7, <1>8, ReadSerial, Zenon
  <2>2. PICK i \in RowsAt(written, root) : written[i].burn = "OK" /\ r = written[i]
    BY <1>5, <1>8, Zenon
  <2>3. FoundIn(written, root, m, s)
    BY <2>1, <2>2, Zenon DEF FoundIn, Hit
  <2> QED
    BY <1>4, <2>3, Zenon
<1>9. ASSUME IsDuplicateRecord(disk[root].csv, m, s)
      PROVE  \E r \in Old : r.mac = m \/ SameInFile(r, s)
  <2>0. FoundIn(written, root, m, s)
    BY <1>4, <1>9
  <2>1. PICK i \in RowsAt(written, root) : Hit(written[i], m, s)
    BY <2>0, Zenon DEF FoundIn
  <2>2. written[i] \in Old
    BY <1>5, <2>1, Zenon DEF Hit
  <2>3. written[i].mac = m \/ SameInFile(written[i], s)
    BY <1>6, <2>1, ReadSerial, Zenon DEF Hit
  <2> QED
    BY <2>2, <2>3, Zenon
<1> QED
  BY <1>8, <1>9, Zenon

-----------------------------------------------------------------------------
(* The settings, the records and the window.                               *)

\* Settings with a value for every field and for every part, and nothing else.
Whole(s) ==
  /\ DOMAIN s = DOMAIN Defaults
  /\ s = [k \in DOMAIN s |-> s[k]]
  /\ s.use = [p \in Parts |-> s.use[p]]
  /\ s.code = [p \in Parts |-> s.code[p]]

\* What is on disk and what was last saved there.
DiskInv ==
  /\ DOMAIN disk = Dirs /\ DOMAIN kept = Dirs
  /\ \A d \in Dirs : /\ DOMAIN disk[d] = {"settings", "csv"}
                     /\ Whole(kept[d]) /\ Usable(kept[d])
  /\ SettingsSurvive

\* What the window holds.
WindowInv ==
  /\ root \in Dirs \cup {"unset"}
  /\ Whole(snMode) /\ Usable(snMode)
  /\ nextSerial \in Nat
  /\ Running => nextSerial >= snMode.snStart
  /\ PreviewIsNext

RowsInv ==
  /\ written \in Seq({written[i] : i \in DOMAIN written})
  /\ \A i \in 1 .. Len(written) : RowOK(written[i])

DataInv == DiskInv /\ WindowInv /\ RowsInv /\ SessionInv

\* The row a write appends to written.
Row(mac, serial, burn, name, line) ==
  [dir |-> root, mac |-> mac, serial |-> serial, burn |-> burn, name |-> name, line |-> line]

-----------------------------------------------------------------------------
(* Settings.                                                               *)

LEMMA DefaultFields ==
  /\ {"snPrefix", "use", "code", "snStart", "snWidth"} \subseteq DOMAIN Defaults
  /\ Defaults.snStart = 1 /\ Defaults.snWidth = 8 /\ Defaults.snPrefix = <<"S", "P", "K">>
  /\ Defaults.use = [p \in Parts |-> TRUE]
BY DEF Defaults

\* A short text of characters that can be in a serial.
LEMMA ShortTexts ==
  ASSUME NEW a \in DOMAIN Code, NEW b \in DOMAIN Code, NEW c \in DOMAIN Code, NEW d \in DOMAIN Code
  PROVE  <<a>> \in Texts /\ <<a, b>> \in Texts /\ <<a, b, c>> \in Texts /\ <<a, b, c, d>> \in Texts
BY DEF Texts

LEMMA CodeCharacters == {"0", "1", "A", "B", "H", "K", "P", "S", "Z"} \subseteq DOMAIN Code
<1>1. {HexDigits[1], HexDigits[2], HexDigits[11], HexDigits[12]} \subseteq Range(HexDigits)
  BY DEF HexDigits, Range
<1>2. HexDigits[1] = "0" /\ HexDigits[2] = "1" /\ HexDigits[11] = "A" /\ HexDigits[12] = "B"
  BY DEF HexDigits
<1> QED
  BY <1>1, <1>2, CodeAssumption

\* What a combo box falls back to is such a text.
LEMMA FirstTexts == \A p \in Parts : FirstItem(p) \in Texts
<1>1. /\ <<"H", "Z">> \in Texts /\ <<"A">> \in Texts /\ <<"0", "0", "1", "1">> \in Texts
  BY CodeCharacters, ShortTexts
<1> HIDE DEF Texts
<1> QED
  BY <1>1 DEF FirstItem, Parts

LEMMA DefaultsWhole == Whole(Defaults) /\ Usable(Defaults)
<1>1. Defaults = [k \in DOMAIN Defaults |-> Defaults[k]]
  BY DEF Defaults
<1>2. Defaults.use = [p \in Parts |-> Defaults.use[p]]
  BY DefaultFields
<1>3. /\ Defaults.code = [p \in Parts |-> Defaults.code[p]]
      /\ \A p \in Parts : Defaults.code[p] \in Texts
  <2> DEFINE c(p) == CASE p = "Plant" -> <<"H", "Z">>
                       [] p = "Manufacturer" -> <<"A">>
                       [] p = "Product" -> <<"0", "0", "1", "1">>
                       [] p = "Month" -> <<"A">>
                       [] p = "Year" -> <<"B">>
  <2>1. Defaults.code = [p \in Parts |-> c(p)]
    BY DEF Defaults
  <2>2. \A p \in Parts : c(p) \in Texts
    <3>1. /\ <<"H", "Z">> \in Texts /\ <<"A">> \in Texts /\ <<"B">> \in Texts
          /\ <<"0", "0", "1", "1">> \in Texts
      BY CodeCharacters, ShortTexts
    <3> QED
      BY <3>1 DEF Parts
  <2> HIDE DEF c
  <2> QED
    BY <2>1, <2>2
<1>4. Defaults.snPrefix \in Texts
  <2>1. <<"S", "P", "K">> \in Texts
    BY CodeCharacters, ShortTexts
  <2> QED
    BY <2>1, DefaultFields
<1> QED
  BY <1>1, <1>2, <1>3, <1>4, DefaultFields DEF Whole, Usable

\* Any file loads to whole settings.
LEMMA LoadsWhole ==
  ASSUME NEW file
  PROVE  Whole(LoadFromFile(file))
<1>1. Whole(Merged(file))
  <2> DEFINE m == Merged(file)
  <2>1. DOMAIN m = DOMAIN Defaults /\ m = [k \in DOMAIN m |-> m[k]]
    BY DEF Merged
  <2>2. m.use = [p \in Parts |-> m.use[p]]
    <3>1. m.use = [p \in Parts |-> IF <<"use", p>> \in file.has THEN file.values["use"][p]
                                   ELSE Defaults["use"][p]]
      BY DefaultFields DEF Merged
    <3> QED
      BY <3>1
  <2>3. m.code = [p \in Parts |-> m.code[p]]
    <3>1. m.code = [p \in Parts |-> IF <<"code", p>> \in file.has THEN file.values["code"][p]
                                    ELSE Defaults["code"][p]]
      BY DefaultFields DEF Merged
    <3> QED
      BY <3>1
  <2> QED
    BY <2>1, <2>2, <2>3 DEF Whole
<1> QED
  BY <1>1, DefaultsWhole DEF LoadFromFile

\* A value that the file gives is taken; the defaults' can be used.
LEMMA LoadsUsable ==
  ASSUME NEW file,
         Gives(file, "snStart") => file.values.snStart \in Nat,
         Gives(file, "snWidth") => file.values.snWidth \in Nat \ {0},
         Gives(file, "snPrefix") => file.values.snPrefix \in Texts,
         \A p \in Parts : file.kind = "object" /\ <<"code", p>> \in file.has =>
           file.values.code[p] \in Texts
  PROVE  Usable(LoadFromFile(file))
<1>1. CASE file.kind = "object"
  <2>1. Merged(file).snStart = IF <<"key", "snStart">> \in file.has THEN file.values["snStart"]
                               ELSE Defaults["snStart"]
    BY DefaultFields DEF Merged
  <2>2. Merged(file).snWidth = IF <<"key", "snWidth">> \in file.has THEN file.values["snWidth"]
                               ELSE Defaults["snWidth"]
    BY DefaultFields DEF Merged
  <2>3. Merged(file).snPrefix = IF <<"key", "snPrefix">> \in file.has THEN file.values["snPrefix"]
                                ELSE Defaults["snPrefix"]
    BY DefaultFields DEF Merged
  <2>4. Merged(file).code = [p \in Parts |-> IF <<"code", p>> \in file.has
                                             THEN file.values["code"][p] ELSE Defaults["code"][p]]
    BY DefaultFields DEF Merged
  <2>5. Merged(file).snStart \in Nat /\ Merged(file).snWidth \in Nat \ {0}
    BY <1>1, <2>1, <2>2, DefaultsWhole DEF Gives, Usable
  <2>6. Merged(file).snPrefix \in Texts
    BY <1>1, <2>3, DefaultsWhole DEF Gives, Usable
  <2>7. \A p \in Parts : Merged(file).code[p] \in Texts
    BY <1>1, <2>4, DefaultsWhole DEF Usable
  <2> QED
    BY <1>1, <2>5, <2>6, <2>7 DEF Usable, LoadFromFile
<1>2. CASE file.kind # "object"
  BY <1>2, DefaultsWhole DEF LoadFromFile
<1> QED
  BY <1>1, <1>2

\* What is saved is what is loaded.
LEMMA LoadsWhatWasSaved ==
  ASSUME NEW s, Whole(s)
  PROVE  LoadFromFile(Saved(s)) = s
<1> DEFINE file == Saved(s)
<1>1. file.kind = "object" /\ file.has = AllKeys /\ file.values = s
  BY DEF Saved, JsonFile
<1>2. LoadFromFile(file) = Merged(file)
  BY <1>1 DEF LoadFromFile
<1>3. ASSUME NEW k \in DOMAIN Defaults
      PROVE  Merged(file)[k] = s[k]
  <2>1. CASE k = "use"
    <3>1. \A p \in Parts : <<"use", p>> \in file.has
      BY <1>1 DEF AllKeys, UseKeys
    <3>2. Merged(file)["use"] = [p \in Parts |-> s["use"][p]]
      BY <1>1, <2>1, <3>1, DefaultFields DEF Merged
    <3> QED
      BY <2>1, <3>2 DEF Whole
  <2>2. CASE k = "code"
    <3>1. \A p \in Parts : <<"code", p>> \in file.has
      BY <1>1 DEF AllKeys, CodeKeys
    <3>2. Merged(file)["code"] = [p \in Parts |-> s["code"][p]]
      BY <1>1, <2>2, <3>1, DefaultFields DEF Merged
    <3> QED
      BY <2>2, <3>2 DEF Whole
  <2>3. CASE k \notin {"use", "code"}
    <3>1. <<"key", k>> \in file.has
      BY <1>1, <1>3, <2>3 DEF AllKeys, Keys
    <3> QED
      BY <1>1, <1>3, <2>3, <3>1 DEF Merged
  <2> QED
    BY <2>1, <2>2, <2>3
<1>4. /\ DOMAIN Merged(file) = DOMAIN Defaults
      /\ Merged(file) = [k \in DOMAIN Defaults |-> Merged(file)[k]]
  BY DEF Merged
<1>5. s = [k \in DOMAIN Defaults |-> s[k]]
  BY DEF Whole
<1> QED
  BY <1>2, <1>3, <1>4, <1>5

\* The dialog as it opens, and one edit in it.
LEMMA ShownWhole ==
  ASSUME NEW s, Whole(s), Usable(s)
  PROVE  Whole(Shown(s)) /\ Usable(Shown(s))
<1> DEFINE t == Shown(s)
<1>1. DOMAIN t = DOMAIN s /\ t = [k \in DOMAIN t |-> t[k]]
  BY DEF Shown
<1>2. \A k \in DOMAIN Defaults \ {"code"} : t[k] = s[k]
  BY DEF Shown, Whole
<1>3. t.code = [p \in Parts |-> SelectComboData(p, s.code[p])]
  BY DefaultFields DEF Shown, Whole
<1>4. t.code = [p \in Parts |-> t.code[p]]
  BY <1>3
<1>5. t.use = s.use /\ t.snStart = s.snStart /\ t.snWidth = s.snWidth /\ t.snPrefix = s.snPrefix
  BY <1>2, DefaultFields
<1>6. \A p \in Parts : t.code[p] \in Texts
  BY <1>3, FirstTexts DEF SelectComboData, Usable
<1> HIDE DEF t
<1> QED
  BY <1>1, <1>4, <1>5, <1>6 DEF Whole, Usable, t

LEMMA EditedWhole ==
  ASSUME NEW s, Whole(s), Usable(s), NEW i \in DOMAIN Edits
  PROVE  Whole(Edited(s, Edits[i])) /\ Usable(Edited(s, Edits[i]))
<1> DEFINE e == Edits[i]
           t == Edited(s, e)
<1>1. DOMAIN t = DOMAIN s /\ t = [k \in DOMAIN t |-> t[k]]
  BY DEF Edited
<1>2. CASE e.field \in {"use", "code"}
  <2>1. t = [s EXCEPT ![e.field] = [s[e.field] EXCEPT ![e.part] = e.value]]
    BY <1>2 DEF Edited
  <2>2. t[e.field] = [s[e.field] EXCEPT ![e.part] = e.value]
    BY <1>2, <2>1, DefaultFields DEF Whole
  <2>3. \A k \in DOMAIN Defaults : k # e.field => t[k] = s[k]
    BY <2>1 DEF Whole
  <2>4. \A k \in {"use", "code"} : s[k] = [p \in Parts |-> s[k][p]]
    BY DEF Whole
  <2>5. t[e.field] = [p \in Parts |-> t[e.field][p]]
    BY <1>2, <2>2, <2>4
  <2>6. t.use = [p \in Parts |-> t.use[p]]
    BY <2>3, <2>4, <2>5, DefaultFields
  <2>7. t.code = [p \in Parts |-> t.code[p]]
    BY <2>3, <2>4, <2>5, DefaultFields
  <2>8. t.snStart = s.snStart /\ t.snWidth = s.snWidth /\ t.snPrefix = s.snPrefix
    BY <1>2, <2>3, DefaultFields
  <2>9. \A p \in Parts : t.code[p] \in Texts
    <3>1. CASE e.field = "use"
      BY <2>3, <3>1, DefaultFields DEF Usable
    <3>2. CASE e.field = "code"
      <4>1. e.value \in Texts
        BY <3>2, ValuesAssumption
      <4>2. \A p \in Parts : t.code[p] = IF p = e.part THEN e.value ELSE s.code[p]
        BY <2>2, <2>4, <3>2
      <4> QED
        BY <4>1, <4>2 DEF Usable
    <3> QED
      BY <1>2, <3>1, <3>2
  <2> HIDE DEF t
  <2> QED
    BY <1>1, <2>6, <2>7, <2>8, <2>9 DEF Whole, Usable, t
<1>3. CASE e.field \notin {"use", "code"}
  <2>1. t = [s EXCEPT ![e.field] = e.value]
    BY <1>3 DEF Edited
  <2>2. \A k \in DOMAIN Defaults : t[k] = IF k = e.field THEN e.value ELSE s[k]
    BY <2>1 DEF Whole
  <2>3. t.use = s.use /\ t.code = s.code
    BY <1>3, <2>2, DefaultFields
  <2>4. t.snStart \in Nat
    BY <2>2, DefaultFields, ValuesAssumption DEF Usable
  <2>5. t.snWidth \in Nat \ {0}
    BY <2>2, DefaultFields, ValuesAssumption DEF Usable
  <2>6. t.snPrefix \in Texts
    BY <2>2, DefaultFields, ValuesAssumption DEF Usable
  <2> HIDE DEF t
  <2> QED
    BY <1>1, <2>3, <2>4, <2>5, <2>6 DEF Whole, Usable, t
<1> QED
  BY <1>2, <1>3

-----------------------------------------------------------------------------
(* The counter and the rows.                                               *)

LEMMA RaisedNumber ==
  ASSUME NEW s, Usable(s), NEW n \in Nat
  PROVE  /\ Raised(s, n) \in Nat /\ Raised(s, n) >= s.snStart
         /\ \A k \in Nat : k >= s.snStart => Raised(s, k) = k
BY DEF Raised, Usable

LEMMA RowAppended ==
  ASSUME NEW q, NEW r, q \in Seq({q[i] : i \in DOMAIN q}),
         \A i \in 1 .. Len(q) : RowOK(q[i]), RowOK(r)
  PROVE  LET a == Append(q, r)
         IN  /\ a \in Seq({a[i] : i \in DOMAIN a})
             /\ \A i \in 1 .. Len(a) : RowOK(a[i])
<1> DEFINE a == Append(q, r)
           S == {q[i] : i \in DOMAIN q} \cup {r}
<1> HIDE DEF S
<1>1. q \in Seq(S) /\ r \in S
  BY DEF S
<1>2. Len(q) \in Nat /\ DOMAIN q = 1 .. Len(q) /\ a \in Seq(S) /\ Len(a) = Len(q) + 1
  BY <1>1
<1>3. \A i \in 1 .. Len(q) : a[i] = q[i]
  BY <1>1, <1>2
<1>4. a[Len(a)] = r
  BY <1>1, <1>2
<1>5. \A i \in 1 .. Len(a) : i \in 1 .. Len(q) \/ i = Len(a)
  BY <1>2
<1>6. \A i \in 1 .. Len(a) : RowOK(a[i])
  BY <1>3, <1>4, <1>5
<1>7. DOMAIN a = 1 .. Len(a) /\ Len(a) \in Nat
  BY <1>2
<1>8. a = [i \in 1 .. Len(a) |-> a[i]]
  BY <1>2, LenProperties
<1>9. a \in Seq({a[i] : i \in DOMAIN a})
  BY <1>7, <1>8
<1> QED
  BY <1>6, <1>9

\* A write counts or does not, and records a row or does not.
LEMMA WriteDoes ==
  ASSUME WindowInv, DiskInv, Running, NEW mac, WriteCurrentSerialOnce(mac)
  PROVE  LET n == Raised(snMode, nextSerial)
             serial == BuildSerialString(snMode, n)
         IN  /\ \/ nextSerial' = n /\ preview' = preview
                \/ nextSerial' = n + 1 /\ preview' = Preview(snMode, n + 1)
             /\ \/ UNCHANGED <<disk, written>>
                \/ \E burn \in Burns : /\ serial # NoText /\ Record(mac, serial, burn)
                                       /\ (burn = "OK" => mac # NoMac)
<1> DEFINE n == Raised(snMode, nextSerial)
           serial == BuildSerialString(snMode, n)
           Count(k) == nextSerial' = k /\ preview' = IF k = n THEN preview ELSE Preview(snMode, k)
<1>1. n \in Nat
  BY RaisedNumber DEF WindowInv
<1>2. Count(n) => nextSerial' = n /\ preview' = preview
  OBVIOUS
<1>3. Count(n + 1) => nextSerial' = n + 1 /\ preview' = Preview(snMode, n + 1)
  <2>1. n + 1 # n
    BY <1>1
  <2> QED
    BY <2>1
<1> HIDE DEF n, serial, Count
<1>4. \/ UNCHANGED <<disk, written>> /\ Count(n)
      \/ \E burn \in Burns : /\ serial # NoText /\ Record(mac, serial, burn)
                             /\ (burn = "OK" => mac # NoMac)
                             /\ (Count(n) \/ Count(n + 1))
  BY DEF WriteCurrentSerialOnce, Burns, n, serial, Count
<1>5. /\ \/ nextSerial' = n /\ preview' = preview
         \/ nextSerial' = n + 1 /\ preview' = Preview(snMode, n + 1)
      /\ \/ UNCHANGED <<disk, written>>
         \/ \E burn \in Burns : /\ serial # NoText /\ Record(mac, serial, burn)
                                /\ (burn = "OK" => mac # NoMac)
  BY <1>2, <1>3, <1>4
<1> QED
  BY <1>5 DEF n, serial

\* Whatever changes of a directory besides its settings.
LEMMA SettingsUntouched ==
  ASSUME DiskInv, kept' = kept, root \in Dirs,
         disk' = disk \/ \E files : disk' = [disk EXCEPT ![root].csv = files]
  PROVE  DiskInv'
<1>1. /\ DOMAIN disk' = Dirs
      /\ \A d \in Dirs : /\ DOMAIN disk'[d] = {"settings", "csv"}
                         /\ disk'[d].settings = disk[d].settings
  <2>1. CASE disk' = disk
    BY <2>1 DEF DiskInv
  <2>2. ASSUME NEW files, disk' = [disk EXCEPT ![root].csv = files]
        PROVE  /\ DOMAIN disk' = Dirs
               /\ \A d \in Dirs : /\ DOMAIN disk'[d] = {"settings", "csv"}
                                 /\ disk'[d].settings = disk[d].settings
    <3>1. disk' = [disk EXCEPT ![root] = [disk[root] EXCEPT !.csv = files]]
      BY <2>2
    <3>2. DOMAIN disk' = Dirs
      BY <3>1 DEF DiskInv
    <3>3. ASSUME NEW d \in Dirs
          PROVE  DOMAIN disk'[d] = {"settings", "csv"} /\ disk'[d].settings = disk[d].settings
      <4>1. disk'[d] = IF d = root THEN [disk[d] EXCEPT !.csv = files] ELSE disk[d]
        BY <3>1, <3>3 DEF DiskInv
      <4>2. DOMAIN disk[d] = {"settings", "csv"}
        BY <3>3 DEF DiskInv
      <4> QED
        BY <4>1, <4>2
    <3> QED
      BY <3>2, <3>3
  <2> QED
    BY <2>1, <2>2
<1>2. SettingsSurvive'
  BY <1>1 DEF DiskInv, SettingsSurvive
<1> QED
  BY <1>1, <1>2 DEF DiskInv

-----------------------------------------------------------------------------
(* The steps.                                                              *)

LEMMA DataInit == Init => DataInv
<1> SUFFICES ASSUME Init PROVE DataInv
  OBVIOUS
<1>1. PICK f \in 1 .. Len(InitialFiles) :
        disk = [d \in Dirs |-> [settings |-> InitialFiles[f][d], csv |-> NewFiles]]
  BY DEF Init
<1>2. \A d \in Dirs : disk[d].settings = InitialFiles[f][d] /\ DOMAIN disk[d] = {"settings", "csv"}
  BY <1>1
<1>3. kept = [d \in Dirs |-> LoadFromFile(disk[d].settings)]
  BY DEF Init
<1>4. \A d \in Dirs : Usable(LoadFromFile(disk[d].settings))
  BY <1>2, LoadsUsable, ValuesAssumption
<1>5. DiskInv
  BY <1>1, <1>2, <1>3, <1>4, LoadsWhole DEF DiskInv, SettingsSurvive
<1>6. WindowInv
  BY DefaultsWhole DEF Init, WindowInv, Running, PreviewIsNext
<1>7. RowsInv
  <2>1. written = <<>> /\ Len(written) = 0 /\ written \in Seq({written[i] : i \in DOMAIN written})
    BY DEF Init
  <2> QED
    BY <2>1 DEF RowsInv
<1>8. SessionInv
  BY SessionInvInit DEF Init
<1> QED
  BY <1>5, <1>6, <1>7, <1>8 DEF DataInv

LEMMA StartStep == DataInv /\ Start => DataInv'
<1> SUFFICES ASSUME DataInv, Start PROVE DataInv'
  OBVIOUS
<1> USE DEF DataInv
<1>1. root' \in Dirs
  BY DEF Start, AppToolDataRoot, Dirs
<1>2. DiskInv'
  BY DEF Start, DiskInv, SettingsSurvive
<1>3. /\ snMode' = kept[root'] \/ snMode' = Defaults
      /\ nextSerial' = snMode'.snStart /\ preview' = Preview(snMode', nextSerial')
  BY <1>1 DEF Start, DiskInv, SettingsSurvive
<1>4. Whole(snMode') /\ Usable(snMode')
  BY <1>1, <1>3, DefaultsWhole DEF DiskInv
<1>5. nextSerial' \in Nat /\ nextSerial' >= snMode'.snStart
      /\ Raised(snMode', nextSerial') = nextSerial'
  BY <1>3, <1>4 DEF Usable, Raised
<1>6. WindowInv'
  BY <1>1, <1>3, <1>4, <1>5 DEF WindowInv, PreviewIsNext
<1>7. RowsInv'
  BY DEF Start, RowsInv
<1>8. SessionInv'
  BY SessionInvStep DEF Start
<1> QED
  BY <1>2, <1>6, <1>7, <1>8

LEMMA StopStep == DataInv /\ Stop => DataInv'
<1> SUFFICES ASSUME DataInv, Stop PROVE DataInv'
  OBVIOUS
<1> USE DEF DataInv
<1>1. root \in Dirs
  BY DEF Stop, WindowInv, Running
<1>2. DiskInv'
  BY <1>1, SettingsUntouched DEF Stop
<1>3. root' = "unset" /\ ~Running'
  BY DEF Stop, Off, Running
<1>4. WindowInv'
  BY <1>3, DefaultsWhole DEF Stop, Off, WindowInv, PreviewIsNext
<1>5. RowsInv'
  BY DEF Stop, RowsInv
<1>6. SessionInv'
  <2>1. DefaultEdits \in Fields /\ DefaultIds \in Ids
    BY TypedAssumption, SMT DEF DefaultEdits, DefaultIds, Fields, Ids
  <2>2. pollId' \in 0 .. 255
    BY DEF Stop, Off
  <2>3. session' \in BOOLEAN /\ reread' \in BOOLEAN /\ ~session'
    BY Zenon DEF Stop, Off
  <2>4. edits' \in Fields /\ cfg' \in Ids /\ srvCfg' \in Ids
    BY <2>1, Zenon DEF Stop, Off
  <2>5. SessionTypeOK'
    BY <2>2, <2>3, <2>4, Zenon DEF SessionTypeOK
  <2>6. SessionAgrees'
    BY <2>3, Zenon DEF SessionAgrees
  <2> QED
    BY <2>5, <2>6, Zenon DEF SessionInv
<1> QED
  BY <1>2, <1>4, <1>5, <1>6

LEMMA MidnightStep == DataInv /\ Midnight => DataInv'
<1> SUFFICES ASSUME DataInv, Midnight PROVE DataInv'
  OBVIOUS
<1> USE DEF DataInv
<1>1. DiskInv' /\ RowsInv'
  BY DEF Midnight, DiskInv, SettingsSurvive, RowsInv
<1>2. WindowInv'
  BY DEF Midnight, WindowInv, Running, PreviewIsNext
<1>3. SessionInv'
  BY SessionInvStep DEF Midnight
<1> QED
  BY <1>1, <1>2, <1>3

\* Settings that are accepted are the window's, whether they were saved or not.
LEMMA AcceptStep ==
  ASSUME DataInv, Running, NEW s, Whole(s), Usable(s), Accept(s),
         UNCHANGED <<root, written, sessionVars>>
  PROVE  DataInv'
<1> USE DEF DataInv
<1>1. root \in Dirs
  BY DEF WindowInv, Running
<1>2. DiskInv'
  <2>1. CASE UNCHANGED <<disk, kept>>
    BY <2>1 DEF DiskInv, SettingsSurvive
  <2>2. CASE disk' = [disk EXCEPT ![root].settings = Saved(s)] /\ kept' = [kept EXCEPT ![root] = s]
    <3>1. disk' = [disk EXCEPT ![root] = [disk[root] EXCEPT !.settings = Saved(s)]]
      BY <2>2
    <3>2. DOMAIN disk' = Dirs /\ DOMAIN kept' = Dirs
      BY <2>2, <3>1 DEF DiskInv
    <3>3. ASSUME NEW d \in Dirs
          PROVE  /\ DOMAIN disk'[d] = {"settings", "csv"}
                 /\ Whole(kept'[d]) /\ Usable(kept'[d])
                 /\ LoadFromFile(disk'[d].settings) = kept'[d]
      <4>1. CASE d # root
        <5>1. disk'[d] = disk[d] /\ kept'[d] = kept[d]
          BY <2>2, <3>1, <3>3, <4>1 DEF DiskInv
        <5> QED
          BY <3>3, <5>1 DEF DiskInv, SettingsSurvive
      <4>2. CASE d = root
        <5>1. disk'[d] = [disk[d] EXCEPT !.settings = Saved(s)] /\ kept'[d] = s
          BY <2>2, <3>1, <3>3, <4>2 DEF DiskInv
        <5>2. DOMAIN disk'[d] = {"settings", "csv"} /\ disk'[d].settings = Saved(s)
          BY <3>3, <5>1 DEF DiskInv
        <5> QED
          BY <5>1, <5>2, LoadsWhatWasSaved
      <4> QED
        BY <4>1, <4>2
    <3> QED
      BY <3>2, <3>3 DEF DiskInv, SettingsSurvive
  <2> QED
    BY <2>1, <2>2 DEF Accept, SaveToFile
<1>3. snMode' = s /\ root' = root /\ nextSerial' = Raised(s, nextSerial)
      /\ preview' = Preview(s, nextSerial')
  BY DEF Accept
<1>4. nextSerial' \in Nat /\ nextSerial' >= s.snStart /\ Raised(s, nextSerial') = nextSerial'
  BY <1>3, RaisedNumber DEF WindowInv
<1>5. WindowInv'
  BY <1>1, <1>3, <1>4 DEF WindowInv, PreviewIsNext
<1>6. RowsInv'
  BY DEF RowsInv
<1>7. SessionInv'
  BY SessionInvStep
<1> QED
  BY <1>2, <1>5, <1>6, <1>7

LEMMA DialogStep == DataInv /\ OnSnSettingsClicked => DataInv'
<1> SUFFICES ASSUME DataInv, OnSnSettingsClicked PROVE DataInv'
  OBVIOUS
<1>1. Running /\ UNCHANGED <<root, written, sessionVars>>
  BY DEF OnSnSettingsClicked
<1>2. Whole(Shown(snMode)) /\ Usable(Shown(snMode))
  BY ShownWhole DEF DataInv, WindowInv
<1>3. CASE Accept(Shown(snMode))
  BY <1>1, <1>2, <1>3, AcceptStep
<1>4. CASE \E i \in DOMAIN Edits : Accept(Edited(Shown(snMode), Edits[i]))
  BY <1>1, <1>2, <1>4, AcceptStep, EditedWhole
<1> QED
  BY <1>3, <1>4 DEF OnSnSettingsClicked

LEMMA WriteStep == DataInv /\ OnWriteNextSerialClicked => DataInv'
<1> SUFFICES ASSUME DataInv, OnWriteNextSerialClicked PROVE DataInv'
  OBVIOUS
<1> USE DEF DataInv
<1>1. Running /\ UNCHANGED <<root, snMode, kept>> /\ BeginManualWrite /\ root \in Dirs
  BY DEF OnWriteNextSerialClicked, WindowInv, Running
<1>2. SessionInv'
  BY <1>1, SessionInvStep DEF SessionNext
<1>3. CASE UNCHANGED <<disk, written, nextSerial, preview>>
  <2>1. DiskInv' /\ RowsInv'
    BY <1>1, <1>3 DEF DiskInv, SettingsSurvive, RowsInv
  <2>2. WindowInv'
    BY <1>1, <1>3 DEF WindowInv, Running, PreviewIsNext
  <2> QED
    BY <1>2, <2>1, <2>2
<1>4. ASSUME NEW mac \in Macs \cup {NoMac}, WriteCurrentSerialOnce(mac)
      PROVE  DataInv'
  <2> DEFINE n == Raised(snMode, nextSerial)
             serial == BuildSerialString(snMode, n)
  <2>1. /\ \/ nextSerial' = n /\ preview' = preview
           \/ nextSerial' = n + 1 /\ preview' = Preview(snMode, n + 1)
        /\ \/ UNCHANGED <<disk, written>>
           \/ \E burn \in Burns : /\ serial # NoText /\ Record(mac, serial, burn)
                                  /\ (burn = "OK" => mac # NoMac)
    BY <1>1, <1>4, WriteDoes
  <2>2. n \in Nat /\ n >= snMode.snStart /\ snMode.snStart \in Nat
        /\ \A k \in Nat : k >= snMode.snStart => Raised(snMode, k) = k
    BY RaisedNumber DEF WindowInv, Usable
  <2>20. serial \in Texts
    BY <2>2, SerialText DEF WindowInv
  <2>3. preview = Preview(snMode, n)
    BY <1>1 DEF WindowInv, PreviewIsNext
  <2> HIDE DEF n, serial
  <2>4. nextSerial' \in Nat /\ nextSerial' >= snMode.snStart
        /\ preview' = Preview(snMode, nextSerial')
    BY <2>1, <2>2, <2>3
  <2>5. WindowInv'
    BY <1>1, <2>2, <2>4 DEF WindowInv, Running, PreviewIsNext
  <2>6. DiskInv'
    <3>1. disk' = disk \/ \E files : disk' = [disk EXCEPT ![root].csv = files]
      BY <2>1, Zenon DEF Record
    <3> QED
      BY <1>1, <3>1, SettingsUntouched
  <2>7. RowsInv'
    <3>1. CASE UNCHANGED written
      BY <3>1 DEF RowsInv
    <3>2. ASSUME NEW burn \in Burns, serial # NoText, burn = "OK" => mac # NoMac,
                 NEW name, NEW line, written' = Append(written, Row(mac, serial, burn, name, line))
          PROVE  RowsInv'
      <4> DEFINE r == Row(mac, serial, burn, name, line)
      <4>1. RowOK(r)
        BY <1>1, <1>4, <2>20, <3>2 DEF RowOK, Row
      <4> HIDE DEF r
      <4>2. written' = Append(written, r)
        BY <3>2 DEF r
      <4> QED
        BY <4>1, <4>2, RowAppended DEF RowsInv
    <3>3. ASSUME NEW burn \in Burns, Record(mac, serial, burn)
          PROVE  \/ UNCHANGED written
                 \/ \E name, line : written' = Append(written, Row(mac, serial, burn, name, line))
      BY <3>3, Zenon DEF Record, Row
    <3> QED
      BY <2>1, <3>1, <3>2, <3>3
  <2> QED
    BY <1>2, <2>5, <2>6, <2>7
<1> QED
  BY <1>3, <1>4 DEF OnWriteNextSerialClicked

LEMMA SessionStep == DataInv /\ Session => DataInv'
<1> SUFFICES ASSUME DataInv, Session PROVE DataInv'
  OBVIOUS
<1> USE DEF DataInv
<1>1. UNCHANGED dataVars /\ SessionNext
  BY DEF Session, SessionNext
<1>2. DiskInv' /\ RowsInv' /\ WindowInv'
  BY <1>1 DEF dataVars, DiskInv, SettingsSurvive, RowsInv, WindowInv, Running, PreviewIsNext
<1>3. SessionInv'
  BY <1>1, SessionInvStep
<1> QED
  BY <1>2, <1>3

LEMMA DataStep == DataInv /\ [Next]_vars => DataInv'
<1>1. DataInv /\ UNCHANGED vars => DataInv'
  <2> SUFFICES ASSUME DataInv, UNCHANGED vars PROVE DataInv'
    OBVIOUS
  <2>1. DiskInv' /\ RowsInv' /\ WindowInv'
    BY DEF DataInv, vars, dataVars, DiskInv, SettingsSurvive, RowsInv, WindowInv, Running,
           PreviewIsNext
  <2>2. SessionInv'
    BY SessionInvStep DEF DataInv, vars
  <2> QED
    BY <2>1, <2>2 DEF DataInv
<1> QED
  BY <1>1, StartStep, StopStep, MidnightStep, DialogStep, WriteStep, SessionStep DEF Next

\* The invariant holds whatever files are found and whatever is edited.
LEMMA DataTheorem == Spec => []DataInv
BY DataInit, DataStep, PTL DEF Spec

\* sn_mode_settings.cpp, saveToFile and loadFromFile: the settings file of a data
\* directory loads to what was last saved there, whatever saves have failed since.
THEOREM SettingsSurviveTheorem == Spec => []SettingsSurvive
<1>1. DataInv => SettingsSurvive
  BY DEF DataInv, DiskInv
<1> QED
  BY <1>1, DataTheorem, PTL

\* The command shown is the one the next write sends.
THEOREM PreviewIsNextTheorem == Spec => []PreviewIsNext
<1>1. DataInv => PreviewIsNext
  BY DEF DataInv, WindowInv
<1> QED
  BY <1>1, DataTheorem, PTL

\* An open session of the tool polls with the id the service expects, through
\* stops and starts of the tool, unless a write or a tick kept it.
THEOREM ToolSessionAgrees == Spec => []SessionAgrees
<1>1. DataInv => SessionAgrees
  BY DEF DataInv, SessionInv
<1> QED
  BY <1>1, DataTheorem, PTL

\* What was loaded is a full set of settings, and no number wider than its
\* field is recorded.
THEOREM DataTypeOK == Spec => []TypeOK
<1>1. DataInv => TypeOK
  <2> SUFFICES ASSUME DataInv PROVE TypeOK
    OBVIOUS
  <2>1. \A k \in DOMAIN Defaults : k \in DOMAIN snMode
    BY DEF DataInv, WindowInv, Whole
  <2>2. snMode.snWidth \in Nat \ {0} /\ root \in Dirs \cup {"unset"}
        /\ (Running => nextSerial >= snMode.snStart)
    BY DEF DataInv, WindowInv, Usable
  <2>3. \A i \in 1 .. Len(written) :
          written[i].dir \in Dirs /\ written[i].burn \in Burns /\ written[i].serial # NoText
    BY DEF DataInv, RowsInv, RowOK
  <2>4. SessionTypeOK
    BY DEF DataInv, SessionInv
  <2> QED
    BY <2>1, <2>2, <2>3, <2>4 DEF TypeOK
<1> QED
  BY <1>1, DataTheorem, PTL

-----------------------------------------------------------------------------
(* The history.  The order in which the files are read is the order of the *)
(* appends because a row never goes to a file that another file comes      *)
(* behind: below the file it goes to, every file of the day is full, no    *)
(* file is of a later day, and a file that is full stays so.               *)

HistoryInv ==
  /\ day \in Nat \ {0}
  /\ \A d \in Dirs : FilesOK(disk[d].csv, day)
  /\ HistoryInOrder

\* Days go by.
LEMMA FilesLater ==
  ASSUME NEW today \in Nat, NEW later \in Nat, today <= later, NEW files, FilesOK(files, today)
  PROVE  FilesOK(files, later)
<1>1. \A name \in DOMAIN files : FileOK(files, name, today)
  BY Zenon DEF FilesOK
<1>2. (1 .. today) \X (1 .. LastIndex) \subseteq (1 .. later) \X (1 .. LastIndex)
  BY RecordsAssumption
<1>3. \A name \in DOMAIN files : FileOK(files, name, later)
  BY <1>1, <1>2, Zenon DEF FileOK
<1> QED
  BY <1>3, Zenon DEF FilesOK

LEMMA CsvChanged ==
  ASSUME DiskInv, root \in Dirs, NEW files, disk' = [disk EXCEPT ![root].csv = files]
  PROVE  \A d \in Dirs : disk'[d].csv = IF d = root THEN files ELSE disk[d].csv
<1>1. disk' = [disk EXCEPT ![root] = [disk[root] EXCEPT !.csv = files]]
  OBVIOUS
<1> SUFFICES ASSUME NEW d \in Dirs PROVE disk'[d].csv = IF d = root THEN files ELSE disk[d].csv
  OBVIOUS
<1>2. disk'[d] = IF d = root THEN [disk[d] EXCEPT !.csv = files] ELSE disk[d]
  BY <1>1 DEF DiskInv
<1>3. DOMAIN disk[d] = {"settings", "csv"}
  BY DEF DiskInv
<1> QED
  BY <1>2, <1>3

\* No row, and no file changed.
LEMMA HistoryKept ==
  ASSUME HistoryInv, day' \in Nat, day <= day', written' = written,
         \A d \in Dirs : disk'[d].csv = disk[d].csv
  PROVE  HistoryInv'
<1>1. \A d \in Dirs : FilesOK(disk'[d].csv, day')
  BY FilesLater DEF HistoryInv
<1>2. \A d \in Dirs : HistoryIn(disk'[d].csv, written', d)
  BY HistoryParts, Zenon DEF HistoryInv
<1>3. HistoryInOrder'
  BY <1>2, HistoryParts
<1>4. day' \in Nat \ {0}
  BY DEF HistoryInv
<1> QED
  BY <1>1, <1>3, <1>4 DEF HistoryInv

\* An append that is cut short leaves a file that is there and empty, or none.
LEMMA HistoryCutShort ==
  ASSUME DataInv, HistoryInv, root \in Dirs, day' = day, written' = written,
         disk' = [disk EXCEPT ![root].csv = AppendCutShort(disk[root].csv, day)]
  PROVE  HistoryInv'
<1> DEFINE old == disk[root].csv
           name == CurrentCsvFile(old, day)
           files == AppendCutShort(old, day)
<1>1. \A d \in Dirs : disk'[d].csv = IF d = root THEN files ELSE disk[d].csv
  BY CsvChanged DEF DataInv
<1>2. day \in Nat \ {0} /\ FilesOK(old, day) /\ HistoryIn(old, written, root)
  BY HistoryParts, Zenon DEF HistoryInv
<1>3. files = IF name \in DOMAIN old THEN old ELSE Put(old, name, <<>>)
  BY DEF AppendCutShort
<1> HIDE DEF files, old
<1>4. FilesOK(files, day) /\ HistoryIn(files, written, root)
  <2>1. CASE name \in DOMAIN old
    BY <1>2, <1>3, <2>1
  <2>2. CASE name \notin DOMAIN old
    <3>1. IsNextFile(old, name, day)
      BY <1>2, ChosenFile
    <3> HIDE DEF name
    <3>2. <<>> \in Seq(Lines)
      OBVIOUS
    <3>3. FilesOK(Put(old, name, <<>>), day)
      BY <1>2, <2>2, <3>1, <3>2, PutOK, Zenon
    <3>4. HistoryIn(Put(old, name, <<>>), written, root)
      BY <1>2, <2>2, CutShortHere, Zenon
    <3> QED
      BY <1>3, <2>2, <3>3, <3>4
  <2> QED
    BY <2>1, <2>2
<1>5. \A d \in Dirs : FilesOK(disk'[d].csv, day') /\ HistoryIn(disk'[d].csv, written', d)
  <2>1. \A d \in Dirs : FilesOK(disk[d].csv, day) /\ HistoryIn(disk[d].csv, written, d)
    BY HistoryParts, Zenon DEF HistoryInv
  <2> QED
    BY <1>1, <1>4, <2>1, Zenon
<1>6. HistoryInOrder'
  BY <1>5, HistoryParts, Zenon
<1> QED
  BY <1>2, <1>5, <1>6 DEF HistoryInv

\* A row that is appended.
LEMMA HistoryAppended ==
  ASSUME DataInv, HistoryInv, root \in Dirs, day' = day,
         NEW mac \in Macs \cup {NoMac}, NEW serial \in Texts, NEW burn \in Burns,
         Record(mac, serial, burn), ~UNCHANGED <<disk, written>>
  PROVE  HistoryInv'
<1> DEFINE old == disk[root].csv
           line == Line(mac, serial, burn)
           name == CurrentCsvFile(old, day)
           base == IF name \in DOMAIN old THEN old[name] ELSE <<Header>>
           files == AppendCsvRecord(old, day, line)
           r == Row(mac, serial, burn, name, Len(files[name]))
<1>1. disk' = [disk EXCEPT ![root].csv = files] /\ written' = Append(written, r)
  BY Zenon DEF Record, Row
<1>2. \A d \in Dirs : disk'[d].csv = IF d = root THEN files ELSE disk[d].csv
  BY <1>1, CsvChanged DEF DataInv
<1>3. day \in Nat \ {0} /\ FilesOK(old, day) /\ HistoryIn(old, written, root)
  BY HistoryParts, Zenon DEF HistoryInv
<1>4. files = Put(old, name, Append(base, line))
  BY DEF AppendCsvRecord
<1>5. IsNextFile(old, name, day)
  BY <1>3, ChosenFile
<1>6. line \in Lines
  BY DEF Lines
<1>7. base \in Seq(Lines)
  <2>1. CASE name \in DOMAIN old
    BY <1>3, <2>1, Zenon DEF FilesOK, FileOK
  <2>2. CASE name \notin DOMAIN old
    <3>1. Header \in Lines
      BY DEF Lines
    <3> QED
      BY <2>2, <3>1
  <2> QED
    BY <2>1, <2>2
<1>8. name \in DOMAIN old => base = old[name]
  OBVIOUS
<1>9. base = IF name \in DOMAIN old THEN old[name] ELSE <<Header>>
  OBVIOUS
<1>10. r.dir = root /\ r.mac = mac /\ r.serial = serial /\ r.burn = burn /\ r.name = name
       /\ r.line = Len(files[name])
  BY DEF Row
<1>11. line = Line(r.mac, r.serial, r.burn)
  BY <1>10
<1>12. files[name] = Append(base, line)
  BY <1>4 DEF Put
<1> HIDE DEF old, line, name, base, files, r
<1>13. /\ Append(base, line) \in Seq(Lines) /\ Len(Append(base, line)) = Len(base) + 1
       /\ Len(base) <= Len(Append(base, line))
  BY <1>6, <1>7
<1>14. r.line = Len(base) + 1
  BY <1>10, <1>12, <1>13
<1>15. FilesOK(files, day)
  BY <1>3, <1>4, <1>5, <1>8, <1>13, PutOK
<1> DEFINE R == {written[i] : i \in DOMAIN written} \cup {r}
<1>16. written \in Seq(R) /\ r \in R
  <2>1. written \in Seq({written[i] : i \in DOMAIN written})
    BY DEF DataInv, RowsInv
  <2>2. {written[i] : i \in DOMAIN written} \subseteq R
    OBVIOUS
  <2>3. r \in R
    OBVIOUS
  <2> HIDE DEF R
  <2> QED
    BY <2>1, <2>2, <2>3, SeqWider
<1> HIDE DEF R
<1>17. HistoryIn(files, written', root)
  BY <1>1, <1>3, <1>4, <1>5, <1>6, <1>7, <1>9, <1>10, <1>11, <1>14, <1>16, AppendHere
<1>18. ASSUME NEW d \in Dirs
       PROVE  FilesOK(disk'[d].csv, day') /\ HistoryIn(disk'[d].csv, written', d)
  <2>1. CASE d = root
    BY <1>2, <1>15, <1>17, <2>1
  <2>2. CASE d # root
    <3>1. disk'[d].csv = disk[d].csv
      BY <1>2, <2>2
    <3>2. FilesOK(disk[d].csv, day) /\ HistoryIn(disk[d].csv, written, d)
      BY HistoryParts, Zenon DEF HistoryInv
    <3>3. r.dir # d
      BY <1>10, <2>2
    <3>4. HistoryIn(disk[d].csv, Append(written, r), d)
      BY <1>16, <3>2, <3>3, AppendElsewhere
    <3> QED
      BY <1>1, <3>1, <3>2, <3>4
  <2> QED
    BY <2>1, <2>2
<1>19. HistoryInOrder'
  BY <1>18, HistoryParts, Zenon
<1> QED
  BY <1>3, <1>18, <1>19 DEF HistoryInv

LEMMA HistoryInit == Init => HistoryInv
<1> SUFFICES ASSUME Init PROVE HistoryInv
  OBVIOUS
<1>1. \A d \in Dirs : disk[d].csv = NewFiles
  BY DEF Init
<1>2. written = <<>> /\ Len(written) = 0 /\ day = 1
  BY DEF Init
<1>3. DOMAIN NewFiles = {}
  BY DEF NewFiles
<1>4. \A d \in Dirs : FilesOK(disk[d].csv, day)
  BY <1>1, <1>3, Zenon DEF FilesOK
<1>5. ASSUME NEW d \in Dirs PROVE HistoryIn(disk[d].csv, written, d)
  <2>1. RowsAt(written, d) = {}
    BY <1>2 DEF RowsAt
  <2> QED
    BY <1>1, <1>3, <2>1, Zenon DEF HistoryIn, Placed, Ordered, Known
<1> QED
  BY <1>2, <1>4, <1>5, HistoryParts DEF HistoryInv

LEMMA HistoryStep == DataInv /\ HistoryInv /\ [Next]_vars => HistoryInv'
<1> SUFFICES ASSUME DataInv, HistoryInv, [Next]_vars PROVE HistoryInv'
  OBVIOUS
<1>1. day \in Nat /\ day <= day
  BY DEF HistoryInv
<1>2. ASSUME UNCHANGED <<disk, written, day>> PROVE HistoryInv'
  BY <1>1, <1>2, HistoryKept
<1>3. CASE Start
  BY <1>2, <1>3 DEF Start
<1>4. CASE Stop
  <2>1. CASE UNCHANGED disk
    BY <1>2, <1>4, <2>1 DEF Stop
  <2>2. CASE disk' = [disk EXCEPT ![root].csv = AppendCutShort(@, day)]
    <3>1. root \in Dirs
      BY <1>4 DEF Stop, DataInv, WindowInv, Running
    <3> QED
      BY <1>4, <2>2, <3>1, HistoryCutShort DEF Stop
  <2> QED
    BY <1>4, <2>1, <2>2 DEF Stop
<1>5. CASE Midnight
  <2>1. day' = day + 1 /\ UNCHANGED <<disk, written>>
    BY <1>5 DEF Midnight
  <2>2. day' \in Nat /\ day <= day'
    BY <1>1, <2>1
  <2> QED
    BY <2>1, <2>2, HistoryKept
<1>6. CASE OnSnSettingsClicked
  <2>1. UNCHANGED <<written, day>> /\ Running
    BY <1>6 DEF OnSnSettingsClicked
  <2>2. \A d \in Dirs : disk'[d].csv = disk[d].csv
    <3>1. \E s : SaveToFile(s)
      BY <1>6, Zenon DEF OnSnSettingsClicked, Accept
    <3>2. PICK s : SaveToFile(s)
      BY <3>1
    <3>3. disk' = disk \/ disk' = [disk EXCEPT ![root].settings = Saved(s)]
      BY <3>2 DEF SaveToFile
    <3>4. root \in Dirs
      BY <2>1 DEF DataInv, WindowInv, Running
    <3>5. CASE disk' = [disk EXCEPT ![root].settings = Saved(s)]
      <4>1. disk' = [disk EXCEPT ![root] = [disk[root] EXCEPT !.settings = Saved(s)]]
        BY <3>5
      <4> SUFFICES ASSUME NEW d \in Dirs PROVE disk'[d].csv = disk[d].csv
        OBVIOUS
      <4>2. disk'[d] = IF d = root THEN [disk[d] EXCEPT !.settings = Saved(s)] ELSE disk[d]
        BY <4>1 DEF DataInv, DiskInv
      <4>3. DOMAIN disk[d] = {"settings", "csv"}
        BY DEF DataInv, DiskInv
      <4> QED
        BY <4>2, <4>3
    <3> QED
      BY <3>3, <3>5
  <2> QED
    BY <1>1, <2>1, <2>2, HistoryKept
<1>7. CASE OnWriteNextSerialClicked
  <2>1. Running /\ root \in Dirs /\ UNCHANGED <<root, day>>
    BY <1>7 DEF OnWriteNextSerialClicked, DataInv, WindowInv, Running
  <2>2. \/ UNCHANGED <<disk, written>>
        \/ \E mac \in Macs \cup {NoMac} : WriteCurrentSerialOnce(mac)
    BY <1>7 DEF OnWriteNextSerialClicked
  <2>3. ASSUME NEW mac \in Macs \cup {NoMac}, WriteCurrentSerialOnce(mac),
               ~UNCHANGED <<disk, written>>
        PROVE  HistoryInv'
    <3> DEFINE n == Raised(snMode, nextSerial)
               serial == BuildSerialString(snMode, n)
    <3>1. PICK burn \in Burns : Record(mac, serial, burn)
      BY <2>1, <2>3, WriteDoes DEF DataInv
    <3>2. serial \in Texts
      BY RaisedNumber, SerialText DEF DataInv, WindowInv
    <3> HIDE DEF serial
    <3> QED
      BY <2>1, <2>3, <3>1, <3>2, HistoryAppended
  <2> QED
    BY <1>2, <2>1, <2>2, <2>3
<1>8. CASE Session
  BY <1>2, <1>8 DEF Session, dataVars
<1>9. CASE UNCHANGED vars
  BY <1>2, <1>9 DEF vars, dataVars
<1> QED
  BY <1>3, <1>4, <1>5, <1>6, <1>7, <1>8, <1>9 DEF Next

LEMMA HistoryTheorem == Spec => [](DataInv /\ HistoryInv)
<1>1. Init => DataInv /\ HistoryInv
  BY DataInit, HistoryInit
<1>2. DataInv /\ HistoryInv /\ [Next]_vars => (DataInv /\ HistoryInv)'
  BY HistoryStep, DataStep
<1> QED
  BY <1>1, <1>2, PTL DEF Spec

\* main_window.cpp, currentCsvFilePath and appendCsvRecord: the files of a data
\* directory, read in the order of their names, hold every row that was
\* appended there, once and in the order of the appends, and else only headers.
THEOREM HistoryInOrderTheorem == Spec => []HistoryInOrder
<1>1. HistoryInv => HistoryInOrder
  BY DEF HistoryInv
<1> QED
  BY <1>1, HistoryTheorem, PTL

\* main_window.cpp, isDuplicateRecord: the search reads from those lines what was
\* put into them.  It finds every unit with an OK row, and every such serial
\* without a comma or a space at an end, and nothing else.
THEOREM SearchIsExactTheorem == Spec => []SearchIsExact
<1>1. DataInv /\ HistoryInv => SearchIsExact
  <2> SUFFICES ASSUME DataInv, HistoryInv PROVE SearchIsExact
    OBVIOUS
  <2>1. HistoryInOrder /\ \A d \in Dirs : FilesOK(disk[d].csv, day)
    BY Zenon DEF HistoryInv
  <2>2. root \in Dirs \cup {"unset"} /\ RowsOK(written)
    BY DEF DataInv, WindowInv, RowsInv, RowsOK
  <2> QED
    BY <2>1, <2>2, SearchFromHistory
<1> QED
  BY <1>1, HistoryTheorem, PTL

-----------------------------------------------------------------------------
(* The command.  The text that buildCmdFromTemplate makes of the default   *)
(* template is the text of the template's bytes and the serial's, in       *)
(* digits with a space between two; and that text is split, digit by       *)
(* digit, into the bytes it was written from.                              *)

Placeholders == {"{SERIAL_ASCII}", "{SERIAL_HEX}"}

\* A character that is neither a separator nor a placeholder.
Plain(c) == c \notin Separators /\ c \notin Placeholders

\* main_window.cpp:371: sixteen digits, none of them a separator.
LEMMA SixteenDigits ==
  /\ DOMAIN HexDigits = 1 .. 16
  /\ \A d, e \in 1 .. 16 : HexDigits[d] = HexDigits[e] => d = e
  /\ \A d \in 1 .. 16 : Plain(HexDigits[d])
<1>1. DOMAIN HexDigits = 1 .. 16
  BY DEF HexDigits
<1>2. ASSUME NEW d \in 1 .. 16 PROVE Plain(HexDigits[d])
  <2> DEFINE D == {"0", "1", "2", "3", "4", "5", "6", "7",
                   "8", "9", "A", "B", "C", "D", "E", "F"}
  <2>1. HexDigits[d] \in D
    BY DEF HexDigits
  <2>2. \A c \in D : c \notin Separators
    BY DEF Separators
  <2>3. \A c \in D : c \notin Placeholders
    BY DEF Placeholders
  <2> HIDE DEF D
  <2> QED
    BY <2>1, <2>2, <2>3, Zenon DEF Plain
<1>3. ASSUME NEW d \in 1 .. 16, NEW e \in 1 .. 16, HexDigits[d] = HexDigits[e] PROVE d = e
  BY <1>3 DEF HexDigits
<1> QED
  BY <1>1, <1>2, <1>3

\* toUShort(16) gives back the digit's place.
LEMMA DigitValues == \A d \in 1 .. 16 : HexDigits[d] \in DOMAIN ValueOf /\ ValueOf[HexDigits[d]] = d - 1
<1> SUFFICES ASSUME NEW d \in 1 .. 16
             PROVE  HexDigits[d] \in DOMAIN ValueOf /\ ValueOf[HexDigits[d]] = d - 1
  OBVIOUS
<1> DEFINE c == HexDigits[d]
           e == CHOOSE k \in DOMAIN HexDigits : HexDigits[k] = c
<1>1. c \in Range(HexDigits)
  BY SixteenDigits DEF Range
<1>2. ValueOf[c] = e - 1 /\ c \in DOMAIN ValueOf
  BY <1>1 DEF ValueOf
<1>3. e \in DOMAIN HexDigits /\ HexDigits[e] = c
  BY SixteenDigits
<1>4. e = d
  BY <1>3, SixteenDigits
<1> QED
  BY <1>2, <1>4

Chars == Range(HexDigits)

\* Two digits say which byte it was.
LEMMA TwoDigits ==
  ASSUME NEW b \in 0 .. 255
  PROVE  /\ HexOf(b) \in Seq(Chars) /\ Len(HexOf(b)) = 2
         /\ Plain(HexOf(b)[1]) /\ Plain(HexOf(b)[2])
         /\ ByteOf(HexOf(b)) = b
<1> DEFINE h == b \div 16
           l == b % 16
           x == HexDigits[h + 1]
           y == HexDigits[l + 1]
<1>1. h \in 0 .. 15 /\ l \in 0 .. 15 /\ b = l + 16 * h
  OBVIOUS
<1>2. h + 1 \in 1 .. 16 /\ l + 1 \in 1 .. 16 /\ (h + 1) - 1 = h /\ (l + 1) - 1 = l
  BY <1>1
<1> HIDE DEF h, l
<1>3. x \in Chars /\ y \in Chars
  BY <1>2, SixteenDigits DEF Range, Chars
<1>4. Plain(x) /\ Plain(y)
  BY <1>2, SixteenDigits
<1>5. x \in DOMAIN ValueOf /\ y \in DOMAIN ValueOf /\ ValueOf[x] = h /\ ValueOf[y] = l
  BY <1>2, DigitValues
<1>6. HexOf(b) = <<x, y>>
  BY DEF HexOf, h, l
<1> HIDE DEF x, y
<1>7. ByteOf(<<x, y>>) = l + 16 * h
  <2> DEFINE t == <<x, y>>
  <2>1. Len(t) = 2 /\ t[1] = x /\ t[2] = y /\ \A i \in 1 .. 2 : t[i] = x \/ t[i] = y
    OBVIOUS
  <2> HIDE DEF t
  <2>2. ~\E i \in 1 .. 2 : t[i] \notin DOMAIN ValueOf \/ (i < 2 - 1 /\ t[i] # "0")
    BY <1>5, <2>1
  <2>3. ByteOf(t) = ValueOf[t[2]] + (IF 2 = 1 THEN 0 ELSE 16 * ValueOf[t[2 - 1]])
    BY <2>1, <2>2, Zenon DEF ByteOf
  <2>4. 2 - 1 = 1 /\ 2 # 1
    OBVIOUS
  <2> QED
    BY <1>5, <2>1, <2>3, <2>4 DEF t
<1>8. <<x, y>> \in Seq(Chars) /\ Len(<<x, y>>) = 2 /\ <<x, y>>[1] = x /\ <<x, y>>[2] = y
  BY <1>3
<1> QED
  BY <1>1, <1>4, <1>6, <1>7, <1>8

\* What FlattenSeq and Tokens define step by step is what fulfils the steps.
Flattens(F, seqs, n) ==
  /\ Len(seqs) = n /\ F = [i \in 1 .. n |-> F[i]]
  /\ F[1] = seqs[1] /\ \A i \in 2 .. n : F[i] = F[i - 1] \o seqs[i]

LEMMA FlattenBy ==
  ASSUME NEW n \in Nat \ {0}, NEW seqs, NEW F, Flattens(F, seqs, n)
  PROVE  FlattenSeq(seqs) = F[n]
<1>0. /\ Len(seqs) = n /\ F = [i \in 1 .. n |-> F[i]]
      /\ F[1] = seqs[1] /\ \A i \in 2 .. n : F[i] = F[i - 1] \o seqs[i]
  BY Zenon DEF Flattens
<1> DEFINE Is(f) == f = [i \in 1 .. n |-> IF i = 1 THEN seqs[i] ELSE f[i - 1] \o seqs[i]]
           g == CHOOSE f : Is(f)
<1>1. Is(F)
  <2>1. \A i \in 1 .. n : F[i] = IF i = 1 THEN seqs[i] ELSE F[i - 1] \o seqs[i]
    <3>1. \A i \in 1 .. n : i = 1 \/ i \in 2 .. n
      OBVIOUS
    <3> QED
      BY <1>0, <3>1, Zenon
  <2>2. [i \in 1 .. n |-> F[i]] = [i \in 1 .. n |-> IF i = 1 THEN seqs[i] ELSE F[i - 1] \o seqs[i]]
    BY <2>1, Zenon
  <2> QED
    BY <1>0, <2>2, Zenon
<1>2. FlattenSeq(seqs) = g[n]
  <2>1. Len(seqs) # 0
    BY <1>0
  <2> QED
    BY <1>0, <2>1, Zenon DEF FlattenSeq
<1>3. Is(g)
  BY <1>1, Zenon
<1> HIDE DEF g
<1>4. \A i \in 1 .. n : g[i] = IF i = 1 THEN seqs[i] ELSE g[i - 1] \o seqs[i]
  BY <1>3
<1> HIDE DEF Is
<1> DEFINE P == {j \in 0 .. n - 1 : g[j + 1] = F[j + 1]}
<1>5. 0 \in P
  BY <1>0, <1>4
<1>6. ASSUME NEW j \in 1 .. n - 1, j - 1 \in P PROVE j \in P
  <2>1. j + 1 \in 1 .. n /\ j + 1 \in 2 .. n /\ j + 1 # 1 /\ (j + 1) - 1 = j /\ (j - 1) + 1 = j
        /\ j \in 0 .. n - 1
    OBVIOUS
  <2>2. g[j] = F[j]
    BY <1>6, <2>1
  <2>3. g[j + 1] = g[(j + 1) - 1] \o seqs[j + 1] /\ F[j + 1] = F[(j + 1) - 1] \o seqs[j + 1]
    BY <1>0, <1>4, <2>1, Zenon
  <2> QED
    BY <2>1, <2>2, <2>3
<1> HIDE DEF P
<1>7. n - 1 \in P
  <2>1. n - 1 \in Nat /\ n - 1 \in 0 .. n - 1
    OBVIOUS
  <2>2. \A j \in 0 .. n - 1 : j \in P
    BY <1>5, <1>6, <2>1, UpTo
  <2> QED
    BY <2>1, <2>2
<1>8. g[n] = F[n]
  <2>1. (n - 1) + 1 = n
    OBVIOUS
  <2> QED
    BY <1>7, <2>1 DEF P
<1> QED
  BY <1>2, <1>8

TokensStep(before, text, i) ==
  IF text[i] \in Separators THEN before
  ELSE IF i = 1 \/ text[i - 1] \in Separators THEN Append(before, <<text[i]>>)
  ELSE Extended(before, text[i])

Tokenizes(F, text, n) ==
  /\ Len(text) = n /\ F = [i \in 0 .. n |-> F[i]]
  /\ F[0] = <<>> /\ \A i \in 1 .. n : F[i] = TokensStep(F[i - 1], text, i)

LEMMA TokensBy ==
  ASSUME NEW n \in Nat, NEW text, NEW F, Tokenizes(F, text, n)
  PROVE  Tokens(text) = F[n]
<1>0. /\ Len(text) = n /\ F = [i \in 0 .. n |-> F[i]]
      /\ F[0] = <<>> /\ \A i \in 1 .. n : F[i] = TokensStep(F[i - 1], text, i)
  BY Zenon DEF Tokenizes
<1> DEFINE Is(f) == f = [i \in 0 .. n |->
                           IF i = 0 THEN <<>>
                           ELSE LET before == f[i - 1]
                                IN  IF text[i] \in Separators THEN before
                                    ELSE IF i = 1 \/ text[i - 1] \in Separators
                                         THEN Append(before, <<text[i]>>)
                                    ELSE Extended(before, text[i])]
           g == CHOOSE f : Is(f)
           Steps(f) == [i \in 0 .. n |-> IF i = 0 THEN <<>> ELSE TokensStep(f[i - 1], text, i)]
<1>1. \A f : Is(f) <=> f = Steps(f)
  BY Zenon DEF TokensStep
<1>2. F = Steps(F)
  <2>1. \A i \in 0 .. n : i = 0 \/ i \in 1 .. n
    OBVIOUS
  <2>2. \A i \in 0 .. n : F[i] = IF i = 0 THEN <<>> ELSE TokensStep(F[i - 1], text, i)
    BY <1>0, <2>1, Zenon
  <2>3. [i \in 0 .. n |-> F[i]] = Steps(F)
    BY <2>2, Zenon
  <2> QED
    BY <1>0, <2>3, Zenon
<1>3. Tokens(text) = g[n]
  BY <1>0, Zenon DEF Tokens
<1>4. Is(g)
  <2>1. Is(F)
    BY <1>1, <1>2, Zenon
  <2> QED
    BY <2>1, Zenon
<1>5. g = Steps(g)
  BY <1>1, <1>4, Zenon
<1> HIDE DEF g, Is
<1>6. \A i \in 0 .. n : g[i] = IF i = 0 THEN <<>> ELSE TokensStep(g[i - 1], text, i)
  BY <1>5
<1> HIDE DEF Steps
<1> DEFINE P == {i \in 0 .. n : g[i] = F[i]}
<1>7. 0 \in P
  BY <1>0, <1>6
<1>8. ASSUME NEW i \in 1 .. n, i - 1 \in P PROVE i \in P
  <2>1. i \in 0 .. n /\ i # 0
    OBVIOUS
  <2>2. g[i - 1] = F[i - 1]
    BY <1>8
  <2>3. g[i] = TokensStep(g[i - 1], text, i) /\ F[i] = TokensStep(F[i - 1], text, i)
    BY <1>0, <1>6, <2>1, Zenon
  <2> QED
    BY <2>1, <2>2, <2>3
<1> HIDE DEF P
<1>9. \A i \in 0 .. n : i \in P
  BY <1>7, <1>8, UpTo
<1>10. g[n] = F[n]
  BY <1>9 DEF P
<1> QED
  BY <1>3, <1>10

\* A part that is longer by one.
LEMMA OneMore ==
  ASSUME NEW S, NEW text \in Seq(S), NEW i \in 1 .. Len(text)
  PROVE  /\ SubSeq(text, 1, 1) = <<text[1]>>
         /\ i # 1 => SubSeq(text, 1, i) = SubSeq(text, 1, i - 1) \o <<text[i]>>
<1>1. SubSeq(text, 1, 1) = <<text[1]>>
  <2>1. 1 \in 1 .. Len(text) /\ 1 <= 1 /\ 1 - 1 + 1 = 1 /\ 1 + 1 - 1 = 1 /\ 1 \in 1 .. 1
    OBVIOUS
  <2>2. /\ SubSeq(text, 1, 1) \in Seq(S) /\ Len(SubSeq(text, 1, 1)) = 1 - 1 + 1
        /\ \A j \in 1 .. 1 - 1 + 1 : SubSeq(text, 1, 1)[j] = text[1 + j - 1]
    BY <2>1, PartSeq
  <2>3. Len(SubSeq(text, 1, 1)) = 1 /\ SubSeq(text, 1, 1)[1] = text[1]
    BY <2>1, <2>2
  <2> DEFINE a == SubSeq(text, 1, 1)
             b == <<text[1]>>
  <2>4. b \in Seq({text[1]}) /\ Len(b) = 1 /\ b[1] = text[1] /\ \A j \in 1 .. Len(b) : j = 1
    BY OneTuple
  <2> HIDE DEF a, b
  <2>5. a \in Seq(S) /\ Len(a) = 1 /\ a[1] = text[1]
    BY <2>2, <2>3 DEF a
  <2>6. \A j \in 1 .. Len(b) : b[j] = a[j]
    BY <2>4, <2>5, Zenon
  <2>7. a = b
    BY <2>4, <2>5, <2>6, SameSeq
  <2> QED
    BY <2>7 DEF a, b
<1>2. ASSUME i # 1 PROVE SubSeq(text, 1, i) = SubSeq(text, 1, i - 1) \o <<text[i]>>
  <2> DEFINE a == SubSeq(text, 1, i - 1)
             z == <<text[i]>>
             s == SubSeq(text, 1, i)
  <2>1. i - 1 \in 1 .. Len(text) /\ 1 \in 1 .. Len(text) /\ 1 <= i - 1 /\ 1 <= i
        /\ (i - 1) - 1 + 1 = i - 1 /\ i - 1 + 1 = i /\ (i - 1) + 1 = i
    BY <1>2
  <2>2. /\ a \in Seq(S) /\ Len(a) = i - 1 /\ \A j \in 1 .. i - 1 : a[j] = text[1 + j - 1]
    BY <2>1, PartSeq
  <2>3. s \in Seq(S) /\ Len(s) = i /\ \A j \in 1 .. i : s[j] = text[1 + j - 1]
    BY <2>1, PartSeq
  <2>4. z \in Seq(S) /\ Len(z) = 1 /\ z[1] = text[i]
    BY <2>1
  <2> HIDE DEF a, z, s
  <2> DEFINE c == a \o z
  <2>50. Joined(c, a, i - 1, z, 1, S)
    <3>1. i - 1 \in Nat /\ 1 \in Nat
      BY <2>1
    <3> QED
      BY <2>2, <2>4, <3>1, ConcatParts, Zenon
  <2> HIDE DEF c
  <2>51. /\ c \in Seq(S) /\ Len(c) = (i - 1) + 1 /\ \A j \in 1 .. i - 1 : c[j] = a[j]
         /\ \A j \in 1 .. 1 : c[(i - 1) + j] = z[j]
    BY <2>50, Zenon DEF Joined
  <2>52. 1 \in 1 .. 1
    OBVIOUS
  <2>5. /\ c \in Seq(S) /\ Len(c) = i /\ \A j \in 1 .. i - 1 : c[j] = a[j]
        /\ c[(i - 1) + 1] = z[1]
    BY <2>1, <2>51, <2>52, Zenon
  <2>6. ASSUME NEW j \in 1 .. i PROVE s[j] = c[j]
    <3>1. s[j] = text[j]
      BY <2>3
    <3>2. CASE j = i
      BY <2>1, <2>4, <2>5, <3>1, <3>2
    <3>3. CASE j # i
      <4>1. j \in 1 .. i - 1
        BY <3>3
      <4> QED
        BY <2>2, <2>5, <3>1, <4>1
    <3> QED
      BY <3>2, <3>3
  <2>7. s = c
    BY <2>3, <2>5, <2>6, SameSeq
  <2> QED
    BY <2>7 DEF s, c, a, z
<1> QED
  BY <1>1, <1>2

\* Characters put together make the text they came from.
LEMMA FlattenSingles ==
  ASSUME NEW S, NEW text \in Seq(S), NEW n \in Nat \ {0}, n = Len(text)
  PROVE  FlattenSeq([i \in 1 .. n |-> <<text[i]>>]) = text
<1> DEFINE seqs == [i \in 1 .. n |-> <<text[i]>>]
           F == [i \in 1 .. n |-> SubSeq(text, 1, i)]
<1>1. Len(seqs) = n /\ \A i \in 1 .. n : seqs[i] = <<text[i]>>
  OBVIOUS
<1>2. F = [i \in 1 .. n |-> F[i]] /\ \A i \in 1 .. n : F[i] = SubSeq(text, 1, i)
  OBVIOUS
<1> HIDE DEF seqs, F
<1>3. F[1] = seqs[1]
  <2>1. 1 \in 1 .. n
    OBVIOUS
  <2>2. F[1] = SubSeq(text, 1, 1) /\ seqs[1] = <<text[1]>>
    BY <1>1, <1>2, <2>1, Zenon
  <2> QED
    BY <2>1, <2>2, OneMore
<1>4. ASSUME NEW i \in 2 .. n PROVE F[i] = F[i - 1] \o seqs[i]
  <2>1. i \in 1 .. n /\ i - 1 \in 1 .. n /\ i # 1
    OBVIOUS
  <2>2. F[i] = SubSeq(text, 1, i) /\ F[i - 1] = SubSeq(text, 1, i - 1) /\ seqs[i] = <<text[i]>>
    BY <1>1, <1>2, <2>1, Zenon
  <2>3. SubSeq(text, 1, i) = SubSeq(text, 1, i - 1) \o <<text[i]>>
    BY <2>1, OneMore
  <2> QED
    BY <2>2, <2>3
<1>5. FlattenSeq(seqs) = F[n]
  <2>1. Flattens(F, seqs, n)
    BY <1>1, <1>2, <1>3, <1>4, Zenon DEF Flattens
  <2> QED
    BY <1>1, <2>1, FlattenBy, Zenon
<1>6. F[n] = text
  <2>1. n \in 1 .. n
    OBVIOUS
  <2>2. F[n] = SubSeq(text, 1, Len(text))
    BY <1>2, <2>1, Zenon
  <2> QED
    BY <2>2, WholeSeq
<1> QED
  BY <1>5, <1>6 DEF seqs

\* The characters of a text and, where a placeholder was, another text.
EndsBy(seqs, text, m, by) ==
  Len(seqs) = m + 1 /\ seqs[m + 1] = by /\ \A i \in 1 .. m : seqs[i] = <<text[i]>>

LEMMA FlattenLast ==
  ASSUME NEW S, NEW text \in Seq(S), NEW m \in Nat \ {0}, m = Len(text), NEW by \in Seq(S),
         NEW seqs, EndsBy(seqs, text, m, by)
  PROVE  FlattenSeq(seqs) = text \o by
<1>30. Len(seqs) = m + 1 /\ seqs[m + 1] = by /\ \A i \in 1 .. m : seqs[i] = <<text[i]>>
  BY Zenon DEF EndsBy
<1> DEFINE n == m + 1
           F == [i \in 1 .. n |-> IF i = n THEN text \o by ELSE SubSeq(text, 1, i)]
<1>1. n \in Nat \ {0} /\ Len(seqs) = n
  BY <1>30
<1>2. F = [i \in 1 .. n |-> F[i]] /\ F[n] = text \o by /\ \A i \in 1 .. m : F[i] = SubSeq(text, 1, i)
  OBVIOUS
<1>20. 1 \in 1 .. m /\ m \in 1 .. m
  OBVIOUS
<1> HIDE DEF F
<1>3. F[1] = seqs[1]
  <2>2. F[1] = SubSeq(text, 1, 1) /\ seqs[1] = <<text[1]>>
    BY <1>2, <1>20, <1>30, Zenon
  <2> QED
    BY <1>20, <2>2, OneMore
<1>4. ASSUME NEW i \in 2 .. n PROVE F[i] = F[i - 1] \o seqs[i]
  <2>1. CASE i = n
    <3>1. i - 1 = m
      BY <2>1
    <3>2. F[m] = SubSeq(text, 1, m)
      BY <1>2, <1>20, Zenon
    <3>3. F[m] = text
      BY <3>2, WholeSeq
    <3> QED
      BY <1>2, <1>30, <2>1, <3>1, <3>3
  <2>2. CASE i # n
    <3>1. i \in 1 .. m /\ i - 1 \in 1 .. m /\ i # 1
      BY <2>2
    <3>2. F[i] = SubSeq(text, 1, i) /\ F[i - 1] = SubSeq(text, 1, i - 1) /\ seqs[i] = <<text[i]>>
      BY <1>2, <1>30, <3>1, Zenon
    <3>3. SubSeq(text, 1, i) = SubSeq(text, 1, i - 1) \o <<text[i]>>
      BY <3>1, OneMore
    <3> QED
      BY <3>2, <3>3
  <2> QED
    BY <2>1, <2>2
<1> HIDE DEF n
<1>5. FlattenSeq(seqs) = F[n]
  <2>1. Flattens(F, seqs, n)
    BY <1>1, <1>2, <1>3, <1>4, Zenon DEF Flattens
  <2> QED
    BY <1>1, <2>1, FlattenBy, Zenon
<1> QED
  BY <1>2, <1>5

\* Bytes in hexadecimal digits, with a space between two.
Written(b, k) ==
  [i \in 1 .. 3 * k - 1 |-> IF i % 3 = 0 THEN " " ELSE HexOf(b[(i \div 3) + 1])[i % 3]]

\* Where the two digits of a byte are.
LEMMA Thirds ==
  ASSUME NEW q \in Nat
  PROVE  /\ (3 * q) % 3 = 0
         /\ (3 * q + 1) % 3 = 1 /\ (3 * q + 1) \div 3 = q
         /\ (3 * q + 2) % 3 = 2 /\ (3 * q + 2) \div 3 = q
OBVIOUS

LEMMA ThirdOf ==
  ASSUME NEW k \in Nat \ {0}, NEW i \in 1 .. 3 * k - 1
  PROVE  \/ \E q \in 0 .. k - 1 : i = 3 * q + 1 \/ i = 3 * q + 2
         \/ \E q \in 1 .. k - 1 : i = 3 * q
<1> DEFINE q == i \div 3
<1>1. q \in 0 .. k - 1 /\ (i = 3 * q \/ i = 3 * q + 1 \/ i = 3 * q + 2)
  OBVIOUS
<1> HIDE DEF q
<1>2. i = 3 * q => q \in 1 .. k - 1
  BY <1>1
<1> QED
  BY <1>1, <1>2

\* What a command's text is written in.
Letters == Chars \cup {" "}

\* Where the digits and the spaces are.
Spelled(T, b, k) ==
  /\ T \in Seq(Letters) /\ Len(T) = 3 * k - 1
  /\ \A q \in 0 .. k - 1 : T[3 * q + 1] = HexOf(b[q + 1])[1] /\ T[3 * q + 2] = HexOf(b[q + 1])[2]
  /\ \A q \in 1 .. k - 1 : T[3 * q] = " "

\* Bytes that are written are spelled so.
LEMMA WrittenText ==
  ASSUME NEW k \in Nat \ {0}, NEW b, \A j \in 1 .. k : b[j] \in 0 .. 255
  PROVE  Spelled(Written(b, k), b, k)
<1> DEFINE T == Written(b, k)
           n == 3 * k - 1
<1>1. n \in Nat
  OBVIOUS
<1>2. \A i \in 1 .. n : T[i] = IF i % 3 = 0 THEN " " ELSE HexOf(b[(i \div 3) + 1])[i % 3]
  BY DEF Written
<1>3. T = [i \in 1 .. n |-> T[i]]
  BY DEF Written
<1> HIDE DEF T
<1>4. ASSUME NEW q \in 0 .. k - 1
      PROVE  T[3 * q + 1] = HexOf(b[q + 1])[1] /\ T[3 * q + 2] = HexOf(b[q + 1])[2]
  <2>1. 3 * q + 1 \in 1 .. n /\ 3 * q + 2 \in 1 .. n /\ 1 # 0 /\ 2 # 0
    OBVIOUS
  <2>2. /\ (3 * q + 1) % 3 = 1 /\ (3 * q + 1) \div 3 = q
        /\ (3 * q + 2) % 3 = 2 /\ (3 * q + 2) \div 3 = q
    BY Thirds
  <2>3. T[3 * q + 1] = HexOf(b[q + 1])[1]
    BY <1>2, <2>1, <2>2, Zenon
  <2>4. T[3 * q + 2] = HexOf(b[q + 1])[2]
    BY <1>2, <2>1, <2>2, Zenon
  <2> QED
    BY <2>3, <2>4
<1>5. ASSUME NEW q \in 1 .. k - 1 PROVE T[3 * q] = " "
  <2>1. 3 * q \in 1 .. n /\ (3 * q) % 3 = 0
    BY Thirds
  <2> QED
    BY <1>2, <2>1, Zenon
<1>6. ASSUME NEW j \in 1 .. k PROVE HexOf(b[j])[1] \in Letters /\ HexOf(b[j])[2] \in Letters
  <2>1. HexOf(b[j]) \in Seq(Chars) /\ Len(HexOf(b[j])) = 2
    BY TwoDigits
  <2>2. HexOf(b[j])[1] \in Chars /\ HexOf(b[j])[2] \in Chars
    BY <2>1
  <2> QED
    BY <2>2 DEF Letters
<1>7. ASSUME NEW i \in 1 .. n PROVE T[i] \in Letters
  <2>1. ASSUME NEW q \in 0 .. k - 1, i = 3 * q + 1 \/ i = 3 * q + 2 PROVE T[i] \in Letters
    <3>1. q + 1 \in 1 .. k
      OBVIOUS
    <3> QED
      BY <1>4, <1>6, <2>1, <3>1
  <2>2. ASSUME NEW q \in 1 .. k - 1, i = 3 * q PROVE T[i] \in Letters
    BY <1>5, <2>2 DEF Letters
  <2> QED
    BY <2>1, <2>2, ThirdOf
<1>8. T \in Seq(Letters) /\ Len(T) = n
  <2> DEFINE s == [i \in 1 .. n |-> T[i]]
  <2>1. s \in Seq(Letters) /\ Len(s) = n
    <3> HIDE DEF n
    <3> QED
      BY <1>1, <1>7, MadeSeq
  <2> QED
    BY <1>3, <2>1
<1> QED
  BY <1>4, <1>5, <1>8 DEF Spelled, T

\* The bytes as words, and what the two digits of the next one make of them.
Words(b, q) == [j \in 1 .. q |-> HexOf(b[j])]

LEMMA TwoTuple == ASSUME NEW S, NEW x \in S, NEW y \in S PROVE Append(<<x>>, y) = <<x, y>>
<1>1. <<x>> \in Seq(S) /\ Len(<<x>>) = 1 /\ <<x>>[1] = x
  OBVIOUS
<1>2. Append(<<x>>, y) \in Seq(S) /\ Len(Append(<<x>>, y)) = 2 /\ Append(<<x>>, y)[1] = x
      /\ Append(<<x>>, y)[2] = y
  BY <1>1
<1>3. <<x, y>> \in Seq(S) /\ Len(<<x, y>>) = 2 /\ <<x, y>>[1] = x /\ <<x, y>>[2] = y
  OBVIOUS
<1>4. \A i \in 1 .. 2 : i = 1 \/ i = 2
  OBVIOUS
<1>5. \A i \in 1 .. 2 : Append(<<x>>, y)[i] = <<x, y>>[i]
  BY <1>2, <1>3, <1>4, Zenon
<1> QED
  BY <1>2, <1>3, <1>5, SameSeq

LEMMA OneMoreDigit ==
  ASSUME NEW S, NEW w \in Seq(Seq(S)), NEW x \in S, NEW y \in S
  PROVE  Extended(Append(w, <<x>>), y) = Append(w, <<x, y>>)
<1>1. ASSUME NEW z \in Seq(S)
      PROVE  Extended(Append(w, z), y) = Append(w, Append(z, y))
  BY ExtendedAppend
<1> DEFINE z == <<x>>
<1>2. z \in Seq(S) /\ Append(z, y) = <<x, y>>
  BY TwoTuple
<1> HIDE DEF z
<1>3. Extended(Append(w, z), y) = Append(w, Append(z, y))
  BY <1>1, <1>2, Zenon
<1> QED
  BY <1>2, <1>3, Zenon DEF z

LEMMA WordsGrow ==
  ASSUME NEW k \in Nat \ {0}, NEW b, \A j \in 1 .. k : b[j] \in 0 .. 255, NEW q \in 0 .. k - 1,
         NEW x, NEW y, x = HexOf(b[q + 1])[1], y = HexOf(b[q + 1])[2]
  PROVE  /\ Extended(Append(Words(b, q), <<x>>), y) = Words(b, q + 1)
         /\ Plain(x) /\ Plain(y)
<1> DEFINE w == Words(b, q)
           v == Words(b, q + 1)
<1>1. q + 1 \in 1 .. k
  OBVIOUS
<1>2. /\ HexOf(b[q + 1]) \in Seq(Chars) /\ Len(HexOf(b[q + 1])) = 2 /\ Plain(x) /\ Plain(y)
  BY <1>1, TwoDigits
<1>3. HexOf(b[q + 1]) = <<x, y>> /\ x \in Chars /\ y \in Chars
  BY <1>2
<1>4. w \in Seq(Seq(Chars)) /\ Len(w) = q /\ v \in Seq(Seq(Chars)) /\ Len(v) = q + 1
      /\ v[q + 1] = <<x, y>> /\ \A j \in 1 .. q : v[j] = w[j]
  <2>1. \A j \in 1 .. k : HexOf(b[j]) \in Seq(Chars)
    BY TwoDigits
  <2>2. /\ \A j \in 1 .. q + 1 : j \in 1 .. k
        /\ \A j \in 1 .. q : j \in 1 .. q + 1
        /\ q + 1 \in 1 .. q + 1
    OBVIOUS
  <2>3. v \in Seq(Seq(Chars)) /\ Len(v) = q + 1
    BY <2>1, <2>2 DEF Words
  <2>4. w \in Seq(Seq(Chars)) /\ Len(w) = q
    BY <2>1, <2>2 DEF Words
  <2>5. v[q + 1] = <<x, y>> /\ \A j \in 1 .. q : v[j] = w[j]
    BY <1>3, <2>2 DEF Words
  <2> QED
    BY <2>3, <2>4, <2>5
<1> HIDE DEF w, v
<1>5. v = Append(w, <<x, y>>)
  <2> DEFINE z == <<x, y>>
  <2>1. z \in Seq(Chars)
    BY <1>3
  <2> HIDE DEF z
  <2>2. /\ Append(w, z) \in Seq(Seq(Chars)) /\ Len(Append(w, z)) = q + 1
        /\ Append(w, z)[q + 1] = z /\ \A j \in 1 .. q : Append(w, z)[j] = w[j]
    BY <1>4, <2>1
  <2>3. \A j \in 1 .. q + 1 : j \in 1 .. q \/ j = q + 1
    OBVIOUS
  <2>4. \A j \in 1 .. q + 1 : Append(w, z)[j] = v[j]
    BY <1>4, <2>2, <2>3 DEF z
  <2> DEFINE a == Append(w, z)
  <2> HIDE DEF a
  <2>5. a = v
    BY <1>4, <2>2, <2>4, SameSeq DEF a
  <2> QED
    BY <2>5 DEF z, a
<1>6. Extended(Append(w, <<x>>), y) = Append(w, <<x, y>>)
  <2>1. w \in Seq(Seq(Chars)) /\ x \in Chars /\ y \in Chars
    BY <1>3, <1>4
  <2> QED
    BY <2>1, OneMoreDigit, Zenon
<1> QED
  BY <1>2, <1>5, <1>6 DEF w, v

\* The tokens found in the first i characters of the text.
Sofar(b, i) ==
  LET q == i \div 3
  IN  IF i % 3 = 0 THEN Words(b, q)
      ELSE IF i % 3 = 1 THEN Append(Words(b, q), <<HexOf(b[q + 1])[1]>>)
      ELSE Words(b, q + 1)

LEMMA SofarAt ==
  ASSUME NEW b, NEW q \in Nat
  PROVE  /\ Sofar(b, 3 * q) = Words(b, q)
         /\ Sofar(b, 3 * q + 1) = Append(Words(b, q), <<HexOf(b[q + 1])[1]>>)
         /\ Sofar(b, 3 * q + 2) = Words(b, q + 1)
<1>1. /\ (3 * q) % 3 = 0 /\ (3 * q) \div 3 = q
      /\ (3 * q + 1) % 3 = 1 /\ (3 * q + 1) \div 3 = q
      /\ (3 * q + 2) % 3 = 2 /\ (3 * q + 2) \div 3 = q
      /\ 1 # 0 /\ 2 # 0 /\ 2 # 1
  OBVIOUS
<1> QED
  BY <1>1, Zenon DEF Sofar

LEMMA SpaceSeparates == " " \in Separators /\ \A c : Plain(c) => c \notin Separators
BY DEF Separators, Plain

\* Split at the spaces there is a token for each byte.
LEMMA WrittenTokens ==
  ASSUME NEW k \in Nat \ {0}, NEW b, \A j \in 1 .. k : b[j] \in 0 .. 255, NEW T, Spelled(T, b, k)
  PROVE  Tokens(T) = Words(b, k)
<1> DEFINE n == 3 * k - 1
           F == [i \in 0 .. n |-> Sofar(b, i)]
<1>1. n \in Nat /\ 0 = 3 * 0 /\ n = 3 * (k - 1) + 2 /\ k - 1 \in Nat /\ (k - 1) + 1 = k
  OBVIOUS
<1>2. F = [i \in 0 .. n |-> F[i]] /\ \A i \in 0 .. n : F[i] = Sofar(b, i)
  OBVIOUS
<1>3. 0 \in 0 .. n /\ n \in 0 .. n
  OBVIOUS
<1>4. /\ Len(T) = n
      /\ \A q \in 0 .. k - 1 : T[3 * q + 1] = HexOf(b[q + 1])[1] /\ T[3 * q + 2] = HexOf(b[q + 1])[2]
      /\ \A q \in 1 .. k - 1 : T[3 * q] = " "
  BY DEF Spelled
<1> HIDE DEF n, F
<1>5. F[0] = <<>>
  <2>1. F[0] = Words(b, 0)
    BY <1>1, <1>2, <1>3, SofarAt, ZenonT(40)
  <2>2. Words(b, 0) = <<>>
    BY DEF Words
  <2> QED
    BY <2>1, <2>2
<1>6. F[n] = Words(b, k)
  BY <1>1, <1>2, <1>3, SofarAt
\* The two digits of a byte.
<1>7. ASSUME NEW q \in 0 .. k - 1
      PROVE  /\ F[3 * q + 1] = TokensStep(F[3 * q], T, 3 * q + 1)
             /\ F[3 * q + 2] = TokensStep(F[3 * q + 1], T, 3 * q + 2)
  <2> DEFINE x == T[3 * q + 1]
             y == T[3 * q + 2]
  <2>1. x = HexOf(b[q + 1])[1] /\ y = HexOf(b[q + 1])[2]
    BY <1>4
  <2>2. /\ Extended(Append(Words(b, q), <<x>>), y) = Words(b, q + 1)
        /\ x \notin Separators /\ y \notin Separators
    BY <2>1, WordsGrow, SpaceSeparates, ZenonT(40)
  <2>3. /\ 3 * q \in 0 .. n /\ 3 * q + 1 \in 0 .. n /\ 3 * q + 2 \in 0 .. n /\ q \in Nat
        /\ (3 * q + 2) - 1 = 3 * q + 1 /\ (3 * q + 1) - 1 = 3 * q /\ 3 * q + 2 # 1
        /\ (3 * q + 1 = 1 \/ q \in 1 .. k - 1)
    BY <1>1
  <2>4. F[3 * q] = Words(b, q) /\ F[3 * q + 1] = Append(Words(b, q), <<x>>)
        /\ F[3 * q + 2] = Words(b, q + 1)
    <3>1. F[3 * q] = Sofar(b, 3 * q) /\ F[3 * q + 1] = Sofar(b, 3 * q + 1)
          /\ F[3 * q + 2] = Sofar(b, 3 * q + 2)
      BY <1>2, <2>3, Zenon
    <3>2. /\ Sofar(b, 3 * q) = Words(b, q)
          /\ Sofar(b, 3 * q + 1) = Append(Words(b, q), <<HexOf(b[q + 1])[1]>>)
          /\ Sofar(b, 3 * q + 2) = Words(b, q + 1)
      BY <2>3, SofarAt, Zenon
    <3> HIDE DEF x, y
    <3>3. Append(Words(b, q), <<HexOf(b[q + 1])[1]>>) = Append(Words(b, q), <<x>>)
      BY <2>1
    <3> QED
      BY <3>1, <3>2, <3>3
  <2>5. 3 * q + 1 = 1 \/ T[(3 * q + 1) - 1] \in Separators
    BY <1>4, <2>3, SpaceSeparates
  <2>6. TokensStep(F[3 * q], T, 3 * q + 1) = Append(F[3 * q], <<x>>)
    BY <2>2, <2>5, Zenon DEF TokensStep
  <2>7. TokensStep(F[3 * q + 1], T, 3 * q + 2) = Extended(F[3 * q + 1], y)
    <3>1. ~(3 * q + 2 = 1 \/ T[(3 * q + 2) - 1] \in Separators)
      BY <2>2, <2>3
    <3> QED
      BY <2>2, <3>1, Zenon DEF TokensStep
  <2> HIDE DEF x, y
  <2> QED
    BY <2>2, <2>4, <2>6, <2>7
\* The space after it.
<1>8. ASSUME NEW q \in 1 .. k - 1
      PROVE  F[3 * q] = TokensStep(F[3 * q - 1], T, 3 * q)
  <2>1. 3 * q \in 0 .. n /\ 3 * q - 1 \in 0 .. n /\ 3 * q - 1 = 3 * (q - 1) + 2 /\ q - 1 \in Nat
        /\ (q - 1) + 1 = q /\ q \in Nat
    BY <1>1
  <2>2. F[3 * q] = Words(b, q) /\ F[3 * q - 1] = Words(b, q)
    BY <1>2, <2>1, SofarAt, SMTT(30)
  <2>3. T[3 * q] \in Separators
    BY <1>4, SpaceSeparates
  <2> QED
    BY <2>2, <2>3, Zenon DEF TokensStep
<1>9. ASSUME NEW i \in 1 .. n PROVE F[i] = TokensStep(F[i - 1], T, i)
  <2>1. ASSUME NEW q \in 0 .. k - 1, i = 3 * q + 1 PROVE F[i] = TokensStep(F[i - 1], T, i)
    <3>1. i - 1 = 3 * q
      BY <2>1
    <3> QED
      BY <1>7, <2>1, <3>1
  <2>2. ASSUME NEW q \in 0 .. k - 1, i = 3 * q + 2 PROVE F[i] = TokensStep(F[i - 1], T, i)
    <3>1. i - 1 = 3 * q + 1
      BY <2>2
    <3> QED
      BY <1>7, <2>2, <3>1
  <2>3. ASSUME NEW q \in 1 .. k - 1, i = 3 * q PROVE F[i] = TokensStep(F[i - 1], T, i)
    BY <1>8, <2>3
  <2> QED
    BY <2>1, <2>2, <2>3, ThirdOf DEF n
<1>10. Tokenizes(F, T, n)
  BY <1>2, <1>4, <1>5, <1>9, Zenon DEF Tokenizes
<1>11. Tokens(T) = F[n]
  BY <1>1, <1>10, TokensBy
<1> QED
  BY <1>6, <1>11

LEMMA ByteBound == \A v \in 0 .. 255 : v <= 255
OBVIOUS

\* The bytes come back.
Bytes(b, k) == b = [j \in 1 .. k |-> b[j]] /\ \A j \in 1 .. k : b[j] \in 0 .. 255

LEMMA WrittenBytes ==
  ASSUME NEW k \in Nat \ {0}, NEW b, Bytes(b, k), NEW T, Spelled(T, b, k)
  PROVE  ParseHexString(T) = [ok |-> TRUE, bytes |-> b]
<1>0. b = [j \in 1 .. k |-> b[j]] /\ \A j \in 1 .. k : b[j] \in 0 .. 255
  BY Zenon DEF Bytes
<1>1. Tokens(T) = Words(b, k)
  BY <1>0, WrittenTokens
<1> DEFINE tokens == Tokens(T)
           bytes == [j \in DOMAIN tokens |-> ByteOf(tokens[j])]
<1>2. DOMAIN tokens = 1 .. k /\ \A j \in 1 .. k : tokens[j] = HexOf(b[j])
  BY <1>1 DEF Words
<1> HIDE DEF tokens
<1>3. \A j \in 1 .. k : ByteOf(tokens[j]) = b[j]
  BY <1>0, <1>2, TwoDigits
<1>4. bytes = b
  <2>1. bytes = [j \in 1 .. k |-> ByteOf(tokens[j])]
    BY <1>2, Zenon
  <2>2. [j \in 1 .. k |-> ByteOf(tokens[j])] = [j \in 1 .. k |-> b[j]]
    BY <1>3, Zenon
  <2> QED
    BY <1>0, <2>1, <2>2, Zenon
<1>5. Trimmed(T) # NoText
  <2>0. 0 \in 0 .. k - 1 /\ 1 \in 1 .. k /\ 3 * 0 + 1 = 1 /\ 0 + 1 = 1 /\ 3 * k - 1 \in Nat \ {0}
    OBVIOUS
  <2>1. T \in Seq(Letters) /\ Len(T) = 3 * k - 1
    BY Zenon DEF Spelled
  <2>10. T[3 * 0 + 1] = HexOf(b[0 + 1])[1]
    BY <2>0, Zenon DEF Spelled
  <2>2. Plain(HexOf(b[1])[1])
    <3>1. b[1] \in 0 .. 255
      BY <1>0, <2>0
    <3> QED
      BY <3>1, TwoDigits
  <2>3. T[1] # " "
    BY <2>0, <2>10, <2>2, SpaceSeparates, Zenon
  <2>4. 1 \in 1 .. Len(T)
    BY <2>0, <2>1
  <2>5. 1 \in Solid(T) /\ Solid(T) \in SUBSET (1 .. Len(T))
    BY <2>1, <2>3, <2>4, SeqDomain, Zenon DEF Solid
  <2>6. Trimmed(T) = SubSeq(T, Min(Solid(T)), Max(Solid(T)))
    BY <2>5 DEF Trimmed, Solid, Between
  <2>7. Min(Solid(T)) \in 1 .. Len(T) /\ Max(Solid(T)) \in 1 .. Len(T) /\ Min(Solid(T)) <= Max(Solid(T))
    BY <2>1, <2>5, BetweenText
  <2> DEFINE m == Min(Solid(T))
             l == Max(Solid(T))
  <2> HIDE DEF m, l
  <2>8. Len(SubSeq(T, m, l)) = l - m + 1 /\ m \in Nat /\ l \in Nat /\ m <= l
    BY <2>1, <2>7, PartSeq DEF m, l
  <2>9. Len(SubSeq(T, m, l)) # 0 /\ Len(NoText) = 0
    BY <2>8 DEF NoText
  <2>11. Trimmed(T) = SubSeq(T, m, l)
    BY <2>6 DEF m, l
  <2> QED
    BY <2>9, <2>11, Zenon
<1>6. \A j \in DOMAIN bytes : bytes[j] <= 255
  <2>1. DOMAIN bytes = 1 .. k
    BY <1>2
  <2>2. \A j \in 1 .. k : b[j] <= 255
    BY <1>0, ByteBound, Zenon
  <2> HIDE DEF bytes
  <2> QED
    BY <1>4, <2>1, <2>2, Zenon
<1> HIDE DEF bytes
<1> QED
  BY <1>4, <1>5, <1>6, Zenon DEF ParseHexString, bytes, tokens

\* The template's bytes.
TemplateBytes == <<5, 90, 11, 0, 7, 28, 0>>
ByteCodes(serial) == [i \in DOMAIN serial |-> Code[serial[i]]]
Command(serial) == TemplateBytes \o ByteCodes(serial)

\* The digits of the template's bytes.
LEMMA HeadDigits ==
  /\ HexOf(5) = <<"0", "5">> /\ HexOf(90) = <<"5", "A">> /\ HexOf(11) = <<"0", "B">>
  /\ HexOf(0) = <<"0", "0">> /\ HexOf(7) = <<"0", "7">> /\ HexOf(28) = <<"1", "C">>
<1>1. /\ 5 \div 16 = 0 /\ 5 % 16 = 5 /\ 90 \div 16 = 5 /\ 90 % 16 = 10
      /\ 11 \div 16 = 0 /\ 11 % 16 = 11 /\ 0 \div 16 = 0 /\ 0 % 16 = 0
      /\ 7 \div 16 = 0 /\ 7 % 16 = 7 /\ 28 \div 16 = 1 /\ 28 % 16 = 12
  OBVIOUS
<1>2. /\ HexDigits[0 + 1] = "0" /\ HexDigits[1 + 1] = "1" /\ HexDigits[5 + 1] = "5"
      /\ HexDigits[7 + 1] = "7" /\ HexDigits[10 + 1] = "A" /\ HexDigits[11 + 1] = "B"
      /\ HexDigits[12 + 1] = "C"
  BY DEF HexDigits
<1> QED
  BY <1>1, <1>2, Zenon DEF HexOf

\* The template begins with them as text.
LEMMA TemplateText ==
  /\ Len(DefaultTemplate) = 22 /\ DOMAIN DefaultTemplate = 1 .. 22
  /\ DefaultTemplate[22] = "{SERIAL_ASCII}"
  /\ \A i \in 1 .. 7 : /\ DefaultTemplate[3 * (i - 1) + 1] = HexOf(TemplateBytes[i])[1]
                       /\ DefaultTemplate[3 * (i - 1) + 2] = HexOf(TemplateBytes[i])[2]
                       /\ DefaultTemplate[3 * i] = " "
<1>1. /\ Len(DefaultTemplate) = 22 /\ DOMAIN DefaultTemplate = 1 .. 22
      /\ DefaultTemplate[22] = "{SERIAL_ASCII}"
  BY DEF DefaultTemplate
<1>2. /\ TemplateBytes[1] = 5 /\ TemplateBytes[2] = 90 /\ TemplateBytes[3] = 11 /\ TemplateBytes[4] = 0
      /\ TemplateBytes[5] = 7 /\ TemplateBytes[6] = 28 /\ TemplateBytes[7] = 0
  BY DEF TemplateBytes
<1>3. /\ DefaultTemplate[1] = "0" /\ DefaultTemplate[2] = "5" /\ DefaultTemplate[3] = " "
      /\ DefaultTemplate[4] = "5" /\ DefaultTemplate[5] = "A" /\ DefaultTemplate[6] = " "
      /\ DefaultTemplate[7] = "0" /\ DefaultTemplate[8] = "B" /\ DefaultTemplate[9] = " "
      /\ DefaultTemplate[10] = "0" /\ DefaultTemplate[11] = "0" /\ DefaultTemplate[12] = " "
      /\ DefaultTemplate[13] = "0" /\ DefaultTemplate[14] = "7" /\ DefaultTemplate[15] = " "
      /\ DefaultTemplate[16] = "1" /\ DefaultTemplate[17] = "C" /\ DefaultTemplate[18] = " "
      /\ DefaultTemplate[19] = "0" /\ DefaultTemplate[20] = "0" /\ DefaultTemplate[21] = " "
  BY DEF DefaultTemplate
<1>4. ASSUME NEW i \in 1 .. 7
      PROVE  /\ DefaultTemplate[3 * (i - 1) + 1] = HexOf(TemplateBytes[i])[1]
             /\ DefaultTemplate[3 * (i - 1) + 2] = HexOf(TemplateBytes[i])[2]
             /\ DefaultTemplate[3 * i] = " "
  <2>1. /\ HexOf(TemplateBytes[1])[1] = "0" /\ HexOf(TemplateBytes[1])[2] = "5"
        /\ HexOf(TemplateBytes[2])[1] = "5" /\ HexOf(TemplateBytes[2])[2] = "A"
        /\ HexOf(TemplateBytes[3])[1] = "0" /\ HexOf(TemplateBytes[3])[2] = "B"
        /\ HexOf(TemplateBytes[4])[1] = "0" /\ HexOf(TemplateBytes[4])[2] = "0"
        /\ HexOf(TemplateBytes[5])[1] = "0" /\ HexOf(TemplateBytes[5])[2] = "7"
        /\ HexOf(TemplateBytes[6])[1] = "1" /\ HexOf(TemplateBytes[6])[2] = "C"
        /\ HexOf(TemplateBytes[7])[1] = "0" /\ HexOf(TemplateBytes[7])[2] = "0"
    BY <1>2, HeadDigits
  <2>9. \A j \in 1 .. 7 : j = 1 \/ j = 2 \/ j = 3 \/ j = 4 \/ j = 5 \/ j = 6 \/ j = 7
    OBVIOUS
  <2>2. CASE i = 1
    <3>1. 3 * (i - 1) + 1 = 1 /\ 3 * (i - 1) + 2 = 2 /\ 3 * i = 3
      BY <2>2
    <3>2. /\ HexOf(TemplateBytes[i]) = HexOf(TemplateBytes[1])
          /\ DefaultTemplate[3 * (i - 1) + 1] = DefaultTemplate[1]
          /\ DefaultTemplate[3 * (i - 1) + 2] = DefaultTemplate[2]
          /\ DefaultTemplate[3 * i] = DefaultTemplate[3]
      BY <2>2, <3>1, Zenon
    <3> QED
      BY <1>3, <2>1, <3>2, ZenonT(40)
  <2>3. CASE i = 2
    <3>1. 3 * (i - 1) + 1 = 4 /\ 3 * (i - 1) + 2 = 5 /\ 3 * i = 6
      BY <2>3
    <3>2. /\ HexOf(TemplateBytes[i]) = HexOf(TemplateBytes[2])
          /\ DefaultTemplate[3 * (i - 1) + 1] = DefaultTemplate[4]
          /\ DefaultTemplate[3 * (i - 1) + 2] = DefaultTemplate[5]
          /\ DefaultTemplate[3 * i] = DefaultTemplate[6]
      BY <2>3, <3>1, Zenon
    <3> QED
      BY <1>3, <2>1, <3>2, ZenonT(40)
  <2>4. CASE i = 3
    <3>1. 3 * (i - 1) + 1 = 7 /\ 3 * (i - 1) + 2 = 8 /\ 3 * i = 9
      BY <2>4
    <3>2. /\ HexOf(TemplateBytes[i]) = HexOf(TemplateBytes[3])
          /\ DefaultTemplate[3 * (i - 1) + 1] = DefaultTemplate[7]
          /\ DefaultTemplate[3 * (i - 1) + 2] = DefaultTemplate[8]
          /\ DefaultTemplate[3 * i] = DefaultTemplate[9]
      BY <2>4, <3>1, Zenon
    <3> QED
      BY <1>3, <2>1, <3>2, ZenonT(40)
  <2>5. CASE i = 4
    <3>1. 3 * (i - 1) + 1 = 10 /\ 3 * (i - 1) + 2 = 11 /\ 3 * i = 12
      BY <2>5
    <3>2. /\ HexOf(TemplateBytes[i]) = HexOf(TemplateBytes[4])
          /\ DefaultTemplate[3 * (i - 1) + 1] = DefaultTemplate[10]
          /\ DefaultTemplate[3 * (i - 1) + 2] = DefaultTemplate[11]
          /\ DefaultTemplate[3 * i] = DefaultTemplate[12]
      BY <2>5, <3>1, Zenon
    <3> QED
      BY <1>3, <2>1, <3>2, ZenonT(40)
  <2>6. CASE i = 5
    <3>1. 3 * (i - 1) + 1 = 13 /\ 3 * (i - 1) + 2 = 14 /\ 3 * i = 15
      BY <2>6
    <3>2. /\ HexOf(TemplateBytes[i]) = HexOf(TemplateBytes[5])
          /\ DefaultTemplate[3 * (i - 1) + 1] = DefaultTemplate[13]
          /\ DefaultTemplate[3 * (i - 1) + 2] = DefaultTemplate[14]
          /\ DefaultTemplate[3 * i] = DefaultTemplate[15]
      BY <2>6, <3>1, Zenon
    <3> QED
      BY <1>3, <2>1, <3>2, ZenonT(40)
  <2>7. CASE i = 6
    <3>1. 3 * (i - 1) + 1 = 16 /\ 3 * (i - 1) + 2 = 17 /\ 3 * i = 18
      BY <2>7
    <3>2. /\ HexOf(TemplateBytes[i]) = HexOf(TemplateBytes[6])
          /\ DefaultTemplate[3 * (i - 1) + 1] = DefaultTemplate[16]
          /\ DefaultTemplate[3 * (i - 1) + 2] = DefaultTemplate[17]
          /\ DefaultTemplate[3 * i] = DefaultTemplate[18]
      BY <2>7, <3>1, Zenon
    <3> QED
      BY <1>3, <2>1, <3>2, ZenonT(40)
  <2>8. CASE i = 7
    <3>1. 3 * (i - 1) + 1 = 19 /\ 3 * (i - 1) + 2 = 20 /\ 3 * i = 21
      BY <2>8
    <3>2. /\ HexOf(TemplateBytes[i]) = HexOf(TemplateBytes[7])
          /\ DefaultTemplate[3 * (i - 1) + 1] = DefaultTemplate[19]
          /\ DefaultTemplate[3 * (i - 1) + 2] = DefaultTemplate[20]
          /\ DefaultTemplate[3 * i] = DefaultTemplate[21]
      BY <2>8, <3>1, Zenon
    <3> QED
      BY <1>3, <2>1, <3>2, ZenonT(40)
  <2> QED
    BY <2>2, <2>3, <2>4, <2>5, <2>6, <2>7, <2>8, <2>9, Zenon
<1> QED
  BY <1>1, <1>4

\* The command as bytes.
Carries(b, serial, m) ==
  /\ Bytes(b, 7 + m) /\ Len(b) = 7 + m
  /\ \A j \in 1 .. 7 : b[j] = TemplateBytes[j]
  /\ \A j \in 1 .. m : b[7 + j] = Code[serial[j]]

LEMMA CommandBytes ==
  ASSUME NEW serial \in Texts, NEW m \in Nat, m = Len(serial)
  PROVE  Carries(Command(serial), serial, m)
<1> DEFINE c == ByteCodes(serial)
           b == Command(serial)
           Byte == 0 .. 255
<1>1. serial \in Seq(DOMAIN Code)
  BY DEF Texts
<1>2. \A i \in 1 .. m : Code[serial[i]] \in Byte
  <2>1. \A i \in 1 .. m : serial[i] \in DOMAIN Code
    BY <1>1
  <2> QED
    BY <2>1, CodeAssumption
<1>3. c = [i \in 1 .. m |-> Code[serial[i]]]
  BY <1>1 DEF ByteCodes
<1> HIDE DEF Byte
<1>4. c \in Seq(Byte) /\ Len(c) = m /\ \A i \in 1 .. m : c[i] = Code[serial[i]]
  <2> DEFINE g == [i \in 1 .. m |-> Code[serial[i]]]
  <2>1. g = [i \in 1 .. m |-> g[i]] /\ \A i \in 1 .. m : g[i] = Code[serial[i]]
    OBVIOUS
  <2> HIDE DEF g
  <2>2. \A i \in 1 .. m : g[i] \in Byte
    BY <1>2, <2>1
  <2>3. g \in Seq(Byte) /\ Len(g) = m
    BY <2>1, <2>2, MadeSeq
  <2>4. c = g
    BY <1>3, Zenon DEF g
  <2> QED
    BY <2>1, <2>3, <2>4, Zenon
<1>5. TemplateBytes \in Seq(Byte) /\ Len(TemplateBytes) = 7
  BY DEF TemplateBytes, Byte
<1> HIDE DEF c
<1>6. Joined(b, TemplateBytes, 7, c, m, Byte)
  <2>1. Joined(TemplateBytes \o c, TemplateBytes, 7, c, m, Byte)
    BY <1>4, <1>5, ConcatParts
  <2> QED
    BY <2>1 DEF Command, c
<1> HIDE DEF b
<1>7. b \in Seq(Byte) /\ Len(b) = 7 + m /\ (\A i \in 1 .. 7 : b[i] = TemplateBytes[i])
      /\ \A i \in 1 .. m : b[7 + i] = c[i]
  BY <1>6 DEF Joined
<1>8. b = [j \in 1 .. 7 + m |-> b[j]] /\ \A j \in 1 .. 7 + m : b[j] \in Byte
  BY <1>7
<1>9. \A i \in 1 .. m : b[7 + i] = Code[serial[i]]
  BY <1>4, <1>7
<1> QED
  BY <1>7, <1>8, <1>9, Zenon DEF b, Byte, Bytes, Carries

\* No character of a command's text is a placeholder.
LEMMA NoPlaceholder == \A c \in Letters : c # "{SERIAL_ASCII}" /\ c # "{SERIAL_HEX}"
<1>1. \A c \in Chars : Plain(c)
  BY SixteenDigits DEF Chars, Range
<1>2. " " \notin Placeholders
  BY DEF Placeholders
<1>3. "{SERIAL_ASCII}" \in Placeholders /\ "{SERIAL_HEX}" \in Placeholders
  BY DEF Placeholders
<1>4. \A c \in Letters : c \in Chars \/ c = " "
  BY DEF Letters
<1> QED
  BY <1>1, <1>2, <1>3, <1>4, Zenon DEF Plain

\* The text of a command is the template's and the serial's.
Framed(b, c, m) ==
  /\ \A j \in 1 .. 7 : b[j] = TemplateBytes[j]
  /\ \A j \in 1 .. m : b[7 + j] = c[j]

Follows(T, hex, m) ==
  /\ \A i \in 1 .. 21 : T[i] = DefaultTemplate[i]
  /\ \A i \in 1 .. 3 * m - 1 : T[21 + i] = hex[i]

LEMMA CommandText ==
  ASSUME NEW m \in Nat \ {0}, NEW b, NEW T, Spelled(T, b, 7 + m), NEW c, NEW hex, Spelled(hex, c, m),
         Framed(b, c, m)
  PROVE  Follows(T, hex, m)
<1>1. /\ \A q \in 0 .. (7 + m) - 1 : /\ T[3 * q + 1] = HexOf(b[q + 1])[1]
                                     /\ T[3 * q + 2] = HexOf(b[q + 1])[2]
      /\ \A q \in 1 .. (7 + m) - 1 : T[3 * q] = " "
  BY Zenon DEF Spelled
<1>2. /\ \A q \in 0 .. m - 1 : /\ hex[3 * q + 1] = HexOf(c[q + 1])[1]
                               /\ hex[3 * q + 2] = HexOf(c[q + 1])[2]
      /\ \A q \in 1 .. m - 1 : hex[3 * q] = " "
  BY Zenon DEF Spelled
<1>20. /\ \A j \in 1 .. 7 : b[j] = TemplateBytes[j]
       /\ \A j \in 1 .. m : b[7 + j] = c[j]
  BY Zenon DEF Framed
<1>3. ASSUME NEW i \in 1 .. 21 PROVE T[i] = DefaultTemplate[i]
  <2>1. ASSUME NEW q \in 0 .. 7 - 1, i = 3 * q + 1 \/ i = 3 * q + 2 PROVE T[i] = DefaultTemplate[i]
    <3>1. q \in 0 .. (7 + m) - 1 /\ q + 1 \in 1 .. 7 /\ (q + 1) - 1 = q
      OBVIOUS
    <3>2. /\ DefaultTemplate[3 * ((q + 1) - 1) + 1] = HexOf(TemplateBytes[q + 1])[1]
          /\ DefaultTemplate[3 * ((q + 1) - 1) + 2] = HexOf(TemplateBytes[q + 1])[2]
      BY <3>1, TemplateText, Zenon
    <3>3. T[3 * q + 1] = HexOf(b[q + 1])[1] /\ T[3 * q + 2] = HexOf(b[q + 1])[2]
          /\ b[q + 1] = TemplateBytes[q + 1]
      BY <1>1, <1>20, <3>1, Zenon
    <3> QED
      BY <2>1, <3>1, <3>2, <3>3, Zenon
  <2>2. ASSUME NEW q \in 1 .. 7, i = 3 * q PROVE T[i] = DefaultTemplate[i]
    <3>1. q \in 1 .. (7 + m) - 1
      OBVIOUS
    <3> QED
      BY <1>1, <2>2, <3>1, TemplateText, Zenon
  <2>3. i = 21 \/ i \in 1 .. 3 * 7 - 1
    OBVIOUS
  <2>4. CASE i = 21
    <3>1. i = 3 * 7 /\ 7 \in 1 .. 7
      BY <2>4
    <3> QED
      BY <2>2, <3>1
  <2>5. CASE i \in 1 .. 3 * 7 - 1
    <3>1. 7 \in Nat \ {0} /\ \A q \in 1 .. 7 - 1 : q \in 1 .. 7
      OBVIOUS
    <3>2. \/ \E q \in 0 .. 7 - 1 : i = 3 * q + 1 \/ i = 3 * q + 2
          \/ \E q \in 1 .. 7 - 1 : i = 3 * q
      BY <2>5, <3>1, ThirdOf, Zenon
    <3> QED
      BY <2>1, <2>2, <3>1, <3>2, Zenon
  <2> QED
    BY <2>3, <2>4, <2>5
<1>4. ASSUME NEW i \in 1 .. 3 * m - 1 PROVE T[21 + i] = hex[i]
  <2>1. ASSUME NEW q \in 0 .. m - 1 PROVE T[21 + (3 * q + 1)] = hex[3 * q + 1]
                                          /\ T[21 + (3 * q + 2)] = hex[3 * q + 2]
    <3>1. 7 + q \in 0 .. (7 + m) - 1 /\ (7 + q) + 1 = 7 + (q + 1) /\ q + 1 \in 1 .. m
          /\ 21 + (3 * q + 1) = 3 * (7 + q) + 1 /\ 21 + (3 * q + 2) = 3 * (7 + q) + 2
      OBVIOUS
    <3>2. T[3 * (7 + q) + 1] = HexOf(b[(7 + q) + 1])[1] /\ T[3 * (7 + q) + 2] = HexOf(b[(7 + q) + 1])[2]
      BY <1>1, <3>1, Zenon
    <3>3. b[7 + (q + 1)] = c[q + 1]
      BY <1>20, <3>1, Zenon
    <3>4. hex[3 * q + 1] = HexOf(c[q + 1])[1] /\ hex[3 * q + 2] = HexOf(c[q + 1])[2]
      BY <1>2, Zenon
    <3>5. HexOf(b[(7 + q) + 1]) = HexOf(c[q + 1])
      BY <3>1, <3>3, Zenon
    <3>6. T[21 + (3 * q + 1)] = T[3 * (7 + q) + 1] /\ T[21 + (3 * q + 2)] = T[3 * (7 + q) + 2]
      BY <3>1, Zenon
    <3> QED
      BY <3>2, <3>4, <3>5, <3>6, Zenon
  <2>2. ASSUME NEW q \in 1 .. m - 1 PROVE T[21 + 3 * q] = hex[3 * q]
    <3>1. 7 + q \in 1 .. (7 + m) - 1 /\ 21 + 3 * q = 3 * (7 + q)
      OBVIOUS
    <3> QED
      BY <1>1, <1>2, <3>1, Zenon
  <2>3. \/ \E q \in 0 .. m - 1 : i = 3 * q + 1 \/ i = 3 * q + 2
        \/ \E q \in 1 .. m - 1 : i = 3 * q
    BY ThirdOf, Zenon
  <2> QED
    BY <2>1, <2>2, <2>3, Zenon
<1> QED
  BY <1>3, <1>4, Zenon DEF Follows

\* A character of a text.
LEMMA MemberOf ==
  ASSUME NEW S, NEW a \in Seq(S), NEW i \in 1 .. Len(a)
  PROVE  a[i] \in S
OBVIOUS

\* main_window.cpp:405: the text of the serial comes where {SERIAL_ASCII} was.
LEMMA TemplateReplaced ==
  ASSUME NEW m \in Nat \ {0}, NEW hex \in Seq(Letters), Len(hex) = 3 * m - 1,
         NEW T \in Seq(Letters), Len(T) = 3 * (7 + m) - 1,
         \A i \in 1 .. 21 : T[i] = DefaultTemplate[i], \A i \in 1 .. 3 * m - 1 : T[21 + i] = hex[i]
  PROVE  Replace(DefaultTemplate, "{SERIAL_ASCII}", hex) = T
<1> DEFINE seqs == [i \in DOMAIN DefaultTemplate |->
                      IF DefaultTemplate[i] = "{SERIAL_ASCII}" THEN hex ELSE <<DefaultTemplate[i]>>]
           begin == SubSeq(T, 1, 21)
           n == 3 * m - 1
<1>1. Replace(DefaultTemplate, "{SERIAL_ASCII}", hex) = FlattenSeq(seqs)
  BY Zenon DEF Replace
<1>2. n \in Nat /\ Len(T) = 21 + n /\ 21 \in Nat \ {0} /\ 21 \in 1 .. Len(T) /\ 1 \in 1 .. Len(T)
      /\ 1 <= 21 /\ 21 - 1 + 1 = 21 /\ \A i \in 1 .. 21 : 1 + i - 1 = i /\ i \in 1 .. Len(T)
  OBVIOUS
<1>3. begin \in Seq(Letters) /\ Len(begin) = 21 /\ \A i \in 1 .. 21 : begin[i] = DefaultTemplate[i]
  <2>1. /\ begin \in Seq(Letters) /\ Len(begin) = 21 - 1 + 1
        /\ \A i \in 1 .. 21 - 1 + 1 : begin[i] = T[1 + i - 1]
    BY <1>2, PartSeq, SMTT(30)
  <2> QED
    BY <1>2, <2>1
<1>4. /\ seqs = [i \in 1 .. 22 |-> IF DefaultTemplate[i] = "{SERIAL_ASCII}" THEN hex
                                   ELSE <<DefaultTemplate[i]>>]
  BY TemplateText, Zenon
<1>5. Len(seqs) = 21 + 1
  BY <1>4
<1>6. seqs[21 + 1] = hex
  <2>1. 21 + 1 = 22 /\ 22 \in 1 .. 22
    OBVIOUS
  <2>2. seqs[22] = IF DefaultTemplate[22] = "{SERIAL_ASCII}" THEN hex ELSE <<DefaultTemplate[22]>>
    BY <1>4, <2>1, Zenon
  <2> QED
    BY <2>1, <2>2, TemplateText, Zenon
<1>7. ASSUME NEW i \in 1 .. 21 PROVE seqs[i] = <<begin[i]>>
  <2>1. i \in 1 .. 22
    OBVIOUS
  <2>2. DefaultTemplate[i] \in Letters
    <3>1. T[i] = DefaultTemplate[i]
      OBVIOUS
    <3>2. T[i] \in Letters
      BY <1>2, MemberOf, Zenon
    <3> QED
      BY <3>1, <3>2, Zenon
  <2>3. seqs[i] = <<DefaultTemplate[i]>>
    BY <1>4, <2>1, <2>2, NoPlaceholder, Zenon
  <2> QED
    BY <1>3, <2>3
<1> HIDE DEF seqs, begin
<1>8. FlattenSeq(seqs) = begin \o hex
  <2>1. EndsBy(seqs, begin, 21, hex)
    BY <1>5, <1>6, <1>7, Zenon DEF EndsBy
  <2> DEFINE p == 21
  <2>2. begin \in Seq(Letters) /\ p = Len(begin) /\ p \in Nat \ {0} /\ hex \in Seq(Letters)
        /\ EndsBy(seqs, begin, p, hex)
    BY <1>3, <2>1
  <2> HIDE DEF p
  <2> QED
    BY <2>2, FlattenLast, Zenon
<1> DEFINE s == begin \o hex
<1>9. Joined(s, begin, 21, hex, n, Letters)
  BY <1>2, <1>3, ConcatParts, Zenon
<1> HIDE DEF s, n
<1>10. s \in Seq(Letters) /\ Len(s) = 21 + n /\ (\A i \in 1 .. 21 : s[i] = begin[i])
       /\ \A i \in 1 .. n : s[21 + i] = hex[i]
  BY <1>9, Zenon DEF Joined
<1>11. ASSUME NEW i \in 1 .. Len(s) PROVE s[i] = T[i]
  <2>1. CASE i \in 1 .. 21
    BY <1>3, <1>10, <2>1
  <2>2. CASE i \notin 1 .. 21
    <3>1. i - 21 \in 1 .. n /\ 21 + (i - 21) = i
      BY <1>2, <1>10, <2>2
    <3>2. s[21 + (i - 21)] = hex[i - 21] /\ T[21 + (i - 21)] = hex[i - 21]
      BY <1>10, <3>1, Zenon DEF n
    <3> QED
      BY <3>1, <3>2
  <2> QED
    BY <2>1, <2>2
<1>12. s = T
  <2>1. Len(s) = Len(T) /\ s \in Seq(Letters)
    BY <1>2, <1>10
  <2> QED
    BY <1>11, <2>1, SameSeq, Zenon
<1> QED
  BY <1>1, <1>8, <1>12 DEF s

\* A text without a placeholder stays.
LEMMA NothingReplaced ==
  ASSUME NEW T \in Seq(Letters), NEW n \in Nat \ {0}, n = Len(T), NEW by
  PROVE  Replace(T, "{SERIAL_HEX}", by) = T
<1> DEFINE seqs == [i \in DOMAIN T |-> IF T[i] = "{SERIAL_HEX}" THEN by ELSE <<T[i]>>]
<1>1. DOMAIN T = 1 .. n /\ \A i \in 1 .. n : T[i] \in Letters
  OBVIOUS
<1>2. seqs = [i \in 1 .. n |-> <<T[i]>>]
  <2>1. seqs = [i \in 1 .. n |-> IF T[i] = "{SERIAL_HEX}" THEN by ELSE <<T[i]>>]
    BY <1>1, Zenon
  <2>2. \A i \in 1 .. n : T[i] # "{SERIAL_HEX}"
    BY <1>1, NoPlaceholder, Zenon
  <2> QED
    BY <2>1, <2>2, Zenon
<1>3. Replace(T, "{SERIAL_HEX}", by) = FlattenSeq(seqs)
  BY Zenon DEF Replace
<1> HIDE DEF seqs
<1>4. FlattenSeq([i \in 1 .. n |-> <<T[i]>>]) = T
  BY FlattenSingles
<1> QED
  BY <1>2, <1>3, <1>4

\* buildCmdFromTemplate of the default template.
LEMMA BuiltCommand ==
  ASSUME NEW serial \in Texts, serial # NoText
  PROVE  BuildCmdFromTemplate(DefaultTemplate, serial) = [ok |-> TRUE, bytes |-> Command(serial)]
<1>1. PICK m \in Nat : m = Len(serial)
  BY DEF Texts
<1>2. m \in Nat \ {0} /\ 7 + m \in Nat \ {0}
  BY <1>1 DEF Texts, NoText
<1> DEFINE b == Command(serial)
           c == ByteCodes(serial)
           k == 7 + m
           T == Written(b, k)
           hex == HexText(serial)
<1>3. /\ Bytes(b, k) /\ Len(b) = k
      /\ \A j \in 1 .. 7 : b[j] = TemplateBytes[j]
      /\ \A j \in 1 .. m : b[7 + j] = Code[serial[j]]
  <2>1. Carries(b, serial, m)
    BY <1>1, CommandBytes, Zenon
  <2> QED
    BY <2>1, Zenon DEF Carries
<1>4. \A j \in 1 .. m : c[j] = Code[serial[j]]
  BY <1>1 DEF Texts, ByteCodes
<1>5. \A j \in 1 .. m : c[j] \in 0 .. 255 /\ b[7 + j] = c[j]
  <2>1. \A j \in 1 .. m : 7 + j \in 1 .. 7 + m
    OBVIOUS
  <2>2. \A j \in 1 .. k : b[j] \in 0 .. 255
    BY <1>3, Zenon DEF Bytes
  <2> HIDE DEF b, c
  <2> QED
    BY <1>3, <1>4, <2>1, <2>2, ZenonT(40)
<1>6. hex = Written(c, m)
  <2>1. \A i \in 1 .. 3 * m - 1 : (i \div 3) + 1 \in 1 .. m
    OBVIOUS
  <2>2. \A i \in 1 .. 3 * m - 1 : c[(i \div 3) + 1] = Code[serial[(i \div 3) + 1]]
    BY <1>4, <2>1
  <2>3. hex = [i \in 1 .. 3 * m - 1 |->
                 IF i % 3 = 0 THEN " " ELSE HexOf(Code[serial[(i \div 3) + 1]])[i % 3]]
    BY <1>1, Zenon DEF HexText
  <2> HIDE DEF c, hex
  <2> QED
    BY <2>2, <2>3, Zenon DEF Written
<1> HIDE DEF b, c, hex
<1>7. Spelled(hex, c, m)
  BY <1>2, <1>5, <1>6, WrittenText
<1>8. Spelled(T, b, k)
  <2>1. \A j \in 1 .. k : b[j] \in 0 .. 255
    BY <1>3, Zenon DEF Bytes
  <2> QED
    BY <1>2, <2>1, WrittenText
<1> HIDE DEF T
<1>9. /\ \A i \in 1 .. 21 : T[i] = DefaultTemplate[i]
      /\ \A i \in 1 .. 3 * m - 1 : T[21 + i] = hex[i]
  <2>1. Framed(b, c, m)
    BY <1>3, <1>5, Zenon DEF Framed
  <2>2. Spelled(T, b, 7 + m)
    BY <1>8
  <2>3. Follows(T, hex, m)
    BY <1>2, <1>7, <2>1, <2>2, CommandText, Zenon
  <2> QED
    BY <2>3, Zenon DEF Follows
<1>10. /\ T \in Seq(Letters) /\ Len(T) = 3 * (7 + m) - 1
       /\ hex \in Seq(Letters) /\ Len(hex) = 3 * m - 1
  BY <1>7, <1>8 DEF Spelled
<1>11. Replace(DefaultTemplate, "{SERIAL_ASCII}", hex) = T
  BY <1>2, <1>9, <1>10, TemplateReplaced
<1>12. Replace(T, "{SERIAL_HEX}", serial) = T
  <2>1. 3 * (7 + m) - 1 \in Nat \ {0}
    OBVIOUS
  <2> QED
    BY <1>10, <2>1, NothingReplaced
<1>14. k \in Nat \ {0}
  BY <1>2
<1> HIDE DEF k
<1>13. ParseHexString(T) = [ok |-> TRUE, bytes |-> b]
  <2>1. Bytes(b, k)
    BY <1>3
  <2> QED
    BY <1>8, <1>14, <2>1, WrittenBytes, Zenon
<1> QED
  BY <1>11, <1>12, <1>13, Zenon DEF BuildCmdFromTemplate, b, hex

\* The preview is that of the next number, and its text is a serial's.
LEMMA CommandFromSettings == DataInv => SerialInCommand
<1> SUFFICES ASSUME DataInv, Running, snMode.snTemplate = DefaultTemplate, NextText # NoText
             PROVE  /\ preview = <<5, 90, 11, 0, 7, 28, 0>> \o [i \in DOMAIN NextText |-> Code[NextText[i]]]
                    /\ Len(NextText) = 8 => preview[3] = Len(preview) - 4
  BY Zenon DEF SerialInCommand
<1>1. preview = Preview(snMode, Raised(snMode, nextSerial))
  BY DEF DataInv, WindowInv, PreviewIsNext
<1>2. NextText \in Texts
  BY RaisedNumber, SerialText DEF DataInv, WindowInv, NextText
<1>3. preview = BuildCmdFromTemplate(DefaultTemplate, NextText).bytes
  BY <1>1, Zenon DEF Preview, NextText
<1>4. BuildCmdFromTemplate(DefaultTemplate, NextText) = [ok |-> TRUE, bytes |-> Command(NextText)]
  BY <1>2, BuiltCommand
<1>5. preview = Command(NextText)
  BY <1>3, <1>4
<1>6. PICK m \in Nat : m = Len(NextText)
  BY <1>2 DEF Texts
<1>7. Len(Command(NextText)) = 7 + m /\ Command(NextText)[3] = TemplateBytes[3]
  <2>1. Carries(Command(NextText), NextText, m) /\ 3 \in 1 .. 7
    BY <1>2, <1>6, CommandBytes
  <2> QED
    BY <2>1, Zenon DEF Carries
<1>8. TemplateBytes[3] = 11
  BY DEF TemplateBytes
<1>9. Len(NextText) = 8 => preview[3] = Len(preview) - 4
  BY <1>5, <1>6, <1>7, <1>8
<1> QED
  BY <1>5, <1>9, Zenon DEF Command, TemplateBytes, ByteCodes

\* main_window.cpp buildCmdFromTemplate, parseHexString; README.md:46: with the
\* default template the command sent next is the template's bytes and then one
\* byte for each character of the serial, whatever the serial, its length and
\* the settings it came from.
THEOREM SerialInCommandTheorem == Spec => []SerialInCommand
<1>1. DataInv => SerialInCommand
  BY CommandFromSettings
<1> QED
  BY <1>1, DataTheorem, PTL

-----------------------------------------------------------------------------
(* What OK changes.                                                        *)

LEMMA AtMostOne ==
  ASSUME NEW S, NEW x, S \subseteq {x}
  PROVE  Cardinality(S) \in {0, 1} /\ (S = {} => Cardinality(S) = 0)
<1>1. S = {} \/ S = {x}
  OBVIOUS
<1> QED
  BY <1>1, FS_EmptySet, FS_Singleton

\* Between the settings the dialog was given and those it returns.
LEMMA OneEdit ==
  ASSUME NEW s, Whole(s), NEW t,
         t = Shown(s) \/ \E i \in DOMAIN Edits : t = Edited(Shown(s), Edits[i])
  PROVE  Cardinality({k \in DOMAIN Defaults \ {"use", "code"} : t[k] # s[k]})
           + Cardinality({p \in Parts : t.use[p] # s.use[p]})
           + Cardinality({p \in Parts : s.code[p] \in Offered(p) /\ t.code[p] # s.code[p]}) <= 1
<1> DEFINE u == Shown(s)
           Changed == {k \in DOMAIN Defaults \ {"use", "code"} : t[k] # s[k]}
           Uses == {p \in Parts : t.use[p] # s.use[p]}
           Codes == {p \in Parts : s.code[p] \in Offered(p) /\ t.code[p] # s.code[p]}
<1>1. /\ DOMAIN u = DOMAIN Defaults
      /\ \A k \in DOMAIN Defaults \ {"code"} : u[k] = s[k]
  BY DEF Shown, Whole
<1>2. u.code = [p \in Parts |-> SelectComboData(p, s.code[p])]
  BY DefaultFields DEF Shown, Whole
<1>3. \A p \in Parts : s.code[p] \in Offered(p) => u.code[p] = s.code[p]
  BY <1>2 DEF SelectComboData
<1>4. u.use = s.use /\ DOMAIN u.use = Parts /\ DOMAIN u.code = Parts
  BY <1>1, <1>2, DefaultFields DEF Whole
<1> HIDE DEF u
<1>5. \E x : \/ Changed \subseteq {x} /\ Uses = {} /\ Codes = {}
             \/ Changed = {} /\ Uses \subseteq {x} /\ Codes = {}
             \/ Changed = {} /\ Uses = {} /\ Codes \subseteq {x}
  <2>1. CASE t = u
    BY <1>1, <1>3, <1>4, <2>1
  <2>2. ASSUME NEW i \in DOMAIN Edits, t = Edited(u, Edits[i])
        PROVE  \E x : \/ Changed \subseteq {x} /\ Uses = {} /\ Codes = {}
                      \/ Changed = {} /\ Uses \subseteq {x} /\ Codes = {}
                      \/ Changed = {} /\ Uses = {} /\ Codes \subseteq {x}
    <3> DEFINE e == Edits[i]
    <3>1. CASE e.field = "use"
      <4>1. t = [u EXCEPT !["use"] = [u["use"] EXCEPT ![e.part] = e.value]]
        BY <2>2, <3>1 DEF Edited
      <4>2. \A k \in DOMAIN Defaults \ {"use"} : t[k] = u[k]
        BY <1>1, <4>1
      <4>3. t.use = [u.use EXCEPT ![e.part] = e.value]
        BY <1>1, <4>1, DefaultFields
      <4>4. Uses \subseteq {e.part}
        BY <1>4, <4>3
      <4>5. Changed = {} /\ t.code = u.code
        BY <1>1, <4>2, DefaultFields
      <4>6. Codes = {}
        BY <1>3, <4>5
      <4> HIDE DEF Changed, Uses, Codes, e
      <4> WITNESS e.part
      <4> QED
        BY <4>4, <4>5, <4>6
    <3>2. CASE e.field = "code"
      <4>1. t = [u EXCEPT !["code"] = [u["code"] EXCEPT ![e.part] = e.value]]
        BY <2>2, <3>2 DEF Edited
      <4>2. \A k \in DOMAIN Defaults \ {"code"} : t[k] = u[k]
        BY <1>1, <4>1
      <4>3. t.code = [u.code EXCEPT ![e.part] = e.value]
        BY <1>1, <4>1, DefaultFields
      <4>4. Codes \subseteq {e.part}
        BY <1>3, <1>4, <4>3
      <4>5. Changed = {} /\ t.use = s.use
        BY <1>1, <1>4, <4>2, DefaultFields
      <4>6. Uses = {}
        BY <4>5
      <4> HIDE DEF Changed, Uses, Codes, e
      <4> WITNESS e.part
      <4> QED
        BY <4>4, <4>5, <4>6
    <3>3. CASE e.field \notin {"use", "code"}
      <4>1. t = [u EXCEPT ![e.field] = e.value]
        BY <2>2, <3>3 DEF Edited
      <4>2. \A k \in DOMAIN Defaults \ {e.field} : t[k] = u[k]
        BY <1>1, <4>1
      <4>3. Changed \subseteq {e.field}
        BY <1>1, <4>2
      <4>4. t.use = s.use /\ t.code = u.code
        BY <1>4, <3>3, <4>2, DefaultFields
      <4>5. Uses = {} /\ Codes = {}
        BY <1>3, <4>4
      <4> HIDE DEF Changed, Uses, Codes, e
      <4> WITNESS e.field
      <4> QED
        BY <4>3, <4>5
    <3> QED
      BY <3>1, <3>2, <3>3
  <2> QED
    BY <2>1, <2>2 DEF u
<1> HIDE DEF Changed, Uses, Codes
<1>6. Cardinality(Changed) + Cardinality(Uses) + Cardinality(Codes) <= 1
  <2>1. PICK x : \/ Changed \subseteq {x} /\ Uses = {} /\ Codes = {}
                 \/ Changed = {} /\ Uses \subseteq {x} /\ Codes = {}
                 \/ Changed = {} /\ Uses = {} /\ Codes \subseteq {x}
    BY <1>5
  <2>2. CASE Changed \subseteq {x} /\ Uses = {} /\ Codes = {}
    BY <2>2, AtMostOne, FS_EmptySet
  <2>3. CASE Changed = {} /\ Uses \subseteq {x} /\ Codes = {}
    BY <2>3, AtMostOne, FS_EmptySet
  <2>4. CASE Changed = {} /\ Uses = {} /\ Codes \subseteq {x}
    BY <2>4, AtMostOne, FS_EmptySet
  <2> QED
    BY <2>1, <2>2, <2>3, <2>4
<1> QED
  BY <1>6 DEF Changed, Uses, Codes

\* sn_mode_settings_dialog.cpp setSettings, settings(): a field the operator
\* does not touch keeps its value through the widgets, whatever the settings.
THEOREM OkTheorem == Spec => OkChangesWhatWasEdited
<1> DEFINE Few == dialogs' # dialogs =>
                    Cardinality({k \in DOMAIN Defaults \ {"use", "code"} : snMode'[k] # snMode[k]})
                      + Cardinality({p \in Parts : snMode'.use[p] # snMode.use[p]})
                      + Cardinality({p \in Parts : snMode.code[p] \in Offered(p)
                                                   /\ snMode'.code[p] # snMode.code[p]}) <= 1
<1>1. DataInv /\ [Next]_vars => [Few]_vars
  <2> SUFFICES ASSUME DataInv, Next PROVE Few
    OBVIOUS
  <2>1. CASE OnSnSettingsClicked
    <3>1. snMode' = Shown(snMode)
          \/ \E i \in DOMAIN Edits : snMode' = Edited(Shown(snMode), Edits[i])
      BY <2>1 DEF OnSnSettingsClicked, Accept
    <3> QED
      BY <3>1, OneEdit DEF DataInv, WindowInv
  <2>2. CASE ~OnSnSettingsClicked
    <3>1. dialogs' = dialogs
      BY <2>2 DEF Next, Start, Stop, Midnight, OnWriteNextSerialClicked, Session, dataVars
    <3> QED
      BY <3>1
  <2> QED
    BY <2>1, <2>2
<1>2. [][Few]_vars => OkChangesWhatWasEdited
  BY PTL DEF OkChangesWhatWasEdited
<1> QED
  BY <1>1, <1>2, DataTheorem, PTL DEF Spec

=============================================================================
