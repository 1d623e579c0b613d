---------------------------- MODULE StreamProofs ----------------------------
(***************************************************************************)
(* Every backend of hidapi implements ReportStream: ReportsInOrder.        *)
(*                                                                         *)
(* Each step of a backend is shown to be one step of the stream, or none.  *)
(* BackendInv says what that needs: that the buffer of libusb's transfer   *)
(* holds a report only until the callback has queued it, that Windows      *)
(* begins to wait in a read only with an empty ring, and that a session in *)
(* use has its descriptors open and its callbacks registered, so that a    *)
(* report that arrives is not lost.                                        *)
(***************************************************************************)
EXTENDS HidBackendsProofs, SequenceTheorems

-----------------------------------------------------------------------------
(* Sequences: what is cut off, appended, taken and moved.                  *)

LEMMA Appended ==
  ASSUME NEW S, NEW s \in Seq(S), NEW x \in S
  PROVE  Append(s, x) \in Seq(S) /\ Len(Append(s, x)) = Len(s) + 1 /\ Len(s) \in Nat
OBVIOUS

LEMMA CutAll ==
  ASSUME NEW S, NEW s \in Seq(S)
  PROVE  SubSeq(s, 1, Len(s)) = s /\ SubSeq(s, 1, 0) = <<>> /\ Len(s) \in Nat
BY SubSeqFull, SubSeqEmpty

LEMMA CutConcat ==
  ASSUME NEW S, NEW q \in Seq(S), NEW p \in Seq(S)
  PROVE  q \o p \in Seq(S) /\ Len(q) \in 0..Len(q \o p) /\ SubSeq(q \o p, 1, Len(q)) = q
<1>1. Len(q) \in Nat /\ Len(p) \in Nat /\ q \o p \in Seq(S) /\ Len(q \o p) = Len(q) + Len(p)
  BY ConcatProperties
<1>2. CASE q = <<>>
  BY <1>1, <1>2, CutAll
<1>3. CASE q # <<>>
  <2>1. 1 \in 1..Len(q) /\ Len(q) \in 1..Len(q)
    BY <1>1, <1>3
  <2>2. SubSeq(q \o p, 1, Len(q)) = SubSeq(q, 1, Len(q))
    BY <2>1, SubSeqOfConcat1
  <2> QED
    BY <1>1, <2>2, SubSeqFull
<1> QED
  BY <1>2, <1>3

LEMMA Taken ==
  ASSUME NEW S, NEW s \in Seq(S), s # <<>>
  PROVE  /\ Head(s) = s[1] /\ Head(s) \in S
         /\ Tail(s) \in Seq(S) /\ Len(Tail(s)) = Len(s) - 1 /\ Len(s) \in Nat \ {0}
         /\ \A i \in 1..Len(s) - 1 : Tail(s)[i] = s[i + 1]
<1>1. Len(s) \in Nat \ {0}
  OBVIOUS
<1>2. Head(s) = s[1] /\ Head(s) \in S
  BY <1>1
<1>3. Tail(s) \in Seq(S) /\ Len(Tail(s)) = Len(s) - 1
  BY <1>1
<1>4. \A i \in 1..Len(s) - 1 : Tail(s)[i] = s[i + 1]
  BY <1>1
<1> QED
  BY <1>1, <1>2, <1>3, <1>4

LEMMA TailConcat ==
  ASSUME NEW S, NEW q \in Seq(S), q # <<>>, NEW p \in Seq(S)
  PROVE  q \o p # <<>> /\ Head(q \o p) = Head(q) /\ Tail(q \o p) = Tail(q) \o p
<1> DEFINE c == q \o p
           d == Tail(q) \o p
<1>1. /\ c \in Seq(S) /\ Len(c) = Len(q) + Len(p) /\ Len(p) \in Nat
      /\ \A i \in 1..Len(q) + Len(p) : c[i] = IF i <= Len(q) THEN q[i] ELSE p[i - Len(q)]
  BY ConcatProperties
<1>2. /\ Len(q) \in Nat \ {0} /\ Tail(q) \in Seq(S) /\ Len(Tail(q)) = Len(q) - 1
      /\ Head(q) = q[1] /\ \A i \in 1..Len(q) - 1 : Tail(q)[i] = q[i + 1]
  BY Taken
<1>3. /\ d \in Seq(S) /\ Len(d) = Len(Tail(q)) + Len(p)
      /\ \A i \in 1..Len(Tail(q)) + Len(p) :
           d[i] = IF i <= Len(Tail(q)) THEN Tail(q)[i] ELSE p[i - Len(Tail(q))]
  BY <1>2, ConcatProperties
<1> HIDE DEF c, d
<1>4. c # <<>>
  BY <1>1, <1>2
<1>5. /\ Head(c) = c[1] /\ Tail(c) \in Seq(S) /\ Len(Tail(c)) = Len(c) - 1
      /\ \A i \in 1..Len(c) - 1 : Tail(c)[i] = c[i + 1]
  BY <1>1, <1>4, Taken
<1>6. Head(c) = Head(q)
  BY <1>1, <1>2, <1>5
<1>7. Len(Tail(c)) = Len(d)
  BY <1>1, <1>2, <1>3, <1>5
<1>8. ASSUME NEW i \in 1..Len(Tail(c)) PROVE Tail(c)[i] = d[i]
  <2>1. i \in 1..Len(c) - 1 /\ i + 1 \in 1..Len(q) + Len(p) /\ i \in 1..Len(Tail(q)) + Len(p)
    BY <1>1, <1>2, <1>5
  <2>2. CASE i <= Len(q) - 1
    BY <1>1, <1>2, <1>3, <1>5, <2>1, <2>2
  <2>3. CASE ~(i <= Len(q) - 1)
    <3>1. (i + 1) - Len(q) = i - (Len(q) - 1)
      BY <1>2, <2>1
    <3> QED
      BY <1>1, <1>2, <1>3, <1>5, <2>1, <2>3, <3>1
  <2> QED
    BY <2>2, <2>3
<1>9. Tail(c) = d
  BY <1>3, <1>5, <1>7, <1>8, SeqEqual
<1> QED
  BY <1>4, <1>6, <1>9 DEF c, d

LEMMA AppendAfter ==
  ASSUME NEW S, NEW q \in Seq(S), NEW p \in Seq(S), NEW x \in S, NEW a, a = Append(p, x)
  PROVE  q \o a = Append(q \o p, x)
<1> DEFINE t == <<x>>
<1>1. t \in Seq(S) /\ q \o p \in Seq(S)
  OBVIOUS
<1>2. Append(q \o p, x) = (q \o p) \o t
  BY <1>1, AppendIsConcat
<1>3. a = p \o t
  BY AppendIsConcat
<1> HIDE DEF t
<1>4. (q \o p) \o t = q \o (p \o t)
  BY <1>1, ConcatAssociative
<1> QED
  BY <1>2, <1>3, <1>4

LEMMA MoveHead ==
  ASSUME NEW S, NEW q \in Seq(S), NEW p \in Seq(S), p # <<>>
  PROVE  Append(q, Head(p)) \o Tail(p) = q \o p
BY AppendIsConcat, ConcatAssociative, Taken

\* Without: the last is taken out, the first, and the first of a second part.
LEMMA WithoutLast ==
  ASSUME NEW S, NEW s \in Seq(S), NEW x \in S
  PROVE  Stream!Without(Append(s, x), Len(s) + 1) = s
<1> DEFINE t == Append(s, x)
<1>1. <<x>> \in Seq(S) /\ t = s \o <<x>> /\ Len(t) = Len(s) + 1 /\ Len(s) \in Nat
  BY AppendIsConcat, Appended
<1>2. SubSeq(t, 1, (Len(s) + 1) - 1) = s
  BY <1>1, CutConcat
<1>3. SubSeq(t, (Len(s) + 1) + 1, Len(t)) = <<>>
  BY <1>1, SubSeqEmpty
<1>4. s \o <<>> = s
  BY ConcatEmptySeq
<1> QED
  BY <1>2, <1>3, <1>4 DEF Stream!Without

LEMMA WithoutFirst ==
  ASSUME NEW S, NEW s \in Seq(S), s # <<>>
  PROVE  Stream!Without(s, 1) = Tail(s)
<1>1. SubSeq(s, 1, 1 - 1) = <<>> /\ SubSeq(s, 1 + 1, Len(s)) = Tail(s)
  BY CutAll, TailIsSubSeq
<1>2. <<>> \o Tail(s) = Tail(s)
  BY Taken, ConcatEmptySeq
<1> QED
  BY <1>1, <1>2 DEF Stream!Without

LEMMA WithoutNext ==
  ASSUME NEW S, NEW q \in Seq(S), NEW p \in Seq(S), p # <<>>
  PROVE  Stream!Without(q \o p, Len(q) + 1) = q \o Tail(p)
<1> DEFINE c == q \o p
<1>1. Len(q) \in Nat /\ Len(p) \in Nat /\ Len(p) # 0 /\ Len(c) = Len(q) + Len(p)
  BY ConcatProperties
<1>2. SubSeq(c, 1, (Len(q) + 1) - 1) = q
  BY <1>1, CutConcat
<1>3. Tail(p) = SubSeq(p, 2, Len(p))
  BY TailIsSubSeq
<1>4. SubSeq(c, (Len(q) + 1) + 1, Len(c)) = Tail(p)
  <2>1. CASE Len(p) = 1
    <3>1. SubSeq(c, (Len(q) + 1) + 1, Len(c)) = <<>> /\ SubSeq(p, 2, Len(p)) = <<>>
      BY <1>1, <2>1, SubSeqEmpty
    <3> QED
      BY <1>3, <3>1
  <2>2. CASE Len(p) # 1
    <3> DEFINE m == (Len(q) + 1) + 1
    <3>1. m \in Len(q) + 1..Len(q) + Len(p) /\ Len(c) \in Len(q) + 1..Len(q) + Len(p)
          /\ m - Len(q) = 2 /\ Len(c) - Len(q) = Len(p)
      BY <1>1, <2>2
    <3> HIDE DEF m
    <3>2. SubSeq(c, m, Len(c)) = SubSeq(p, m - Len(q), Len(c) - Len(q))
      BY <3>1, SubSeqOfConcat2
    <3> QED
      BY <1>3, <3>1, <3>2 DEF m
  <2> QED
    BY <2>1, <2>2
<1> QED
  BY <1>2, <1>4 DEF Stream!Without

-----------------------------------------------------------------------------
(* The steps of ReportStream. *)

StreamStep == [Stream!Next]_(Stream!streamVars)

Channels == 1..Children

LEMMA StepQuiet ==
  ASSUME sent' = sent, Waiting' = Waiting, last' = last \/ last'.res # "data",
         \A c \in Channels : Waiting[c] \in Seq(Nat)
  PROVE  StreamStep
<1>1. CASE InUse /\ InUse'
  <2>1. CASE last' = last
    BY <1>1, <2>1 DEF StreamStep, Stream!streamVars, InUse
  <2>2. CASE last'.res # "data"
    <3>1. Stream!Answer
      BY <1>1, <2>2 DEF Stream!Answer, InUse
    <3> QED
      BY <3>1 DEF StreamStep, Stream!Next
  <2> QED
    BY <2>1, <2>2
<1>2. CASE ~InUse \/ ~InUse'
  <2>1. ASSUME NEW c \in Channels
        PROVE  \E k \in 0..Len(Waiting[c]) : Waiting'[c] = SubSeq(Waiting[c], 1, k)
    BY CutAll
  <2>2. Stream!OpenOrClose
    BY <1>2, <2>1 DEF Stream!OpenOrClose, Channels
  <2> QED
    BY <2>2 DEF StreamStep, Stream!Next
<1> QED
  BY <1>1, <1>2

LEMMA StepCut ==
  ASSUME sent' = sent, last' = last \/ last'.res # "data", ~InUse \/ ~InUse',
         \A c \in Channels : \E k \in 0..Len(Waiting[c]) : Waiting'[c] = SubSeq(Waiting[c], 1, k)
  PROVE  StreamStep
<1>1. Stream!OpenOrClose
  BY DEF Stream!OpenOrClose, Channels
<1> QED
  BY <1>1 DEF StreamStep, Stream!Next

LEMMA StepArrive ==
  ASSUME NEW c \in Channels, sent' = sent + 1, InUse' = InUse, last' = last,
         \/ Waiting' = [Waiting EXCEPT ![c] = Append(Waiting[c], sent + 1)]
         \/ /\ ~InUse \/ Len(Waiting[c]) >= Capacity
            /\ \E i \in 1..Len(Append(Waiting[c], sent + 1)) :
                 Waiting' = [Waiting EXCEPT
                               ![c] = Stream!Without(Append(Waiting[c], sent + 1), i)]
  PROVE  StreamStep
<1>1. Stream!Arrive(c)
  BY DEF Stream!Arrive
<1> QED
  BY <1>1 DEF StreamStep, Stream!Next, Channels

\* The new report is the one that is lost.
LEMMA StepRefuse ==
  ASSUME NEW c \in Channels, sent \in Nat, sent' = sent + 1, InUse' = InUse, last' = last,
         Waiting[c] \in Seq(Nat), Waiting' = Waiting, ~InUse \/ Len(Waiting[c]) >= Capacity
  PROVE  StreamStep
<1>1. /\ Len(Waiting[c]) + 1 \in 1..Len(Append(Waiting[c], sent + 1))
      /\ Waiting[c] = Stream!Without(Append(Waiting[c], sent + 1), Len(Waiting[c]) + 1)
  BY Appended, WithoutLast
<1>2. Waiting' = [Waiting EXCEPT ![c] = Waiting[c]]
  BY DEF Waiting
<1> QED
  BY <1>1, <1>2, StepArrive

LEMMA StepDrop ==
  ASSUME NEW c \in Channels, sent' = sent, InUse' = InUse, last' = last,
         Len(Waiting[c]) > Capacity, NEW i \in 1..Len(Waiting[c]),
         Waiting' = [Waiting EXCEPT ![c] = Stream!Without(Waiting[c], i)]
  PROVE  StreamStep
<1>1. Stream!Drop(c)
  BY DEF Stream!Drop
<1> QED
  BY <1>1 DEF StreamStep, Stream!Next, Channels

LEMMA StepGive ==
  ASSUME NEW c \in Channels, sent' = sent, InUse, InUse', Waiting[c] # <<>>,
         last' = [res |-> "data", report |-> Head(Waiting[c])],
         Waiting' = [Waiting EXCEPT ![c] = Tail(Waiting[c])]
  PROVE  StreamStep
<1>1. Stream!Give(c)
  BY DEF Stream!Give, InUse
<1> QED
  BY <1>1 DEF StreamStep, Stream!Next, Channels

-----------------------------------------------------------------------------
(* The backends with one channel. *)

Front ==
  CASE backend = "libusb" -> queue \o One(os.flight # 0, os.flight)
    [] backend = "mac" -> queue \o os.port
    [] backend = "windows" -> One(os.io = "done", os.got) \o os.ring
    [] backend = "linux" -> os.ring

LEMMA FrontMoves ==
  ASSUME backend \in {"libusb", "mac", "windows", "linux"}, backend' = backend
  PROVE  /\ 1 \in Channels /\ Waiting[1] = Front /\ Waiting'[1] = Front'
         /\ \A c \in Channels : c # 1 => Waiting[c] = <<>> /\ Waiting'[c] = <<>>
         /\ Waiting' = [Waiting EXCEPT ![1] = Front']
<1>1. 1 \in Channels /\ \A c \in Channels : c > 1 <=> c # 1
  BY BackendsAssumption, CapacityAssumption DEF Channels
<1>2. Waiting = [c \in Channels |-> IF c > 1 THEN <<>> ELSE Front]
  BY DEF Waiting, Front, Channels
<1>3. Waiting' = [c \in Channels |-> IF c > 1 THEN <<>> ELSE Front']
  BY DEF Waiting, Front, Channels
<1>4. \A c \in Channels : /\ Waiting[c] = IF c = 1 THEN Front ELSE <<>>
                          /\ Waiting'[c] = IF c = 1 THEN Front' ELSE <<>>
  BY <1>1, <1>2, <1>3
<1>5. Waiting' = [Waiting EXCEPT ![1] = Front']
  BY <1>1, <1>2, <1>3
<1> QED
  BY <1>1, <1>4, <1>5

LEMMA FrontQuiet ==
  ASSUME backend \in {"libusb", "mac", "windows", "linux"}, backend' = backend,
         Front \in Seq(Nat), Front' = Front, sent' = sent,
         last' = last \/ last'.res # "data"
  PROVE  StreamStep
<1>1. \A c \in Channels : Waiting[c] \in Seq(Nat)
  <2>1. <<>> \in Seq(Nat)
    OBVIOUS
  <2> QED
    BY <2>1, FrontMoves
<1>2. Waiting' = Waiting
  BY ZenonT(40), FrontMoves DEF Waiting
<1> QED
  BY <1>1, <1>2, StepQuiet

LEMMA FrontCut ==
  ASSUME backend \in {"libusb", "mac", "windows", "linux"}, backend' = backend,
         sent' = sent, last' = last \/ last'.res # "data", ~InUse \/ ~InUse',
         NEW k \in 0..Len(Front), Front' = SubSeq(Front, 1, k)
  PROVE  StreamStep
<1>1. ASSUME NEW c \in Channels
      PROVE  \E j \in 0..Len(Waiting[c]) : Waiting'[c] = SubSeq(Waiting[c], 1, j)
  <2>1. CASE c = 1
    BY <2>1, FrontMoves
  <2>2. CASE c # 1
    <3>1. Waiting[c] = <<>> /\ Waiting'[c] = <<>>
      BY <2>2, FrontMoves
    <3>2. 0 \in 0..Len(<<>>) /\ SubSeq(<<>>, 1, 0) = <<>>
      BY SubSeqEmpty
    <3> QED
      BY <3>1, <3>2
  <2> QED
    BY <2>1, <2>2
<1> QED
  BY <1>1, StepCut

LEMMA FrontArrive ==
  ASSUME backend \in {"libusb", "mac", "windows", "linux"}, backend' = backend,
         sent' = sent + 1, InUse' = InUse, last' = last,
         \/ Front' = Append(Front, sent + 1)
         \/ /\ ~InUse \/ Len(Front) >= Capacity
            /\ \E i \in 1..Len(Append(Front, sent + 1)) :
                 Front' = Stream!Without(Append(Front, sent + 1), i)
  PROVE  StreamStep
<1>1. \/ Waiting' = [Waiting EXCEPT ![1] = Append(Waiting[1], sent + 1)]
      \/ /\ ~InUse \/ Len(Waiting[1]) >= Capacity
         /\ \E i \in 1..Len(Append(Waiting[1], sent + 1)) :
              Waiting' = [Waiting EXCEPT
                            ![1] = Stream!Without(Append(Waiting[1], sent + 1), i)]
  BY FrontMoves
<1> QED
  BY <1>1, FrontMoves, StepArrive

LEMMA FrontRefuse ==
  ASSUME backend \in {"libusb", "mac", "windows", "linux"}, backend' = backend,
         sent \in Nat, sent' = sent + 1, InUse' = InUse, last' = last, Front \in Seq(Nat),
         Front' = Front, ~InUse \/ Len(Front) >= Capacity
  PROVE  StreamStep
<1>1. Waiting' = Waiting
  BY FrontMoves DEF Waiting
<1> QED
  BY <1>1, FrontMoves, StepRefuse

LEMMA FrontDrop ==
  ASSUME backend \in {"libusb", "mac", "windows", "linux"}, backend' = backend,
         sent' = sent, InUse' = InUse, last' = last, Front \in Seq(Nat),
         Len(Front) > Capacity, Front' = Tail(Front)
  PROVE  StreamStep
<1>1. Front # <<>>
  BY CapacityAssumption
<1>2. 1 \in 1..Len(Front) /\ Front' = Stream!Without(Front, 1)
  BY <1>1, Taken, WithoutFirst
<1>3. Waiting' = [Waiting EXCEPT ![1] = Stream!Without(Waiting[1], 1)]
  BY <1>2, FrontMoves
<1> QED
  BY <1>2, <1>3, FrontMoves, StepDrop

LEMMA FrontGive ==
  ASSUME backend \in {"libusb", "mac", "windows", "linux"}, backend' = backend,
         sent' = sent, InUse, InUse', Front # <<>>, Front' = Tail(Front),
         last' = [res |-> "data", report |-> Head(Front)]
  PROVE  StreamStep
<1>1. Waiting' = [Waiting EXCEPT ![1] = Tail(Waiting[1])]
  BY FrontMoves
<1> QED
  BY <1>1, FrontMoves, StepGive

LEMMA ReportsAreNumbers == Seq(Reports) \subseteq Seq(Nat)
<1>1. Reports \subseteq Nat
  BY HidApiAssumption DEF Reports
<1> QED
  BY <1>1, SeqMonotonic

-----------------------------------------------------------------------------
(* Linux. *)

LEMMA LinuxStream ==
  ASSUME backend = "linux", backend' = backend, HidOK, LinuxInv, Linux!Next
  PROVE  StreamStep
<1> USE DEF At, Closed, Linux!At, Linux!Closed, Linux!Goto, Linux!Return, Linux!Idle,
            Linux!Error, Linux!Nothing, Linux!NoResult, Linux!deviceVars, Linux!unused
<1>1. /\ Front = os.ring /\ Front' = os'.ring
      /\ os.ring \in Seq(Reports) /\ Len(os.ring) <= RingSize
      /\ backend \in {"libusb", "mac", "windows", "linux"}
  BY DEF LinuxInv, Linux!TypeOK, Linux!Reports, Reports, Front
<1>2. Front \in Seq(Nat)
  BY <1>1, ReportsAreNumbers
<1>3. ASSUME UNCHANGED <<sent, os>>, last' = last \/ last'.res # "data" PROVE StreamStep
  BY <1>1, <1>2, <1>3, FrontQuiet
<1>4. Linux!Application \/ Linux!Opening \/ Linux!Reading \/ Linux!PollInterrupted
      \/ Linux!ReadInterrupted \/ Linux!PollTimesOut \/ Linux!ReportArrives \/ Linux!Unplug
  BY DEF Linux!Next
<1>5. CASE Linux!hid_open_path
  BY <1>3, <1>5 DEF Linux!hid_open_path
<1>6. CASE Linux!OpenNode
  <2>1. CASE UNCHANGED os
    BY <1>3, <1>6, <2>1 DEF Linux!OpenNode
  <2>2. CASE os' = Linux!IdleLinux
    <3>1. Front' = SubSeq(Front, 1, 0) /\ 0 \in 0..Len(Front)
      BY <1>1, <1>2, <2>2, CutAll DEF Linux!IdleLinux
    <3>2. ~InUse /\ sent' = sent /\ last' = last
      BY <1>6 DEF Linux!OpenNode, InUse
    <3> QED
      BY <1>1, <3>1, <3>2, FrontCut
  <2> QED
    BY <1>6, <2>1, <2>2 DEF Linux!OpenNode
<1>7. CASE Linux!CheckNode
  BY <1>3, <1>7 DEF Linux!CheckNode
<1>8. CASE Linux!hid_set_nonblocking \/ Linux!hid_read \/ Linux!hid_read_timeout
  BY <1>3, <1>8 DEF Linux!hid_set_nonblocking, Linux!hid_read, Linux!hid_read_timeout
<1>9. CASE Linux!PollReturns \/ Linux!PollInterrupted \/ Linux!ReadInterrupted
           \/ Linux!PollTimesOut
  BY <1>3, <1>9 DEF Linux!PollReturns, Linux!PollInterrupted, Linux!ReadInterrupted,
                    Linux!PollTimesOut
<1>10. CASE Linux!ReadReturns
  <2>1. CASE Linux!Return(Linux!Error) /\ UNCHANGED os
    BY <1>3, <1>10, <2>1 DEF Linux!ReadReturns
  <2>2. CASE os.ring # <<>> /\ os' = [os EXCEPT !.ring = Tail(@)]
             /\ Linux!Return(Linux!Data(Head(os.ring)))
    <3>1. Front # <<>> /\ Front' = Tail(Front)
      BY <1>1, <2>2 DEF LinuxInv, Linux!TypeOK
    <3>2. InUse /\ InUse' /\ sent' = sent
          /\ last' = [res |-> "data", report |-> Head(Front)]
      BY <1>1, <1>10, <2>2 DEF Linux!ReadReturns, InUse, Linux!Data
    <3> QED
      BY <1>1, <3>1, <3>2, FrontGive
  <2> QED
    BY <1>10, <2>1, <2>2 DEF Linux!ReadReturns
<1>11. CASE Linux!SyncRequest \/ Linux!SyncRequestEnds
  BY <1>3, <1>11 DEF Linux!SyncRequest, Linux!SyncRequestEnds
<1>12. CASE Linux!hid_close
  <2>1. Front' = SubSeq(Front, 1, 0) /\ 0 \in 0..Len(Front)
    BY <1>1, <1>2, <1>12, CutAll DEF Linux!IdleLinux, Linux!hid_close
  <2>2. ~InUse' /\ sent' = sent /\ last'.res # "data"
    BY <1>12 DEF Linux!hid_close, InUse, HidOK
  <2> QED
    BY <1>1, <2>1, <2>2, FrontCut
<1>13. CASE Linux!ReportArrives
  <2>1. sent \in Nat /\ sent' = sent + 1 /\ InUse' = InUse /\ last' = last
    BY <1>13 DEF Linux!ReportArrives, InUse, HidOK
  <2>2. CASE "handle" \in held /\ Len(os.ring) < RingSize
    <3>1. Front' = Append(Front, sent + 1)
      BY <1>1, <1>13, <2>2 DEF Linux!ReportArrives, LinuxInv, Linux!TypeOK
    <3> QED
      BY <1>1, <2>1, <3>1, FrontArrive
  <2>3. CASE ~("handle" \in held /\ Len(os.ring) < RingSize)
    <3>1. Front' = Front
      BY <1>1, <1>13, <2>3 DEF Linux!ReportArrives
    <3>2. "handle" \notin held => ~InUse
      BY DEF LinuxInv, LinuxHeld, InUse
    <3>3. Len(os.ring) \in Nat /\ (~(Len(os.ring) < RingSize) => Len(Front) >= Capacity)
      BY <1>1, <1>2, BackendsAssumption, CapacityAssumption
    <3> QED
      BY <1>1, <1>2, <2>1, <2>3, <3>1, <3>2, <3>3, FrontRefuse
  <2> QED
    BY <2>2, <2>3
<1>14. CASE Linux!Unplug
  BY <1>3, <1>14 DEF Linux!Unplug
<1> QED
  BY <1>4, <1>5, <1>6, <1>7, <1>8, <1>9, <1>10, <1>11, <1>12, <1>13, <1>14
     DEF Linux!Application, Linux!Opening, Linux!Reading

-----------------------------------------------------------------------------
(* NetBSD. *)

LEMMA NetbsdStream ==
  ASSUME backend = "netbsd", backend' = backend, HidOK, NetbsdInv, NetbsdInv', Netbsd!Next
  PROVE  StreamStep
<1> USE DEF At, Closed, Netbsd!At, Netbsd!Closed, Netbsd!Goto, Netbsd!Return, Netbsd!Idle,
            Netbsd!Error, Netbsd!Nothing, Netbsd!NoResult, Netbsd!deviceVars, Netbsd!unused
<1>1. /\ os.ring \in [Channels -> Seq(Reports)] /\ os'.ring \in [Channels -> Seq(Reports)]
      /\ \A c \in Channels : Len(os.ring[c]) <= RingSize
  BY DEF NetbsdInv, Netbsd!TypeOK, Netbsd!Reports, Reports, Channels
<1>2. Waiting = os.ring /\ Waiting' = os'.ring
  <2>1. /\ Waiting = [c \in Channels |-> os.ring[c]]
        /\ Waiting' = [c \in Channels |-> os'.ring[c]]
    BY DEF Waiting, Channels
  <2> QED
    BY <1>1, <2>1
<1>3. \A c \in Channels : Waiting[c] \in Seq(Nat)
  BY <1>1, <1>2, ReportsAreNumbers
<1>4. ASSUME UNCHANGED <<sent, os>>, last' = last \/ last'.res # "data" PROVE StreamStep
  BY <1>2, <1>3, <1>4, StepQuiet
\* A close on whatever path leaves nothing in the rings.
<1>5. ASSUME os' = Netbsd!CloseHandles, sent' = sent, last' = last \/ last'.res # "data",
             ~InUse \/ ~InUse'
      PROVE  StreamStep
  <2>1. ASSUME NEW c \in Channels
        PROVE  \E k \in 0..Len(Waiting[c]) : Waiting'[c] = SubSeq(Waiting[c], 1, k)
    <3>1. Waiting'[c] = <<>>
      BY <1>2, <1>5 DEF Netbsd!CloseHandles, Netbsd!IdleNetbsd, Channels
    <3>2. SubSeq(Waiting[c], 1, 0) = <<>> /\ 0 \in 0..Len(Waiting[c])
      BY <1>3, CutAll
    <3> QED
      BY <3>1, <3>2
  <2> QED
    BY <1>5, <2>1, StepCut
<1>6. CASE Netbsd!hid_open_path
  BY <1>4, <1>6 DEF Netbsd!hid_open_path
<1>7. CASE Netbsd!OpenChild
  <2>1. CASE os' = Netbsd!CloseHandles
    BY <1>5, <1>7, <2>1 DEF Netbsd!OpenChild, InUse
  <2>2. CASE os' = [os EXCEPT !.uhid = @ \cup {dev.poll_handles_length + 1}]
    <3>1. os'.ring = os.ring
      BY <2>2 DEF NetbsdInv, Netbsd!TypeOK
    <3>2. sent' = sent /\ last' = last /\ Waiting' = Waiting
      BY <1>2, <1>7, <3>1 DEF Netbsd!OpenChild
    <3> QED
      BY <1>3, <3>2, StepQuiet
  <2> QED
    BY <1>7, <2>1, <2>2 DEF Netbsd!OpenChild
<1>8. CASE Netbsd!Opened
  BY <1>4, <1>8 DEF Netbsd!Opened
<1>9. CASE Netbsd!hid_set_nonblocking \/ Netbsd!hid_read \/ Netbsd!hid_read_timeout
  BY <1>4, <1>9 DEF Netbsd!hid_set_nonblocking, Netbsd!hid_read, Netbsd!hid_read_timeout
<1>10. CASE Netbsd!ReadReturns
  <2>1. CASE Netbsd!Return(Netbsd!Error) /\ UNCHANGED os
    BY <1>4, <1>10, <2>1 DEF Netbsd!ReadReturns
  <2>2. CASE /\ Netbsd!Ready # {}
             /\ os' = [os EXCEPT !.ring[Netbsd!FirstReady] = Tail(@)]
             /\ Netbsd!Return(Netbsd!Data(Head(os.ring[Netbsd!FirstReady])))
    <3> DEFINE c == Netbsd!FirstReady
    <3>1. c \in Channels /\ os.ring[c] # <<>>
      BY <2>2, LeastReady DEF Netbsd!Ready, Channels
    <3>2. os'.ring = [os.ring EXCEPT ![c] = Tail(os.ring[c])]
      BY <2>2 DEF NetbsdInv, Netbsd!TypeOK
    <3>3. last' = [res |-> "data", report |-> Head(os.ring[c])]
      BY <2>2 DEF Netbsd!Data
    <3>4. InUse /\ InUse' /\ sent' = sent
      BY <1>10, <2>2 DEF Netbsd!ReadReturns, InUse
    <3> HIDE DEF c
    <3> QED
      BY <1>2, <3>1, <3>2, <3>3, <3>4, StepGive
  <2> QED
    BY <1>10, <2>1, <2>2 DEF Netbsd!ReadReturns
<1>11. CASE Netbsd!Interrupted \/ Netbsd!PollTimesOut
  BY <1>4, <1>11 DEF Netbsd!Interrupted, Netbsd!PollTimesOut
<1>12. CASE Netbsd!SyncRequest \/ Netbsd!SyncRequestEnds
  BY <1>4, <1>12 DEF Netbsd!SyncRequest, Netbsd!SyncRequestEnds
<1>13. CASE Netbsd!hid_close
  <2>1. ~InUse' /\ sent' = sent /\ last'.res # "data" /\ os' = Netbsd!CloseHandles
    BY <1>13 DEF Netbsd!hid_close, InUse, HidOK
  <2> QED
    BY <1>5, <2>1
<1>14. ASSUME NEW c \in Channels, Netbsd!ReportArrives(c) PROVE StreamStep
  <2>1. sent \in Nat /\ sent' = sent + 1 /\ InUse' = InUse /\ last' = last
    BY <1>14 DEF Netbsd!ReportArrives, InUse, HidOK
  <2>2. CASE c \in os.uhid /\ Len(os.ring[c]) < RingSize
    <3>1. os'.ring = [os.ring EXCEPT ![c] = Append(os.ring[c], sent + 1)]
      BY <1>14, <2>2 DEF Netbsd!ReportArrives, NetbsdInv, Netbsd!TypeOK
    <3> QED
      BY <1>2, <2>1, <3>1, StepArrive
  <2>3. CASE ~(c \in os.uhid /\ Len(os.ring[c]) < RingSize)
    <3>1. Waiting' = Waiting
      BY <1>2, <1>14, <2>3 DEF Netbsd!ReportArrives
    <3>2. c \notin os.uhid => ~InUse
      BY DEF NetbsdInv, NetbsdHeld, InUse, Channels
    <3>3. Len(os.ring[c]) \in Nat /\ (~(Len(os.ring[c]) < RingSize) => Len(os.ring[c]) >= Capacity)
      BY <1>1, BackendsAssumption, CapacityAssumption
    <3> QED
      BY <1>2, <1>3, <2>1, <2>3, <3>1, <3>2, <3>3, StepRefuse
  <2> QED
    BY <2>2, <2>3
<1>15. CASE Netbsd!Unplug
  BY <1>4, <1>15 DEF Netbsd!Unplug
<1> QED
  BY <1>6, <1>7, <1>8, <1>9, <1>10, <1>11, <1>12, <1>13, <1>14, <1>15
     DEF Netbsd!Next, Netbsd!Application, Netbsd!Opening, Netbsd!Reading, Channels

-----------------------------------------------------------------------------
(* Windows. *)

LEMMA OneOf ==
  ASSUME NEW S, NEW x \in S
  PROVE  /\ <<x>> \in Seq(S) /\ <<x>> # <<>> /\ Len(<<x>>) = 1
         /\ Head(<<x>>) = x /\ Tail(<<x>>) = <<>> /\ Append(<<>>, x) = <<x>>
OBVIOUS

LEMMA WinStream ==
  ASSUME backend = "windows", backend' = backend, HidOK, WinInv, Win!Next
  PROVE  StreamStep
<1> USE DEF At, Closed, Win!At, Win!Closed, Win!Goto, Win!Return, Win!Idle, Win!Written,
            Win!Error, Win!Nothing, Win!NoResult, Win!deviceVars, Win!unused
<1> DEFINE q == One(os.io = "done", os.got)
<1>1. /\ Front = q \o os.ring /\ Front' = One(os'.io = "done", os'.got) \o os'.ring
      /\ backend \in {"libusb", "mac", "windows", "linux"}
  BY DEF Front
<1>2. /\ os \in WinOs /\ os.got \in Nat /\ os.ring \in Seq(Reports)
      /\ Len(os.ring) <= RingSize
  BY DEF WinInv, WinOs, Win!TypeOK
<1>3. /\ os.ring \in Seq(Nat) /\ q \in Seq(Nat) /\ Front \in Seq(Nat)
      /\ os.io # "done" => Front = os.ring
      /\ os.io = "done" => q # <<>> /\ Head(q) = os.got /\ Tail(q) = <<>>
  <2>1. os.ring \in Seq(Nat) /\ <<>> \in Seq(Nat)
    BY <1>2, ReportsAreNumbers
  <2>2. CASE os.io = "done"
    <3>1. q = <<os.got>>
      BY <2>2 DEF One
    <3>2. q \in Seq(Nat) /\ q # <<>> /\ Head(q) = os.got /\ Tail(q) = <<>>
      BY <1>2, <3>1, OneOf
    <3> QED
      BY <1>1, <2>1, <2>2, <3>2, ConcatProperties
  <2>3. CASE os.io # "done"
    <3>1. q = <<>>
      BY <2>3 DEF One
    <3>2. q \o os.ring = os.ring
      BY <2>1, <3>1, ConcatEmptySeq
    <3> QED
      BY <1>1, <2>1, <2>3, <3>1, <3>2
  <2> QED
    BY <2>2, <2>3
\* Without a report in the read's buffer, what waits is what the driver keeps.
<1>0. ASSUME os'.io # "done", os'.ring \in Seq(Nat) PROVE Front' = os'.ring
  <2>1. One(os'.io = "done", os'.got) = <<>>
    BY <1>0 DEF One
  <2> QED
    BY <1>0, <1>1, <2>1, ConcatEmptySeq
<1>4. ASSUME sent' = sent, last' = last \/ last'.res # "data",
             os'.ring = os.ring, os'.got = os.got, os'.io = os.io
      PROVE  StreamStep
  BY <1>1, <1>3, <1>4, FrontQuiet
<1>5. ASSUME sent' = sent, last' = last \/ last'.res # "data",
             os' = Win!IdleWin, ~InUse \/ ~InUse'
      PROVE  StreamStep
  <2>1. os'.ring = <<>> /\ os'.io # "done" /\ <<>> \in Seq(Nat)
    BY <1>5 DEF Win!IdleWin
  <2>2. Front' = <<>>
    BY <1>0, <2>1
  <2>3. Front' = SubSeq(Front, 1, 0) /\ 0 \in 0..Len(Front)
    BY <1>3, <2>2, CutAll
  <2> QED
    BY <1>1, <1>5, <2>3, FrontCut
<1> HIDE DEF q
<1>6. CASE Win!hid_open_path
  BY <1>5, <1>6 DEF Win!hid_open_path, InUse
<1>7. CASE Win!OpenDevice \/ Win!GetPreparsedData \/ Win!NewHidDevice
  <2>1. sent' = sent /\ last' = last /\ os' = os
    BY <1>7 DEF Win!OpenDevice, Win!GetPreparsedData, Win!NewHidDevice
  <2> QED
    BY <1>4, <2>1
<1>8. CASE Win!hid_read_timeout
  <2> PICK w \in Win!Waits : Win!ReadFile(w) \/ Win!ReadAgain(w)
    BY <1>8 DEF Win!hid_read_timeout
  <2>1. sent' = sent /\ app.pc = "idle"
    BY <1>8 DEF Win!hid_read_timeout
  <2>2. CASE Win!ReadAgain(w)
    BY <1>4, <2>1, <2>2 DEF Win!ReadAgain
  <2>3. ASSUME ~dev.read_pending PROVE os.io = "none" /\ Front = os.ring
    BY <1>3, <2>3 DEF WinInv, Win!TypeOK
  <2>4. CASE Win!ReadFile(w)
    <3>0. os.io = "none" /\ Front = os.ring
      BY <2>3, <2>4 DEF Win!ReadFile
    <3>1. CASE os' = Win!CancelIo(os) /\ Win!Return(Win!Error)
      <4>1. os'.ring = os.ring /\ os'.io = "none" /\ os'.got = 0
        BY <1>2, <3>1 DEF Win!CancelIo, WinOs
      <4>2. Front' = Front
        BY <1>0, <1>3, <3>0, <4>1
      <4> QED
        BY <1>1, <1>3, <2>1, <3>1, <4>2, FrontQuiet
    <3>2. CASE /\ os.ring # <<>>
               /\ os' = [os EXCEPT !.ring = Tail(@)]
               /\ Win!Return(Win!Data(Head(os.ring)))
      <4>1. os'.ring = Tail(os.ring) /\ os'.io = "none" /\ os'.got \in Nat
        BY <1>2, <3>0, <3>2 DEF WinOs
      <4>2. Tail(os.ring) \in Seq(Nat)
        BY <1>3, <3>2, Taken
      <4>3. Front' = Tail(Front)
        BY <1>0, <3>0, <4>1, <4>2
      <4>4. InUse /\ InUse' /\ last' = [res |-> "data", report |-> Head(Front)]
        BY <2>1, <3>0, <3>2 DEF InUse, Win!Data
      <4> QED
        BY <1>1, <2>1, <3>0, <3>2, <4>3, <4>4, FrontGive
    <3>3. CASE /\ os' = IF os.ring = <<>>
                        THEN [os EXCEPT !.io = "pending", !.ev = FALSE]
                        ELSE [os EXCEPT !.io = "done", !.ev = TRUE,
                                        !.got = Head(os.ring), !.ring = Tail(@)]
               /\ last' = Win!NoResult
      <4>1. CASE os.ring = <<>>
        <5>1. os'.ring = os.ring /\ os'.io = "pending" /\ os'.got \in Nat
          BY <1>2, <3>3, <4>1 DEF WinOs
        <5>2. Front' = Front
          BY <1>0, <1>3, <3>0, <5>1
        <5> QED
          BY <1>1, <1>3, <2>1, <3>3, <5>2, FrontQuiet
      <4>2. CASE os.ring # <<>>
        <5>1. os'.ring = Tail(os.ring) /\ os'.io = "done" /\ os'.got = Head(os.ring)
          BY <1>2, <3>3, <4>2 DEF WinOs
        <5>2. Front' = <<Head(os.ring)>> \o Tail(os.ring)
          BY <1>1, <5>1 DEF One
        <5>3. <<>> \in Seq(Nat) /\ <<Head(os.ring)>> = Append(<<>>, Head(os.ring))
          BY <1>3, <4>2, Taken, OneOf
        <5>4. Front' = <<>> \o os.ring
          BY <1>3, <4>2, <5>2, <5>3, MoveHead
        <5>5. Front' = Front
          BY <1>3, <3>0, <5>4, ConcatEmptySeq
        <5> QED
          BY <1>1, <1>3, <2>1, <3>3, <5>5, FrontQuiet
      <4> QED
        BY <4>1, <4>2
    <3> QED
      BY <2>4, <3>1, <3>2, <3>3 DEF Win!ReadFile
  <2> QED
    BY <2>2, <2>4
<1>9. CASE Win!ReadTimesOut
  BY <1>4, <1>9 DEF Win!ReadTimesOut
<1>10. CASE Win!ReadEnds
  <2>1. os'.ring = os.ring /\ os'.io = "none" /\ os'.got = 0
    BY <1>2, <1>10 DEF Win!ReadEnds, WinOs
  <2>2. Front' = os.ring
    BY <1>0, <1>3, <2>1
  <2>3. CASE os.io = "done"
    <3>1. Front # <<>> /\ Head(Front) = os.got /\ Tail(Front) = <<>> \o os.ring
      BY ZenonT(40), <1>1, <1>3, <2>3, TailConcat
    <3>2. Front' = Tail(Front)
      BY <1>3, <2>2, <3>1, ConcatEmptySeq
    <3>3. InUse /\ InUse' /\ sent' = sent /\ last' = [res |-> "data", report |-> Head(Front)]
      BY <1>10, <2>3, <3>1 DEF Win!ReadEnds, InUse, Win!Data
    <3> QED
      BY <1>1, <3>1, <3>2, <3>3, FrontGive
  <2>4. CASE os.io # "done"
    <3>1. Front' = Front /\ sent' = sent /\ last'.res # "data"
      BY <1>3, <1>10, <2>2, <2>4 DEF Win!ReadEnds
    <3> QED
      BY <1>1, <1>3, <3>1, FrontQuiet
  <2> QED
    BY <2>3, <2>4
<1>11. CASE Win!hid_write \/ Win!WriteEnds \/ Win!WriteTimesOut
  <2>1. os'.ring = os.ring /\ os'.got = os.got /\ os'.io = os.io
    BY <1>2, <1>11 DEF Win!hid_write, Win!WriteEnds, Win!WriteTimesOut, WinOs
  <2>2. sent' = sent /\ last'.res # "data"
    BY <1>11 DEF Win!hid_write, Win!WriteEnds, Win!WriteTimesOut
  <2> QED
    BY <1>4, <2>1, <2>2
<1>12. CASE Win!SyncRequest \/ Win!SyncRequestEnds
  BY <1>4, <1>12 DEF Win!SyncRequest, Win!SyncRequestEnds
<1>13. CASE Win!hid_close
  BY <1>5, <1>13 DEF Win!hid_close, InUse, HidOK
<1>14. CASE Win!ReportArrives
  <2>1. /\ sent \in Nat /\ sent + 1 \in Nat /\ sent' = sent + 1
        /\ InUse' = InUse /\ last' = last
    BY <1>14 DEF Win!ReportArrives, InUse, HidOK
  <2>2. CASE "handle" \notin held
    <3>1. ~InUse
      BY <2>2 DEF WinInv, WinHeld, InUse
    <3>2. Front' = Front
      BY <1>1, <1>14, <2>2 DEF Win!ReportArrives, q
    <3> QED
      BY <1>1, <1>3, <2>1, <3>1, <3>2, FrontRefuse
  <2>3. CASE "handle" \in held /\ os.io = "pending"
    <3>1. os.ring = <<>> /\ Front = <<>>
      BY <1>3, <2>3 DEF WinInv
    <3>2. os'.ring = <<>> /\ os'.io = "done" /\ os'.got = sent + 1
      BY <1>2, <1>14, <2>3, <3>1 DEF Win!ReportArrives, WinOs
    <3>3. Front' = <<sent + 1>> \o <<>>
      BY <1>1, <3>2 DEF One
    <3>4. <<sent + 1>> \in Seq(Nat) /\ Append(<<>>, sent + 1) = <<sent + 1>>
      BY <2>1
    <3>5. Front' = Append(Front, sent + 1)
      BY <3>1, <3>3, <3>4, ConcatEmptySeq
    <3> QED
      BY <1>1, <2>1, <3>5, FrontArrive
  <2>4. CASE "handle" \in held /\ os.io # "pending"
    <3>1. /\ os'.io = os.io /\ os'.got = os.got
          /\ os'.ring = IF Len(os.ring) < RingSize THEN Append(os.ring, sent + 1)
                        ELSE Append(Tail(os.ring), sent + 1)
      BY <1>2, <1>14, <2>4 DEF Win!ReportArrives, WinOs
    <3>2. Front' = q \o os'.ring
      BY <1>1, <3>1 DEF q
    <3>3. Append(Front, sent + 1) = q \o Append(os.ring, sent + 1)
      <4> DEFINE t == <<sent + 1>>
                 r == os.ring
      <4>1. q \in Seq(Nat) /\ r \in Seq(Nat) /\ t \in Seq(Nat)
        BY <1>3, <2>1, OneOf
      <4>2. Append(Front, sent + 1) = Front \o t
        BY <1>3, <2>1, AppendIsConcat
      <4>3. Append(os.ring, sent + 1) = os.ring \o t
        BY <1>3, <2>1, AppendIsConcat
      <4> HIDE DEF t, r
      <4>4. (q \o r) \o t = q \o (r \o t)
        BY <4>1, ConcatAssociative
      <4> USE DEF r
      <4> QED
        BY <1>1, <4>2, <4>3, <4>4
    <3>4. CASE Len(os.ring) < RingSize
      BY <1>1, <2>1, <3>1, <3>2, <3>3, <3>4, FrontArrive
    \* The ring is full and gives up its oldest report.
    <3>5. CASE ~(Len(os.ring) < RingSize)
      <4>1. /\ Len(os.ring) \in Nat /\ Len(q) \in Nat
            /\ Len(Front) = Len(q) + Len(os.ring)
            /\ Len(Append(Front, sent + 1)) = Len(Front) + 1
        BY <1>1, <1>3, <2>1, ConcatProperties, Appended
      <4>2. os.ring # <<>> /\ Len(Front) >= Capacity
        BY <3>5, <4>1, BackendsAssumption, CapacityAssumption
      <4>3. /\ Append(os.ring, sent + 1) \in Seq(Nat) /\ Append(os.ring, sent + 1) # <<>>
            /\ Tail(Append(os.ring, sent + 1)) = Append(Tail(os.ring), sent + 1)
        <5>1. Append(os.ring, sent + 1) \in Seq(Nat) /\ Append(os.ring, sent + 1) # <<>>
          BY ZenonT(40), <1>3, <2>1, AppendProperties
        <5>2. Tail(Append(os.ring, sent + 1)) = IF os.ring = <<>> THEN <<>>
                                                ELSE Append(Tail(os.ring), sent + 1)
          BY <1>3, HeadTailAppend
        <5> QED
          BY <4>2, <5>1, <5>2
      <4>4. Stream!Without(Append(Front, sent + 1), Len(q) + 1)
              = q \o Append(Tail(os.ring), sent + 1)
        BY <1>3, <3>3, <4>3, WithoutNext
      <4>5. Front' = Stream!Without(Append(Front, sent + 1), Len(q) + 1)
        BY <3>1, <3>2, <3>5, <4>4
      <4>6. Len(q) + 1 \in 1..Len(Append(Front, sent + 1))
        BY <4>1
      <4> QED
        BY <1>1, <2>1, <4>2, <4>5, <4>6, FrontArrive
    <3> QED
      BY <3>4, <3>5
  <2> QED
    BY <2>2, <2>3, <2>4
<1>15. CASE Win!ReadFails
  <2>1. os'.ring = os.ring /\ os'.io = "failed" /\ os'.got = os.got /\ os.io = "pending"
        /\ sent' = sent /\ last' = last
    BY <1>2, <1>15 DEF Win!ReadFails, WinOs
  <2>2. Front' = Front
    BY <1>0, <1>3, <2>1
  <2> QED
    BY <1>1, <1>3, <2>1, <2>2, FrontQuiet
<1>16. CASE Win!WriteCompletes
  <2>1. os'.ring = os.ring /\ os'.got = os.got /\ os'.io = os.io /\ sent' = sent /\ last' = last
    BY <1>2, <1>16 DEF Win!WriteCompletes, WinOs
  <2> QED
    BY <1>4, <2>1
<1>17. CASE Win!Unplug
  BY <1>4, <1>17 DEF Win!Unplug
<1> QED
  BY <1>6, <1>7, <1>8, <1>9, <1>10, <1>11, <1>12, <1>13, <1>14, <1>15, <1>16, <1>17
     DEF Win!Next, Win!Application, Win!Opening, Win!Reading, Win!Usb

-----------------------------------------------------------------------------
(* macOS. *)

LEMMA MacStream ==
  ASSUME backend = "mac", backend' = backend, HidOK, MacInv, Mac!Next
  PROVE  StreamStep
<1> USE DEF At, Closed, Mac!At, Mac!Closed, Mac!Goto, Mac!Return, Mac!Idle,
            Mac!Error, Mac!Nothing, Mac!NoResult, Mac!deviceVars, Mac!readVars
<1>1. /\ Front = queue \o os.port /\ Front' = queue' \o os'.port
      /\ backend \in {"libusb", "mac", "windows", "linux"}
  BY DEF Front
<1>2. /\ os \in [port : Seq(Reports), registered : BOOLEAN, signalled : BOOLEAN,
                 stopped : BOOLEAN, modern : BOOLEAN]
      /\ queue \in Seq(Nat) /\ os.port \in Seq(Nat)
  BY ReportsAreNumbers DEF MacInv, Mac!TypeOK, Mac!Reports, Reports
<1>3. Front \in Seq(Nat) /\ Len(Front) = Len(queue) + Len(os.port)
  BY <1>1, <1>2, ConcatProperties
<1>4. ASSUME sent' = sent, last' = last \/ last'.res # "data",
             queue' = queue, os'.port = os.port
      PROVE  StreamStep
  BY <1>1, <1>3, <1>4, FrontQuiet
<1>5. ASSUME sent' = sent, last' = last \/ last'.res # "data", ~InUse \/ ~InUse',
             queue' = queue, os'.port = <<>>
      PROVE  StreamStep
  <2>1. Front' = queue
    BY <1>1, <1>2, <1>5, ConcatEmptySeq
  <2>2. Front' = SubSeq(Front, 1, Len(queue)) /\ Len(queue) \in 0..Len(Front)
    BY <1>1, <1>2, <2>1, CutConcat
  <2> QED
    BY <1>1, <1>5, <2>2, FrontCut
\* hid_read takes the first report of the list.
<1>6. ASSUME sent' = sent, InUse, InUse', queue # <<>>, queue' = Tail(queue),
             last' = Mac!Data(Head(queue)), os' = os
      PROVE  StreamStep
  <2>1. Front # <<>> /\ Head(Front) = Head(queue) /\ Tail(Front) = Tail(queue) \o os.port
    BY <1>1, <1>2, <1>6, TailConcat
  <2>2. Front' = Tail(Front) /\ last' = [res |-> "data", report |-> Head(Front)]
    BY <1>1, <1>6, <2>1 DEF Mac!Data
  <2> QED
    BY <1>1, <1>6, <2>1, <2>2, FrontGive
<1>7. CASE Mac!hid_open_path \/ Mac!FindEntry \/ Mac!CreateDevice
  BY <1>4, <1>7 DEF Mac!hid_open_path, Mac!FindEntry, Mac!CreateDevice
<1>8. CASE Mac!OpenDevice
  <2>1. CASE UNCHANGED os
    BY <1>4, <1>8, <2>1 DEF Mac!OpenDevice
  <2>2. CASE os' = [Mac!IdleMac(os.modern) EXCEPT !.registered = TRUE]
    <3>1. os'.port = <<>>
      BY <2>2 DEF Mac!IdleMac
    <3>2. ~InUse /\ sent' = sent /\ last' = last /\ queue' = queue
      BY <1>8 DEF Mac!OpenDevice, InUse
    <3> QED
      BY <1>5, <3>1, <3>2
  <2> QED
    BY <1>8, <2>1, <2>2 DEF Mac!OpenDevice
<1>9. CASE Mac!OpenBarrier \/ Mac!Opened
  BY <1>4, <1>9 DEF Mac!OpenBarrier, Mac!Opened
<1>10. CASE Mac!ThreadStart \/ Mac!ThreadRuns \/ Mac!ThreadLoop \/ Mac!RunLoopFails
            \/ Mac!ThreadShutdownBarrier \/ Mac!ThreadEnds
  BY <1>4, <1>10 DEF Mac!ThreadStart, Mac!ThreadRuns, Mac!ThreadLoop, Mac!RunLoopFails,
                     Mac!ThreadShutdownBarrier, Mac!ThreadEnds
<1>11. CASE Mac!RunLoopReturns \/ Mac!hid_device_removal_callback
            \/ Mac!perform_signal_callback \/ Mac!CloseSignals
  <2>1. os'.port = os.port
    BY <1>2, <1>11 DEF Mac!RunLoopReturns, Mac!hid_device_removal_callback,
                       Mac!perform_signal_callback, Mac!CloseSignals
  <2>2. sent' = sent /\ last' = last /\ queue' = queue
    BY <1>11 DEF Mac!RunLoopReturns, Mac!hid_device_removal_callback,
                 Mac!perform_signal_callback, Mac!CloseSignals
  <2> QED
    BY <1>4, <2>1, <2>2
<1>12. CASE Mac!WakeReader
  BY <1>4, <1>12 DEF Mac!WakeReader
<1>13. CASE Mac!hid_report_callback
  <2>1. /\ os.port # <<>> /\ os'.port = Tail(os.port) /\ sent' = sent /\ last' = last
        /\ queue' = Mac!Enqueue(queue, Head(os.port))
    BY <1>2, <1>13 DEF Mac!hid_report_callback
  <2>2. InUse' = InUse
    BY <1>13 DEF Mac!hid_report_callback, Mac!Woken, InUse, HidOK
  <2>3. CASE ~(queue # <<>> /\ Len(queue) - 1 > QueueLimit)
    <3>1. queue' = Append(queue, Head(os.port))
      BY <2>1, <2>3 DEF Mac!Enqueue
    <3>2. Front' = Front
      BY ZenonT(40), <1>1, <1>2, <2>1, <3>1, MoveHead
    <3> QED
      BY <1>1, <1>3, <2>1, <3>2, FrontQuiet
  \* The list is full: its first report makes room.
  <2>4. CASE queue # <<>> /\ Len(queue) - 1 > QueueLimit
    <3>1. queue' = Append(Tail(queue), Head(os.port)) /\ Tail(queue) \in Seq(Nat)
      BY <1>2, <2>1, <2>4, Taken DEF Mac!Enqueue
    <3>2. Front' = Tail(queue) \o os.port
      BY ZenonT(40), <1>1, <1>2, <2>1, <3>1, MoveHead
    <3>3. Front' = Tail(Front)
      BY ZenonT(40), <1>1, <1>2, <2>4, <3>2, TailConcat
    <3>4. Len(queue) \in Nat /\ Len(os.port) \in Nat \ {0}
      BY <1>2, <2>1, Taken
    <3>5. Len(Front) > Capacity
      BY <1>3, <2>4, <3>4, CapacityAssumption, HidApiAssumption
    <3> QED
      BY <1>1, <1>3, <2>1, <2>2, <3>3, <3>5, FrontDrop
  <2> QED
    BY <2>3, <2>4
<1>14. CASE Mac!hid_read_timeout \/ Mac!CondWait \/ Mac!SpuriousWakeup \/ Mac!ReadTimesOut
  BY <1>4, <1>14 DEF Mac!hid_read_timeout, Mac!CondWait, Mac!SpuriousWakeup, Mac!ReadTimesOut
<1>15. CASE Mac!ReadCheck \/ Mac!CondWoken
  <2>1. sent' = sent /\ os' = os /\ InUse /\ InUse'
    BY <1>15 DEF Mac!ReadCheck, Mac!CondWoken, InUse, HidOK
  <2>2. \/ queue # <<>> /\ queue' = Tail(queue) /\ last' = Mac!Data(Head(queue))
        \/ queue' = queue /\ (last' = last \/ last'.res # "data")
    BY <1>15 DEF Mac!ReadCheck, Mac!CondWoken
  <2> QED
    BY <1>4, <1>6, <2>1, <2>2
<1>16. CASE Mac!hid_close
  <2>1. ~InUse' /\ sent' = sent /\ last'.res # "data" /\ queue' = queue
    BY <1>16 DEF Mac!hid_close, InUse, HidOK
  <2>2. os'.port = <<>> \/ os'.port = os.port
    BY <1>2, <1>16 DEF Mac!hid_close
  <2> QED
    BY <1>4, <1>5, <2>1, <2>2
<1>17. CASE Mac!CloseFlags \/ Mac!CloseBarrier
  BY <1>4, <1>17 DEF Mac!CloseFlags, Mac!CloseBarrier
<1>18. CASE Mac!CloseFrees
  <2>1. ~InUse /\ sent' = sent /\ last' = last /\ queue' = <<>> /\ os'.port = <<>>
    BY <1>18 DEF Mac!CloseFrees, Mac!IdleMac, InUse
  <2>2. <<>> \in Seq(Nat)
    OBVIOUS
  <2>3. Front' = <<>>
    BY <1>1, <2>1, <2>2, ConcatEmptySeq
  <2>4. Front' = SubSeq(Front, 1, 0) /\ 0 \in 0..Len(Front)
    BY <1>3, <2>3, CutAll
  <2> QED
    BY <1>1, <2>1, <2>4, FrontCut
<1>19. CASE Mac!ReportArrives
  <2>1. /\ sent \in Nat /\ sent + 1 \in Nat /\ sent' = sent + 1
        /\ InUse' = InUse /\ last' = last /\ queue' = queue
    BY <1>19 DEF Mac!ReportArrives, InUse, HidOK
  <2>2. CASE os.registered
    <3>1. os'.port = Append(os.port, sent + 1)
      BY <1>2, <1>19, <2>2 DEF Mac!ReportArrives
    <3>2. Front' = Append(Front, sent + 1)
      BY SMTT(40), <1>1, <1>2, <2>1, <3>1, AppendAfter
    <3> QED
      BY <1>1, <2>1, <3>2, FrontArrive
  <2>3. CASE ~os.registered
    <3>1. ~InUse
      BY <2>3 DEF MacInv, MacHeld, MacBarriers, MacUnopened, MacInUse, InUse
    <3>2. Front' = Front
      BY <1>1, <1>19, <2>3 DEF Mac!ReportArrives
    <3> QED
      BY <1>1, <1>3, <2>1, <3>1, <3>2, FrontRefuse
  <2> QED
    BY <2>2, <2>3
<1>20. CASE Mac!Unplug
  BY <1>4, <1>20 DEF Mac!Unplug
<1> QED
  BY <1>7, <1>8, <1>9, <1>10, <1>11, <1>12, <1>13, <1>14, <1>15, <1>16, <1>17, <1>18, <1>19, <1>20
     DEF Mac!Next, Mac!Application, Mac!Opening, Mac!Reading, Mac!Closing, Mac!Thread,
         Mac!Callbacks

-----------------------------------------------------------------------------
(* libusb. *)

LEMMA UsbStream ==
  ASSUME backend = "libusb", backend' = backend, HidOK, UsbInv, Libusb!Next
  PROVE  StreamStep
<1> USE DEF At, Closed, Libusb!At, Libusb!Closed, Libusb!Goto, Libusb!Return, Libusb!Idle,
            Libusb!Error, Libusb!Nothing, Libusb!NoResult, Libusb!deviceVars,
            Libusb!readVars, Libusb!InitializeFailed, Libusb!WrapFailed
<1>1. /\ Front = queue \o One(os.flight # 0, os.flight)
      /\ Front' = queue' \o One(os'.flight # 0, os'.flight)
      /\ backend \in {"libusb", "mac", "windows", "linux"}
  BY DEF Front
<1>2. os \in UsbOs /\ os.flight \in Nat /\ queue \in Seq(Nat)
  BY ReportsAreNumbers, HidApiAssumption
     DEF UsbInv, UsbOs, Libusb!TypeOK, Libusb!Reports, Reports
<1>3. /\ Front \in Seq(Nat)
      /\ os.flight = 0 => Front = queue
      /\ os.flight # 0 => Front = queue \o <<os.flight>> /\ <<os.flight>> \in Seq(Nat)
  <2>1. CASE os.flight = 0
    BY <1>1, <1>2, <2>1, ConcatEmptySeq DEF One
  <2>2. CASE os.flight # 0
    <3>1. One(os.flight # 0, os.flight) = <<os.flight>> /\ <<os.flight>> \in Seq(Nat)
      BY <1>2, <2>2, OneOf DEF One
    <3> QED
      BY <1>1, <1>2, <2>2, <3>1, ConcatProperties
  <2> QED
    BY <2>1, <2>2
<1>4. ASSUME sent' = sent, last' = last \/ last'.res # "data",
             queue' = queue, os'.flight = os.flight
      PROVE  StreamStep
  BY <1>1, <1>3, <1>4, FrontQuiet
\* The buffer of the transfer is empty again.
<1>5. ASSUME os'.flight = 0, queue' \in Seq(Nat) PROVE Front' = queue'
  BY <1>1, <1>5, ConcatEmptySeq DEF One
<1>6. CASE Libusb!hid_open_path \/ Libusb!hid_libusb_wrap_sys_device
  <2>1. os'.flight = os.flight
    BY <1>2, <1>6 DEF Libusb!hid_open_path, Libusb!hid_libusb_wrap_sys_device, UsbOs
  <2>2. queue = <<>>
    BY <1>6 DEF Libusb!hid_open_path, Libusb!hid_libusb_wrap_sys_device, UsbInv,
                UsbBefore, UsbBarrier, UsbTransfer
  <2>3. sent' = sent /\ last' = last /\ queue' = queue
    BY <1>6, <2>2 DEF Libusb!hid_open_path, Libusb!hid_libusb_wrap_sys_device
  <2> QED
    BY <1>4, <2>1, <2>3
<1>7. CASE Libusb!TryAltsetting \/ Libusb!DetachKernelDriver \/ Libusb!ClaimInterface
           \/ Libusb!OpenBarrier \/ Libusb!Opened \/ Libusb!WrapSysDevice
           \/ Libusb!WrapGetsConfig \/ Libusb!WrapFindsInterface
  <2>1. os'.flight = os.flight
    BY <1>2, <1>7 DEF Libusb!TryAltsetting, Libusb!DetachKernelDriver, Libusb!ClaimInterface,
                      Libusb!Reattach, Libusb!OpenBarrier, Libusb!Opened,
                      Libusb!WrapSysDevice, Libusb!WrapGetsConfig,
                      Libusb!WrapFindsInterface, UsbOs
  <2>2. sent' = sent /\ last' = last /\ queue' = queue
    BY <1>7 DEF Libusb!TryAltsetting, Libusb!DetachKernelDriver, Libusb!ClaimInterface,
                Libusb!OpenBarrier, Libusb!Opened, Libusb!WrapSysDevice,
                Libusb!WrapGetsConfig, Libusb!WrapFindsInterface
  <2> QED
    BY <1>4, <2>1, <2>2
<1>8. CASE Libusb!ThreadStart \/ Libusb!ThreadCancel \/ Libusb!CloseCancels
           \/ \E t \in {"thread", "app"} :
                Libusb!CallbackTest(t) \/ Libusb!CallbackSubmits(t)
  <2>1. os'.flight = os.flight
    BY <1>2, <1>8 DEF Libusb!ThreadStart, Libusb!ThreadCancel, Libusb!CloseCancels,
                      Libusb!CallbackTest, Libusb!CallbackSubmits,
                      Libusb!libusb_cancel_transfer, UsbOs
  <2>2. sent' = sent /\ last' = last /\ queue' = queue
    BY <1>8 DEF Libusb!ThreadStart, Libusb!ThreadCancel, Libusb!CloseCancels,
                Libusb!CallbackTest, Libusb!CallbackSubmits
  <2> QED
    BY <1>4, <2>1, <2>2
<1>9. CASE Libusb!ThreadBarrier \/ Libusb!ThreadLoop \/ Libusb!ThreadDrained
           \/ Libusb!WakeReader \/ Libusb!EventsReturn \/ Libusb!EventsFail
  BY <1>4, <1>9 DEF Libusb!ThreadBarrier, Libusb!ThreadLoop, Libusb!ThreadDrained,
                    Libusb!WakeReader, Libusb!EventsReturn, Libusb!EventsFail
<1>10. ASSUME NEW t \in {"thread", "app"}, Libusb!CallbackStatus(t) PROVE StreamStep
  <2>1. os'.flight = 0 /\ sent' = sent /\ last' = last /\ InUse' = InUse
    BY <1>2, <1>10 DEF Libusb!CallbackStatus, Libusb!Woken, InUse, HidOK, UsbOs
  <2>2. CASE os.xfer # "completed"
    <3>1. os.flight = 0
      BY <2>2 DEF UsbInv
    <3>2. queue' = queue
      BY <1>10, <2>2 DEF Libusb!CallbackStatus
    <3> QED
      BY <1>4, <2>1, <3>1, <3>2
  <2>3. CASE os.xfer = "completed"
    <3>1. os.flight # 0 /\ queue' = Libusb!Enqueue(queue, os.flight)
      BY <1>10, <2>3 DEF Libusb!CallbackStatus, UsbInv
    <3>2. Front = Append(queue, os.flight)
      BY <1>2, <1>3, <3>1, AppendIsConcat
    <3>3. CASE ~(queue # <<>> /\ Len(queue) - 1 > QueueLimit)
      <4>1. queue' = Front
        BY <3>1, <3>2, <3>3 DEF Libusb!Enqueue
      <4>2. Front' = Front
        BY <1>3, <1>5, <2>1, <4>1
      <4> QED
        BY <1>1, <1>3, <2>1, <4>2, FrontQuiet
    \* The list is full: its first report makes room.
    <3>4. CASE queue # <<>> /\ Len(queue) - 1 > QueueLimit
      <4>1. queue' = Append(Tail(queue), os.flight) /\ Tail(queue) \in Seq(Nat)
        BY <1>2, <3>1, <3>4, Taken DEF Libusb!Enqueue
      <4>2. queue' = Tail(Front)
        BY <1>2, <3>2, <3>4, <4>1, HeadTailAppend
      <4>3. queue' \in Seq(Nat)
        BY <1>2, <4>1, Appended
      <4>4. Front' = Tail(Front)
        BY <1>5, <2>1, <4>2, <4>3
      <4>5. Len(queue) \in Nat /\ Len(Front) = Len(queue) + 1
        BY <1>2, <3>2, Appended
      <4>6. Len(Front) > Capacity
        BY <3>4, <4>5, CapacityAssumption, HidApiAssumption
      <4> QED
        BY <1>1, <1>3, <2>1, <4>4, <4>6, FrontDrop
    <3> QED
      BY <3>3, <3>4
  <2> QED
    BY <2>2, <2>3
<1>11. ASSUME NEW end, Libusb!TransferEnds(end) PROVE StreamStep
  <2>1. os'.flight = os.flight
    BY <1>2, <1>11 DEF Libusb!TransferEnds, UsbOs
  <2> QED
    BY <1>4, <1>11, <2>1 DEF Libusb!TransferEnds
<1>12. CASE Libusb!ReportArrives
  <2>1. os.flight = 0
    BY <1>12 DEF Libusb!ReportArrives, UsbInv
  <2>2. /\ sent \in Nat /\ sent + 1 \in Nat /\ sent + 1 # 0 /\ sent' = sent + 1
        /\ InUse' = InUse /\ last' = last /\ queue' = queue
    BY <1>12 DEF Libusb!ReportArrives, InUse, HidOK
  <2>3. os'.flight = sent + 1
    BY <1>2, <1>12 DEF Libusb!ReportArrives, UsbOs
  <2>4. Front' = queue \o <<sent + 1>>
    BY <1>1, <2>2, <2>3 DEF One
  <2>5. Front' = Append(Front, sent + 1)
    BY <1>2, <1>3, <2>1, <2>2, <2>4, AppendIsConcat
  <2> QED
    BY <1>1, <2>2, <2>5, FrontArrive
<1>13. CASE Libusb!hid_read_timeout \/ Libusb!CondWait \/ Libusb!SpuriousWakeup
            \/ Libusb!CondWoken \/ Libusb!ReadTimesOut
  BY <1>4, <1>13 DEF Libusb!hid_read_timeout, Libusb!CondWait, Libusb!SpuriousWakeup,
                     Libusb!CondWoken, Libusb!ReadTimesOut
<1>14. CASE Libusb!ReadCheck
  <2>1. sent' = sent /\ os' = os /\ InUse /\ InUse'
    BY <1>14 DEF Libusb!ReadCheck, InUse, HidOK
  <2>2. CASE queue # <<>> /\ queue' = Tail(queue) /\ last' = Libusb!Data(Head(queue))
    <3> DEFINE o == One(os.flight # 0, os.flight)
    <3>1. o \in Seq(Nat)
      BY <1>2, OneOf DEF One
    <3>2. Front = queue \o o /\ Front' = Tail(queue) \o o
      BY <1>1, <2>1, <2>2
    <3> HIDE DEF o
    <3>3. Front # <<>> /\ Head(Front) = Head(queue) /\ Tail(Front) = Tail(queue) \o o
      BY <1>2, <2>2, <3>1, <3>2, TailConcat
    <3>4. Front' = Tail(Front) /\ last' = [res |-> "data", report |-> Head(Front)]
      BY <2>2, <3>2, <3>3 DEF Libusb!Data
    <3> QED
      BY <1>1, <2>1, <3>3, <3>4, FrontGive
  <2>3. CASE queue' = queue /\ (last' = last \/ last'.res # "data")
    BY <1>4, <2>1, <2>3
  <2> QED
    BY <1>14, <2>2, <2>3 DEF Libusb!ReadCheck
<1>15. CASE Libusb!SyncTransfer \/ Libusb!SyncTransferEnds \/ Libusb!hid_close
  BY <1>4, <1>15 DEF Libusb!SyncTransfer, Libusb!SyncTransferEnds, Libusb!hid_close
<1>16. CASE Libusb!CloseFrees
  <2>1. os.flight = 0
    BY <1>16 DEF Libusb!CloseFrees, UsbInv, UsbTransfer
  <2>2. os'.flight = 0
    BY <1>2, <1>16, <2>1 DEF Libusb!CloseFrees, Libusb!Reattach, UsbOs
  <2>3. ~InUse /\ sent' = sent /\ last' = last /\ queue' = <<>> /\ <<>> \in Seq(Nat)
    BY <1>16 DEF Libusb!CloseFrees, InUse
  <2>4. Front' = <<>>
    BY <1>5, <2>2, <2>3
  <2>5. Front' = SubSeq(Front, 1, 0) /\ 0 \in 0..Len(Front)
    BY <1>3, <2>4, CutAll
  <2> QED
    BY <1>1, <2>3, <2>5, FrontCut
<1>17. CASE Libusb!Unplug
  BY <1>4, <1>17 DEF Libusb!Unplug
<1> QED
  BY <1>6, <1>7, <1>8, <1>9, <1>10, <1>11, <1>12, <1>13, <1>14, <1>15, <1>16, <1>17
     DEF Libusb!Next, Libusb!Application, Libusb!Opening, Libusb!Reading, Libusb!Closing,
         Libusb!Thread, Libusb!Usb

-----------------------------------------------------------------------------
(* All of them. *)

LEMMA StreamInitial == Init => Stream!Init
<1> SUFFICES ASSUME Init PROVE Stream!Init
  OBVIOUS
<1>1. /\ sent = 0 /\ app.pc = "out" /\ queue = <<>> /\ last = [res |-> "none", report |-> 0]
      /\ backend = "libusb" => os.flight = 0
      /\ backend = "mac" => os.port = <<>>
      /\ backend = "windows" => os.io # "done" /\ os.ring = <<>>
      /\ backend = "linux" => os.ring = <<>>
      /\ backend = "netbsd" => os.ring = [c \in Channels |-> <<>>]
  <2>1. backend \in {"libusb", "mac", "windows", "linux", "netbsd"}
    BY BackendsAssumption DEF Init
  <2>2. CASE backend = "libusb"
    BY <2>2 DEF Init, Libusb!Init, Libusb!IdleUsb, Libusb!NoResult
  <2>3. CASE backend = "mac"
    BY <2>3 DEF Init, Mac!Init, Mac!IdleMac, Mac!NoResult
  <2>4. CASE backend = "windows"
    BY <2>4 DEF Init, Win!Init, Win!IdleWin, Win!NoResult
  <2>5. CASE backend = "linux"
    BY <2>5 DEF Init, Linux!Init, Linux!IdleLinux, Linux!NoResult
  <2>6. CASE backend = "netbsd"
    BY <2>6 DEF Init, Netbsd!Init, Netbsd!IdleNetbsd, Netbsd!NoResult, Channels
  <2> QED
    BY <2>1, <2>2, <2>3, <2>4, <2>5, <2>6
<1>2. backend \in {"libusb", "mac", "windows", "linux", "netbsd"} /\ <<>> \in Seq(Nat)
  BY BackendsAssumption DEF Init
<1>3. <<>> \o <<>> = <<>>
  BY <1>2, ConcatEmptySeq
<1>4. CASE backend = "netbsd"
  <2>1. Waiting = [c \in Channels |-> os.ring[c]]
    BY <1>4 DEF Waiting, Channels
  <2>2. Waiting = [c \in Channels |-> <<>>]
    BY <1>1, <1>4, <2>1
  <2>3. InUse = FALSE
    BY <1>1 DEF InUse
  <2> QED
    BY <1>1, <2>2, <2>3 DEF Stream!Init, Stream!NoneWaits, Channels
<1>5. CASE backend # "netbsd"
  <2>1. Front = <<>>
    BY <1>1, <1>2, <1>3, <1>5 DEF Front, One
  <2>2. Waiting = [c \in Channels |-> IF c > 1 THEN <<>> ELSE Front]
    <3>1. backend \in {"libusb", "mac", "windows", "linux"}
      BY <1>2, <1>5
    <3> QED
      BY <3>1 DEF Waiting, Front, Channels
  <2>3. Waiting = [c \in Channels |-> <<>>]
    BY <2>1, <2>2
  <2>4. InUse = FALSE
    BY <1>1 DEF InUse
  <2> QED
    BY <1>1, <2>3, <2>4 DEF Stream!Init, Stream!NoneWaits, Channels
<1> QED
  BY <1>4, <1>5

LEMMA StreamSteps == BackendInv /\ BackendInv' /\ [Next]_vars => StreamStep
<1> SUFFICES ASSUME BackendInv, BackendInv', [Next]_vars PROVE StreamStep
  OBVIOUS
<1>1. backend' = backend /\ SessionStep
  BY EveryStep DEF BackendInv
<1>2. CASE UNCHANGED hidVars
  BY <1>1, <1>2 DEF hidVars, StreamStep, Stream!streamVars, Waiting, InUse
<1>3. CASE ~UNCHANGED hidVars
  BY <1>1, <1>3, UsbStream, MacStream, WinStream, LinuxStream, NetbsdStream
     DEF BackendInv, SessionStep
<1> QED
  BY <1>2, <1>3

\* Whichever backend the build picks, the application gets the input reports of
\* the device in the order they were sent, none twice and none invented, and none
\* is lost while a session is open and no more than Capacity wait: the read
\* callbacks, the rings of the drivers and hid_read_timeout, through opening,
\* closing, unplugging and every interleaving with the read thread.
THEOREM ReportsInOrderTheorem == Spec => ReportsInOrder
<1>1. Init => Stream!Init
  BY StreamInitial
<1>2. BackendInv /\ BackendInv' /\ [Next]_vars => [Stream!Next]_(Stream!streamVars)
  BY StreamSteps DEF StreamStep
<1> QED
  BY <1>1, <1>2, BackendTheorem, PTL DEF Spec, ReportsInOrder, Stream!Spec
=============================================================================
