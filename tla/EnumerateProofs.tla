-------------------------- MODULE EnumerateProofs ---------------------------
(***************************************************************************)
(* What hid_enumerate lists and hid_open opens while devices come and go:  *)
(* ListIsComplete and OpensWhatWasAsked, for any number of places on the   *)
(* bus, of devices, and of changes.  The argument follows one place at     *)
(* which nothing happens: from the snapshot to the end of the walk its     *)
(* device is still to be looked at or has its record.                      *)
(***************************************************************************)
EXTENDS HidBackendsProofs, FiniteSetTheorems, SequenceTheorems

Devices == [port : Ports, unit : Units \cup {Enum!NoUnit}]
SerialsRead == STRING \cup {Enum!Empty, Enum!Null}
Entries == [path : Ports \X Nat, ids : {"asked", "other", "zero"}, serial : SerialsRead,
            pair : Nat \X Nat]

EnumRecords ==
  [pc : {"off", "size", "list", "look", "describe", "complete", "over"},
   any : BOOLEAN, want : Enum!Serials, todo : Seq(Devices), next : Nat \ {0},
   size : Nat, pass : {0, 1}, list : Seq(Entries), pick : Entries \cup {Enum!None},
   stayed : SUBSET Ports, refused : SUBSET Ports, unnamed : SUBSET Ports]

EnumType ==
  /\ backend \in Backends
  /\ bus \in [at : [Ports -> Units \cup {Enum!NoUnit}], changes : Nat, root : {0, 1},
              items : Descriptors \cup {<<>>}]
  /\ enum \in EnumRecords
  /\ enum.pc # "over" => bus.items \in Descriptors

\* The calls in which something has been listed.
Walking == enum.pc \in {"look", "describe", "complete"}
Busy == enum.pc = "describe"

\* Places that are still to be looked at: all different, and what the snapshot
\* says of one at which nothing happened is true, as it is for the place looked at.
TodoTrue ==
  /\ \A i, j \in 1..Len(enum.todo) : enum.todo[i].port = enum.todo[j].port => i = j
  /\ \A i \in 1..Len(enum.todo) :
       LET d == enum.todo[i]
       IN  /\ backend # "netbsd" \/ (Busy /\ i = 1) =>
                /\ d.unit # Enum!NoUnit
                /\ d.port \in enum.stayed => d.unit = bus.at[d.port]
           /\ backend = "mac" \/ (Busy /\ i = 1) => Enum!Asked(d.unit.ids)
  /\ Busy => enum.todo # <<>>
  /\ enum.pc = "complete" => enum.todo = <<>>

\* What a record of a place at which nothing happened says of the device there,
\* if these are the places whose device could not be described, or not its serial
\* number.
True(r, refused, unnamed) ==
  LET p == r.path[1]
      u == bus.at[p]
  IN  p \in enum.stayed =>
        /\ u # Enum!NoUnit /\ Enum!Asked(u.ids)
        /\ r.ids = u.ids \/ (r.ids = "zero" /\ p \in refused)
        /\ r.serial = u.serial
             \/ (p \in unnamed /\ r.serial \in {Enum!Null, Enum!Empty})
        /\ backend = "libusb" => /\ r.path[2] \in DOMAIN u.interfaces
                                 /\ Enum!Taken(u.interfaces[r.path[2]])

ListTrue ==
  \A i \in 1..Len(enum.list) : True(enum.list[i], enum.refused, enum.unnamed)

\* libusb: no two records are of one interface, and what is still to be looked
\* at has none.
OncePerInterface ==
  backend = "libusb" =>
    /\ \A i, j \in 1..Len(enum.list) : enum.list[i].path = enum.list[j].path => i = j
    /\ \A i \in 1..Len(enum.list), k \in 1..Len(enum.todo) :
         enum.list[i].path[1] = enum.todo[k].port =>
           k = 1 /\ Busy /\ enum.list[i].path[2] < enum.next

\* A device that was asked for, stayed, and could be described is still to be looked
\* at or is listed.
InTodo(p) == \E i \in 1..Len(enum.todo) : enum.todo[i].port = p
IsListed(p) == \E i \in 1..Len(enum.list) : enum.list[i].path[1] = p
IsListedAs(p, k) == \E i \in 1..Len(enum.list) : enum.list[i].path = <<p, k>>
Described(p, k) == \/ ~InTodo(p)
                   \/ Busy /\ enum.todo[1].port = p /\ k < enum.next

\* On NetBSD nothing is found below address 0 of a root hub at address 1.
WrongRoot == backend = "netbsd" /\ bus.root = 1 /\ enum.pass = 0

Covered ==
  Walking /\ ~WrongRoot =>
    \A p \in enum.stayed \ enum.refused :
      bus.at[p] # Enum!NoUnit /\ Enum!Asked(bus.at[p].ids) =>
        IF backend # "libusb" THEN InTodo(p) \/ IsListed(p)
        ELSE \A k \in DOMAIN bus.at[p].interfaces :
               Described(p, k) /\ Enum!Taken(bus.at[p].interfaces[k]) => IsListedAs(p, k)

Beginning ==
  /\ ~Walking => enum.list = <<>> /\ enum.todo = <<>> /\ enum.pass = 0
  /\ Walking /\ WrongRoot => enum.pc = "look" /\ enum.list = <<>> /\ enum.todo = <<>>

\* What hid_open chose fits, and nothing did if it chose nothing.
PickTrue ==
  enum.pc = "complete" /\ ~enum.any =>
    IF enum.pick = Enum!None THEN \A i \in 1..Len(enum.list) : ~Enum!Fits(enum.list[i])
    ELSE \E i \in 1..Len(enum.list) :
           enum.pick = enum.list[i] /\ Enum!Fits(enum.list[i])

EnumInv == /\ EnumType /\ TodoTrue /\ ListTrue /\ OncePerInterface /\ Covered /\ Beginning
           /\ PickTrue

-----------------------------------------------------------------------------
(* Sequences of the elements of a set *)

LEMMA SeqOfSet ==
  ASSUME NEW S, IsFiniteSet(S), NEW s \in Enum!SetToSeqs(S)
  PROVE  /\ s \in Seq(S)
         /\ \A i, j \in 1..Len(s) : s[i] = s[j] => i = j
         /\ \A x \in S : \E i \in 1..Len(s) : s[i] = x
PROOF
<1>1. Cardinality(S) \in Nat
  BY FS_CardinalityType
<1> DEFINE D == 1..Cardinality(S)
<1>2. s \in [D -> S] /\ \A i, j \in D : i # j => s[i] # s[j]
  BY DEF Enum!SetToSeqs, Enum!Cardinality, Cardinality
<1>3. s \in Seq(S) /\ Len(s) = Cardinality(S)
  BY <1>1, <1>2
<1>4. s \in Injection(D, S)
  BY <1>2 DEF Injection, IsInjective
<1>5. Cardinality(D) = Cardinality(S)
  BY <1>1, FS_Interval
<1>6. s \in Surjection(D, S)
  <2> HIDE DEF D
  <2> QED
    BY <1>4, <1>5, FS_Injection
<1>7. \A x \in S : \E i \in D : s[i] = x
  BY <1>6 DEF Surjection
<1> QED
  BY <1>2, <1>3, <1>7

\* What is there is as finite as the bus.
LEMMA ThereFinite == IsFiniteSet(Enum!There)
PROOF
<1> DEFINE f == [p \in Enum!Present |-> [port |-> p, unit |-> bus.at[p]]]
<1>1. IsFiniteSet(Enum!Present)
  BY EnumerateAssumption, FS_Subset DEF Enum!Present
<1>2. f \in Surjection(Enum!Present, Enum!There)
  BY DEF Surjection, Enum!There
<1> QED
  BY <1>1, <1>2, FS_Surjection

\* The device at a place, or none.
LEMMA UnitType ==
  ASSUME EnumType, NEW u \in Units \cup {Enum!NoUnit}, u # Enum!NoUnit
  PROVE  /\ u \in Units /\ u.ids \in {"asked", "other"}
         /\ u.serial \in STRING /\ u.serial # Enum!Null
         /\ u.interfaces \in Seq(Seq(BOOLEAN))
BY EnumerateAssumption

-----------------------------------------------------------------------------
(* The invariant holds at first *)

LEMMA EnumInit == Init => EnumInv
PROOF
<1> SUFFICES ASSUME Init PROVE EnumInv
  OBVIOUS
<1>1. backend \in Backends /\ bus \in Enum!Buses /\ enum = Enum!Off
  BY DEF Init, Enum!Init
<1>2. bus \in [at : [Ports -> Units \cup {Enum!NoUnit}], changes : {0}, root : {0, 1},
               items : Descriptors]
  BY <1>1 DEF Enum!Buses
<1>3. EnumType
  BY <1>1, <1>2, EmptySeq DEF EnumType, EnumRecords, Enum!Off, Enum!Serials
<1>4. enum.todo = <<>> /\ enum.list = <<>> /\ enum.pc = "off" /\ enum.pass = 0
  BY <1>1 DEF Enum!Off
<1>5. Len(enum.todo) = 0 /\ Len(enum.list) = 0
  BY <1>4
<1>6. 1..0 = {}
  OBVIOUS
<1> QED
  BY <1>3, <1>4, <1>5, <1>6
     DEF EnumInv, TodoTrue, ListTrue, OncePerInterface, Covered, Beginning, PickTrue,
         Walking, Busy

-----------------------------------------------------------------------------
(* Looking at each device *)

\* What is said of a device does not change with what the call does next.
SameCall ==
  /\ UNCHANGED <<backend, bus>>
  /\ enum'.any = enum.any /\ enum'.want = enum.want /\ enum'.pass = enum.pass
  /\ enum'.stayed = enum.stayed /\ enum'.pick = enum.pick

LEMMA TrueKeeps ==
  ASSUME SameCall, NEW r, NEW refused, NEW unnamed, True(r, refused, unnamed),
         refused \subseteq enum'.refused, unnamed \subseteq enum'.unnamed
  PROVE  True(r, enum.refused, enum.unnamed)'
PROOF
<1> DEFINE p == r.path[1]
           u == bus.at[p]
<1>1. \A x : Enum!Asked(x)' <=> Enum!Asked(x)
  BY DEF SameCall, Enum!Asked
<1>2. p \in enum'.stayed =>
        /\ u # Enum!NoUnit /\ Enum!Asked(u.ids)'
        /\ r.ids = u.ids \/ (r.ids = "zero" /\ p \in enum'.refused)
        /\ r.serial = u.serial
             \/ (p \in enum'.unnamed /\ r.serial \in {Enum!Null, Enum!Empty})
        /\ backend' = "libusb" => /\ r.path[2] \in DOMAIN u.interfaces
                                  /\ Enum!Taken(u.interfaces[r.path[2]])
  BY <1>1 DEF SameCall, True
<1> QED
  BY <1>2, Zenon DEF True, SameCall, Enum!NoUnit, Enum!Null, Enum!Empty, Enum!Taken

\* The device looked at is done with, and has these records.
Recorded(new, refused, unnamed) ==
  enum' = [enum EXCEPT !.todo = Tail(@), !.pc = "look", !.list = @ \o new,
                       !.refused = refused, !.unnamed = unnamed]

LEMMA Done ==
  ASSUME EnumInv, enum.pc \in {"look", "describe"}, enum.todo # <<>>,
         NEW new \in Seq(Entries), NEW refused \in SUBSET Ports, NEW unnamed \in SUBSET Ports,
         enum.refused \subseteq refused, enum.unnamed \subseteq unnamed,
         Recorded(new, refused, unnamed), UNCHANGED <<backend, bus>>,
         NEW p \in Ports, p = enum.todo[1].port,
         \A i \in 1..Len(new) : new[i].path[1] = p /\ True(new[i], refused, unnamed),
         backend = "libusb" => new = <<>>,
         p \in enum.stayed \ refused /\ bus.at[p] # Enum!NoUnit /\ Enum!Asked(bus.at[p].ids) =>
           IF backend # "libusb" THEN new # <<>>
           ELSE \A k \in DOMAIN bus.at[p].interfaces :
                  Enum!Taken(bus.at[p].interfaces[k]) => IsListedAs(p, k)
  PROVE  EnumInv'
PROOF
<1> DEFINE t == enum.todo
           l == enum.list
<1>1. /\ enum'.todo = Tail(t) /\ enum'.list = l \o new /\ enum'.pc = "look"
      /\ enum'.any = enum.any /\ enum'.want = enum.want /\ enum'.pass = enum.pass
      /\ enum'.stayed = enum.stayed /\ enum'.next = enum.next /\ enum'.pick = enum.pick
      /\ backend' = backend /\ bus' = bus
      /\ enum'.refused = refused /\ enum'.unnamed = unnamed
  BY DEF Recorded, EnumInv, EnumType, EnumRecords
<1>2. t \in Seq(Devices) /\ l \in Seq(Entries) /\ Len(t) \in Nat \ {0}
  BY DEF EnumInv, EnumType, EnumRecords
<1>3. /\ Tail(t) \in Seq(Devices) /\ Len(Tail(t)) = Len(t) - 1
      /\ \A i \in 1..Len(Tail(t)) : i + 1 \in 1..Len(t) /\ Tail(t)[i] = t[i + 1]
      /\ \A i \in 2..Len(t) : i - 1 \in 1..Len(Tail(t)) /\ Tail(t)[i - 1] = t[i]
  BY <1>2
<1>4. /\ l \o new \in Seq(Entries)
      /\ \A i \in 1..Len(l) : i \in 1..Len(l \o new) /\ (l \o new)[i] = l[i]
      /\ \A i \in 1..Len(new) : /\ i + Len(l) \in 1..Len(l \o new)
                                /\ (l \o new)[i + Len(l)] = new[i]
      /\ \A i \in 1..Len(l \o new) :
           \/ i \in 1..Len(l) /\ (l \o new)[i] = l[i]
           \/ i - Len(l) \in 1..Len(new) /\ (l \o new)[i] = new[i - Len(l)]
  BY <1>2, SMTT(30)
<1>5. EnumType'
  BY <1>1, <1>3, <1>4 DEF Recorded, EnumInv, EnumType, EnumRecords
<1>6. TodoTrue'
  <2>1. \A i, j \in 1..Len(Tail(t)) : Tail(t)[i].port = Tail(t)[j].port => i = j
    <3>1. \A i, j \in 1..Len(t) : t[i].port = t[j].port => i = j
      BY DEF EnumInv, TodoTrue
    <3> QED
      BY <1>2, <1>3, <3>1
  <2>2. ASSUME NEW i \in 1..Len(Tail(t))
        PROVE  LET d == Tail(t)[i]
               IN  /\ backend # "netbsd" =>
                        /\ d.unit # Enum!NoUnit
                        /\ d.port \in enum.stayed => d.unit = bus.at[d.port]
                   /\ backend = "mac" => Enum!Asked(d.unit.ids)
    <3>1. i + 1 \in 1..Len(t) /\ Tail(t)[i] = t[i + 1]
      BY <1>3
    <3>2. LET d == t[i + 1]
          IN  /\ backend # "netbsd" =>
                   /\ d.unit # Enum!NoUnit
                   /\ d.port \in enum.stayed => d.unit = bus.at[d.port]
              /\ backend = "mac" => Enum!Asked(d.unit.ids)
      BY <3>1 DEF EnumInv, TodoTrue
    <3> QED
      BY <3>1, <3>2
  <2>3. ~Busy' /\ enum'.pc # "complete"
    BY <1>1 DEF Busy
  <2> HIDE DEF t, l
  <2> QED
    <3>1. ASSUME NEW i \in 1..Len(enum'.todo)
          PROVE  LET d == enum'.todo[i]
                 IN  /\ backend' # "netbsd" \/ (Busy' /\ i = 1) =>
                          /\ d.unit # Enum!NoUnit
                          /\ d.port \in enum'.stayed => d.unit = bus'.at[d.port]
                     /\ backend' = "mac" \/ (Busy' /\ i = 1) => Enum!Asked(d.unit.ids)
      BY <1>1, <2>2, <2>3
    <3>2. \A x : Enum!Asked(x)' <=> Enum!Asked(x)
      BY <1>1 DEF Enum!Asked
    <3>3. enum'.todo = Tail(t)
      BY <1>1
    <3>4. \A i, j \in 1..Len(enum'.todo) : enum'.todo[i].port = enum'.todo[j].port => i = j
      BY <2>1, <3>3
    <3> QED
      BY <2>3, <3>1, <3>2, <3>4, Zenon DEF TodoTrue, Enum!NoUnit
<1>7. ListTrue'
  <2>1. SameCall
    BY <1>1 DEF SameCall
  <2>2. ASSUME NEW i \in 1..Len(l \o new), NEW r, r = (l \o new)[i]
        PROVE  True(r, enum.refused, enum.unnamed)'
    <3>1. CASE i \in 1..Len(l) /\ r = l[i]
      <4>1. True(r, enum.refused, enum.unnamed)
        BY <3>1 DEF EnumInv, ListTrue
      <4> QED
        BY <1>1, <2>1, <4>1, TrueKeeps
    <3>2. CASE i - Len(l) \in 1..Len(new) /\ r = new[i - Len(l)]
      <4>1. True(r, refused, unnamed)
        BY <3>2
      <4> QED
        BY <1>1, <2>1, <4>1, TrueKeeps
    <3> QED
      BY <1>4, <2>2, <3>1, <3>2
  <2>3. enum'.list = l \o new
    BY <1>1
  <2> HIDE DEF l
  <2> QED
    BY <2>2, <2>3 DEF ListTrue
<1>8. OncePerInterface'
  <2>1. SUFFICES ASSUME backend = "libusb" PROVE OncePerInterface'
    BY <1>1 DEF OncePerInterface
  <2>2. enum'.list = l
    BY <1>1, <1>2, <2>1
  <2>3. \A i, j \in 1..Len(l) : l[i].path = l[j].path => i = j
    BY <2>1 DEF EnumInv, OncePerInterface
  <2>4. ASSUME NEW i \in 1..Len(l), NEW k \in 1..Len(Tail(t)), l[i].path[1] = Tail(t)[k].port
        PROVE  FALSE
    BY <1>2, <1>3, <2>1, <2>4 DEF EnumInv, OncePerInterface
  <2> QED
    BY <1>1, <2>2, <2>3, <2>4 DEF OncePerInterface
<1>9. Covered'
  <2>1. SUFFICES ASSUME ~WrongRoot, NEW q \in enum.stayed \ refused,
                        bus.at[q] # Enum!NoUnit, Enum!Asked(bus.at[q].ids)
                 PROVE  IF backend # "libusb" THEN (InTodo(q) \/ IsListed(q))'
                        ELSE \A k \in DOMAIN bus.at[q].interfaces :
                               Described(q, k)' /\ Enum!Taken(bus.at[q].interfaces[k])
                                 => IsListedAs(q, k)'
    BY <1>1 DEF Covered, WrongRoot, Enum!Asked, Enum!Taken
  <2>2. Walking
    BY DEF Walking
  <2>3. CASE backend # "libusb"
    <3>1. InTodo(q) \/ IsListed(q)
      BY <2>1, <2>2, <2>3 DEF EnumInv, Covered
    <3>2. CASE IsListed(q)
      <4>1. PICK i \in 1..Len(l) : l[i].path[1] = q
        BY <3>2 DEF IsListed
      <4>2. i \in 1..Len(enum'.list) /\ enum'.list[i].path[1] = q
        BY <1>1, <1>4, <4>1
      <4> QED
        BY <2>3, <4>2 DEF IsListed
    <3>3. CASE InTodo(q) /\ q # p
      <4>1. PICK i \in 2..Len(t) : t[i].port = q
        BY <1>2, <3>3 DEF InTodo
      <4>2. i - 1 \in 1..Len(enum'.todo) /\ enum'.todo[i - 1].port = q
        BY <1>1, <1>3, <4>1
      <4> QED
        BY <2>3, <4>2 DEF InTodo
    <3>4. CASE q = p
      <4>1. 1 \in 1..Len(new)
        BY <2>1, <2>3, <3>4
      <4>2. 1 + Len(l) \in 1..Len(enum'.list) /\ enum'.list[1 + Len(l)].path[1] = q
        BY <1>1, <1>4, <3>4, <4>1
      <4> QED
        BY <2>3, <4>2 DEF IsListed
    <3> QED
      BY <3>1, <3>2, <3>3, <3>4
  <2>4. CASE backend = "libusb"
    <3>1. SUFFICES ASSUME NEW k \in DOMAIN bus.at[q].interfaces, Described(q, k)',
                          Enum!Taken(bus.at[q].interfaces[k])
                   PROVE  IsListedAs(q, k)'
      BY <2>4
    <3>2. enum'.list = l
      BY <1>1, <1>2, <2>4
    <3>3. ~InTodo(q)'
      BY <1>1, <3>1 DEF Described, Busy
    <3>4. IsListedAs(q, k)
      <4>1. CASE q = p
        BY <2>1, <2>4, <3>1, <4>1
      <4>2. CASE q # p
        <5>1. ~InTodo(q)
          <6>1. SUFFICES ASSUME NEW i \in 1..Len(t), t[i].port = q PROVE FALSE
            BY DEF InTodo
          <6>2. i \in 2..Len(t)
            BY <1>2, <4>2, <6>1
          <6>3. i - 1 \in 1..Len(enum'.todo) /\ enum'.todo[i - 1].port = q
            BY <1>1, <1>3, <6>1, <6>2
          <6> QED
            BY <3>3, <6>3 DEF InTodo
        <5> QED
          BY <2>1, <2>2, <2>4, <3>1, <5>1 DEF EnumInv, Covered, Described
      <4> QED
        BY <4>1, <4>2
    <3> QED
      BY <3>2, <3>4 DEF IsListedAs
  <2> QED
    BY <2>3, <2>4
<1>10. Beginning'
  <2>1. ~WrongRoot
    BY DEF EnumInv, Beginning, Walking
  <2> QED
    BY <1>1, <2>1 DEF Beginning, Walking, WrongRoot
<1>11. PickTrue'
  BY <1>1 DEF PickTrue
<1> QED
  BY <1>5, <1>6, <1>7, <1>8, <1>9, <1>10, <1>11 DEF EnumInv

\* The first place of those still to be looked at.
LEMMA First ==
  ASSUME EnumInv, enum.todo # <<>>
  PROVE  /\ Enum!Next1 = enum.todo[1] /\ Enum!Next1 \in Devices
         /\ Enum!Next1.port \in Ports /\ Enum!Next1.unit \in Units \cup {Enum!NoUnit}
         /\ 1 \in 1..Len(enum.todo)
PROOF
<1>1. enum.todo \in Seq(Devices)
  BY DEF EnumInv, EnumType, EnumRecords
<1>2. Head(enum.todo) = enum.todo[1] /\ enum.todo[1] \in Devices /\ 1 \in 1..Len(enum.todo)
  BY <1>1
<1> QED
  BY <1>2 DEF Enum!Next1, Devices

\* Skipping a device, which is none to be listed or has all its records, or passing
\* it over.
LEMMA Skipped ==
  ASSUME EnumInv, enum.pc \in {"look", "describe"}, enum.todo # <<>>,
         NEW refused \in SUBSET Ports, enum.refused \subseteq refused,
         enum' = [enum EXCEPT !.todo = Tail(@), !.pc = "look", !.refused = refused],
         UNCHANGED <<backend, bus>>,
         LET p == Enum!Next1.port
         IN  p \in enum.stayed \ refused /\ bus.at[p] # Enum!NoUnit
             /\ Enum!Asked(bus.at[p].ids) =>
               /\ backend = "libusb"
               /\ \A k \in DOMAIN bus.at[p].interfaces :
                    Enum!Taken(bus.at[p].interfaces[k]) => IsListedAs(p, k)
  PROVE  EnumInv'
PROOF
<1> DEFINE p == Enum!Next1.port
           new == <<>>
           unnamed == enum.unnamed
<1>1. enum.list \in Seq(Entries) /\ enum.list \o <<>> = enum.list
  BY DEF EnumInv, EnumType, EnumRecords
<1>2. Recorded(new, refused, unnamed)
  BY <1>1 DEF Recorded, EnumInv, EnumType, EnumRecords
<1>3. new \in Seq(Entries) /\ 1..Len(new) = {} /\ new = <<>>
  OBVIOUS
<1>4. unnamed \in SUBSET Ports /\ enum.unnamed \subseteq unnamed
  BY DEF EnumInv, EnumType, EnumRecords
<1>5. p \in Ports /\ p = enum.todo[1].port
  BY First
<1>6. p \in enum.stayed \ refused /\ bus.at[p] # Enum!NoUnit /\ Enum!Asked(bus.at[p].ids) =>
        /\ backend = "libusb"
        /\ \A k \in DOMAIN bus.at[p].interfaces :
             Enum!Taken(bus.at[p].interfaces[k]) => IsListedAs(p, k)
  OBVIOUS
<1> HIDE DEF p, new, unnamed
<1>7. \A i \in 1..Len(new) : new[i].path[1] = p /\ True(new[i], refused, unnamed)
  BY <1>3
<1> QED
  BY <1>2, <1>3, <1>4, <1>5, <1>6, <1>7, Done

\* hid_enumerate goes on with the next place, and says nothing of this one.
LEMMA SkipIs ==
  ASSUME EnumInv, Enum!Skip
  PROVE  enum' = [enum EXCEPT !.todo = Tail(@), !.pc = "look", !.refused = enum.refused]
BY DEF Enum!Skip, EnumInv, EnumType, EnumRecords

\* Records of the device looked at.
LEMMA RecordsType ==
  ASSUME EnumInv, Busy, NEW ids \in {"asked", "other", "zero"}, NEW serial \in SerialsRead,
         NEW pairs \in Seq(Nat \X Nat) \ {<<>>}
  PROVE  /\ Enum!Records(ids, serial, pairs) \in Seq(Entries) \ {<<>>}
         /\ \A i \in 1..Len(Enum!Records(ids, serial, pairs)) :
              LET r == Enum!Records(ids, serial, pairs)[i]
              IN  r \in Entries /\ r.path[1] = Enum!Next1.port /\ r.ids = ids /\ r.serial = serial
PROOF
<1> DEFINE e(i) == [path |-> <<Enum!Next1.port, 0>>, ids |-> ids, serial |-> serial,
                    pair |-> pairs[i]]
<1>1. enum.todo # <<>>
  BY DEF EnumInv, TodoTrue
<1>2. Enum!Next1.port \in Ports
  BY <1>1, First
<1>3. Len(pairs) \in Nat \ {0} /\ \A i \in 1..Len(pairs) : pairs[i] \in Nat \X Nat
  OBVIOUS
<1>4. \A i \in 1..Len(pairs) : e(i) \in Entries
  BY <1>2, <1>3 DEF Entries
<1>5. Enum!Records(ids, serial, pairs) = [i \in 1..Len(pairs) |-> e(i)]
  BY DEF Enum!Records, Enum!Record
<1>6. \A i \in 1..Len(pairs) : e(i).path[1] = Enum!Next1.port /\ e(i).ids = ids
                               /\ e(i).serial = serial
  OBVIOUS
<1> HIDE DEF e
<1> DEFINE rs == [i \in 1..Len(pairs) |-> e(i)]
<1>7. rs \in Seq(Entries) /\ Len(rs) = Len(pairs)
  BY <1>3, <1>4
<1>8. \A i \in 1..Len(rs) : rs[i] = e(i)
  BY <1>7
<1>9. rs # <<>>
  BY <1>3, <1>7
<1> QED
  BY <1>4, <1>5, <1>6, <1>7, <1>8, <1>9

LEMMA DescribeLemma ==
  ASSUME EnumInv, Enum!Describe
  PROVE  EnumInv'
PROOF
<1> DEFINE p == Enum!Next1.port
           u == Enum!Next1.unit
<1>1. /\ enum.pc = "describe" /\ Busy /\ backend # "libusb" /\ enum.todo # <<>>
      /\ bus.items \in Descriptors
  BY DEF Enum!Describe, Busy, EnumInv, TodoTrue, EnumType, EnumRecords
<1>2. p \in Ports /\ p = enum.todo[1].port /\ u = enum.todo[1].unit
      /\ u \in Units \cup {Enum!NoUnit} /\ 1 \in 1..Len(enum.todo)
  BY <1>1, First
<1>3. u # Enum!NoUnit /\ Enum!Asked(u.ids) /\ (p \in enum.stayed => u = bus.at[p])
  BY <1>1, <1>2 DEF EnumInv, TodoTrue
<1>4. u \in Units /\ u.ids \in {"asked", "other"} /\ u.serial \in STRING
  BY <1>2, <1>3, UnitType DEF EnumInv
<1>5. PICK new \in Enum!Descriptions :
        enum' = [enum EXCEPT !.pc = "look", !.todo = Tail(@), !.list = @ \o new,
                             !.refused = Enum!Refused(new), !.unnamed = Enum!Unnamed(new)]
  BY DEF Enum!Describe
<1> DEFINE good == Enum!UsagesRead(bus.items) \cup {<<Enum!NoPair>>}
           refused == Enum!Refused(new)
           unnamed == Enum!Unnamed(new)
<1>6. good \subseteq Seq(Nat \X Nat) \ {<<>>}
  <2>1. <<Enum!NoPair>> \in Seq(Nat \X Nat) \ {<<>>}
    BY DEF Enum!NoPair, Enum!Pair
  <2> QED
    BY <1>1, <2>1, EnumerateAssumption
<1>7. new = <<>> \/ \E ids \in {u.ids, "zero"}, serial \in {u.serial, Enum!Empty}, x \in good :
                      new = Enum!Records(ids, serial, x)
  <2>1. backend \in {"mac", "windows", "linux", "netbsd"}
    BY <1>1, BackendsAssumption DEF EnumInv, EnumType, EnumRecords
  <2>2. \A x : Enum!WithUsages(x) = Enum!Records(u.ids, u.serial, x)
    BY DEF Enum!WithUsages
  <2>3. /\ Enum!Bare = Enum!Records(u.ids, u.serial, <<Enum!NoPair>>)
        /\ Enum!Descriptor = Enum!FlattenSeq(bus.items)
    BY <2>2 DEF Enum!Bare, Enum!Descriptor
  <2>4. CASE backend = "mac"
    BY <1>5, <2>2, <2>4 DEF Enum!Descriptions, Enum!MacDescriptions, Enum!UsagesRead
  <2>5. CASE backend = "windows"
    <3>1. PICK ids \in {u.ids, "zero"}, serial \in {u.serial, Enum!Empty},
               pair \in {Head(Enum!Declared(bus.items)), Enum!NoPair} :
            new = Enum!Records(ids, serial, <<pair>>)
      BY <1>5, <2>5 DEF Enum!Descriptions, Enum!WindowsDescriptions
    <3>2. <<pair>> \in good
      BY DEF Enum!UsagesRead
    <3> QED
      BY <3>1, <3>2
  <2>6. CASE backend = "linux"
    BY <1>5, <2>2, <2>3, <2>6
       DEF Enum!Descriptions, Enum!LinuxDescriptions, Enum!UsagesRead
  <2>7. CASE backend = "netbsd"
    BY <1>5, <2>2, <2>3, <2>7
       DEF Enum!Descriptions, Enum!NetbsdDescriptions, Enum!UsagesRead
  <2> QED
    BY <2>1, <2>4, <2>5, <2>6, <2>7
<1>8. ASSUME NEW ids \in {u.ids, "zero"}, NEW serial \in {u.serial, Enum!Empty}, NEW x \in good,
             new = Enum!Records(ids, serial, x)
      PROVE  /\ new \in Seq(Entries) \ {<<>>}
             /\ \A i \in 1..Len(new) : /\ new[i] \in Entries /\ new[i].path[1] = p
                                       /\ new[i].ids = ids /\ new[i].serial = serial
  <2>1. ids \in {"asked", "other", "zero"} /\ serial \in SerialsRead
    BY <1>4, <1>8 DEF SerialsRead
  <2>2. x \in Seq(Nat \X Nat) \ {<<>>}
    BY <1>6, <1>8
  <2> HIDE DEF u, good, p
  <2>3. /\ Enum!Records(ids, serial, x) \in Seq(Entries) \ {<<>>}
        /\ \A i \in 1..Len(Enum!Records(ids, serial, x)) :
             LET r == Enum!Records(ids, serial, x)[i]
             IN  r \in Entries /\ r.path[1] = Enum!Next1.port /\ r.ids = ids
                   /\ r.serial = serial
    BY <1>1, <2>1, <2>2, RecordsType
  <2> QED
    BY <1>8, <2>3 DEF p
<1>9. /\ refused \in SUBSET Ports /\ enum.refused \subseteq refused
      /\ unnamed \in SUBSET Ports /\ enum.unnamed \subseteq unnamed
      /\ new = <<>> => p \in refused
  BY <1>2 DEF Enum!Refused, Enum!Unnamed, EnumInv, EnumType, EnumRecords
<1>10. /\ new \in Seq(Entries)
       /\ \A i \in 1..Len(new) : new[i].path[1] = p /\ True(new[i], refused, unnamed)
  <2>1. CASE new = <<>>
    <3>1. new \in Seq(Entries) /\ 1..Len(new) = {}
      BY <2>1
    <3> QED
      BY <3>1
  <2>2. CASE new # <<>>
    <3>1. PICK ids \in {u.ids, "zero"}, serial \in {u.serial, Enum!Empty}, x \in good :
            new = Enum!Records(ids, serial, x)
      BY <1>7, <2>2
    <3> HIDE DEF good
    <3>2. /\ new \in Seq(Entries) \ {<<>>}
          /\ \A i \in 1..Len(new) : /\ new[i] \in Entries /\ new[i].path[1] = p
                                    /\ new[i].ids = ids /\ new[i].serial = serial
      BY <1>8, <3>1
    <3>3. \A i \in 1..Len(new) : new[i] \in Enum!Range(new)
      BY <3>2 DEF Enum!Range
    <3>4. ASSUME NEW i \in 1..Len(new)
          PROVE  /\ ids = u.ids \/ (ids = "zero" /\ p \in refused)
                 /\ serial = u.serial \/ (serial = Enum!Empty /\ p \in unnamed)
      <4>1. new[i].ids # u.ids => p \in refused
        BY <3>3 DEF Enum!Refused
      <4>2. new[i].serial # u.serial => p \in unnamed
        BY <3>3 DEF Enum!Unnamed
      <4> QED
        BY <3>1, <3>2, <4>1, <4>2
    <3> HIDE DEF p, u, refused, unnamed
    <3> QED
      BY <1>1, <1>3, <3>2, <3>4 DEF True
  <2> QED
    BY <2>1, <2>2
<1>11. UNCHANGED <<backend, bus>>
  BY DEF Enum!Describe
<1>12. Recorded(new, refused, unnamed)
  BY <1>5 DEF Recorded
<1> HIDE DEF p, u, good, refused, unnamed
<1> QED
  BY <1>1, <1>2, <1>9, <1>10, <1>11, <1>12, Done

LEMMA LookLemma ==
  ASSUME EnumInv, Enum!Look
  PROVE  EnumInv'
PROOF
<1> DEFINE p == Enum!Next1.port
           unit == IF backend = "netbsd" THEN bus.at[p] ELSE Enum!Next1.unit
           t == enum.todo
<1>1. enum.pc = "look" /\ ~Busy /\ t # <<>> /\ UNCHANGED <<backend, bus>>
  BY DEF Enum!Look, Busy
<1>2. /\ p \in Ports /\ p = t[1].port /\ Enum!Next1.unit = t[1].unit
      /\ Enum!Next1.unit \in Units \cup {Enum!NoUnit} /\ 1 \in 1..Len(t)
  BY <1>1, First
<1>3. bus.at[p] \in Units \cup {Enum!NoUnit}
  BY <1>2 DEF EnumInv, EnumType, EnumRecords
<1>4. backend # "netbsd" => /\ Enum!Next1.unit # Enum!NoUnit
                            /\ p \in enum.stayed => Enum!Next1.unit = bus.at[p]
  BY <1>2 DEF EnumInv, TodoTrue
<1>5. p \in enum.stayed => unit = bus.at[p] /\ (backend # "netbsd" => ~Enum!Gone)
  BY <1>4 DEF Enum!Gone
<1>6. CASE /\ unit # Enum!NoUnit
           /\ backend = "mac" \/ Enum!Asked(unit.ids)
           /\ enum' = [enum EXCEPT !.pc = "describe", !.todo[1].unit = unit, !.next = 1]
  <2>1. enum' = [enum EXCEPT !.pc = "describe", !.todo[1].unit = unit, !.next = 1]
    BY <1>6
  <2>2. t \in Seq(Devices) /\ enum.list \in Seq(Entries) /\ Len(t) \in Nat
    BY DEF EnumInv, EnumType, EnumRecords
  <2>3. t[1] \in Devices
    BY <1>2, <2>2
  <2>4. unit \in Units \cup {Enum!NoUnit}
    BY <1>2, <1>3
  <2> DEFINE t2 == [t EXCEPT ![1].unit = unit]
  <2> HIDE DEF unit
  <2>5. [t[1] EXCEPT !.unit = unit] \in Devices /\ [t[1] EXCEPT !.unit = unit].port = t[1].port
        /\ [t[1] EXCEPT !.unit = unit].unit = unit
    BY <2>3, <2>4 DEF Devices
  <2>6. /\ t2 \in Seq(Devices) /\ Len(t2) = Len(t) /\ t2[1].unit = unit
        /\ \A i \in 1..Len(t) : t2[i].port = t[i].port /\ (i # 1 => t2[i] = t[i])
    BY <1>2, <2>2, <2>5
  <2>7. /\ enum'.todo = t2 /\ enum'.pc = "describe" /\ enum'.next = 1
        /\ enum'.list = enum.list /\ enum'.any = enum.any /\ enum'.want = enum.want
        /\ enum'.pass = enum.pass /\ enum'.stayed = enum.stayed /\ enum'.pick = enum.pick
        /\ enum'.refused = enum.refused /\ enum'.unnamed = enum.unnamed /\ SameCall
    BY <1>1, <2>1 DEF SameCall, EnumInv, EnumType, EnumRecords
  <2>8. EnumType'
    <3>1. enum' = [enum EXCEPT !.pc = "describe", !.todo = t2, !.next = 1]
      BY <2>1 DEF EnumInv, EnumType, EnumRecords
    <3>2. t2 \in Seq(Devices) /\ 1 \in Nat \ {0}
      BY <2>6
    <3> HIDE DEF t2, t, p
    <3> QED
      BY <1>1, <3>1, <3>2 DEF EnumInv, EnumType, EnumRecords
  <2> HIDE DEF t, t2, p
  <2>9. \A x : Enum!Asked(x)' <=> Enum!Asked(x)
    BY <2>7 DEF Enum!Asked
  <2>10. Busy' /\ ~Busy /\ Walking /\ Walking'
    BY <1>1, <2>7 DEF Busy, Walking
  <2>11. TodoTrue'
    <3>1. \A i, j \in 1..Len(t2) : t2[i].port = t2[j].port => i = j
      BY <2>6 DEF EnumInv, TodoTrue, t
    <3>2. ASSUME NEW i \in 1..Len(t2)
          PROVE  LET d == t2[i]
                 IN  /\ backend # "netbsd" \/ i = 1 =>
                          /\ d.unit # Enum!NoUnit
                          /\ d.port \in enum.stayed => d.unit = bus.at[d.port]
                     /\ backend = "mac" \/ i = 1 => Enum!Asked(d.unit.ids)
      <4>1. CASE i = 1
        <5>1. backend = "mac" => Enum!Asked(unit.ids)
          BY <1>2 DEF EnumInv, TodoTrue, unit, t
        <5> QED
          BY <1>2, <1>5, <1>6, <2>6, <4>1, <5>1
      <4>2. CASE i # 1
        <5>1. t2[i] = t[i] /\ i \in 1..Len(t)
          BY <2>6, <4>2
        <5> QED
          BY <4>2, <5>1 DEF EnumInv, TodoTrue, t
      <4> QED
        BY <4>1, <4>2
    <3>3. t2 # <<>>
      BY <1>2, <2>6
    <3>4. ASSUME NEW i \in 1..Len(enum'.todo)
          PROVE  LET d == enum'.todo[i]
                 IN  /\ backend' # "netbsd" \/ (Busy' /\ i = 1) =>
                          /\ d.unit # Enum!NoUnit
                          /\ d.port \in enum'.stayed => d.unit = bus'.at[d.port]
                     /\ backend' = "mac" \/ (Busy' /\ i = 1) => Enum!Asked(d.unit.ids)
      BY <1>1, <2>7, <3>2
    <3>5. \A i, j \in 1..Len(enum'.todo) : enum'.todo[i].port = enum'.todo[j].port => i = j
      BY <2>7, <3>1
    <3>6. enum'.todo # <<>> /\ enum'.pc # "complete"
      BY <2>7, <3>3
    <3> QED
      BY <2>9, <3>4, <3>5, <3>6, Zenon DEF TodoTrue, Enum!NoUnit
  <2>12. ListTrue'
    BY <2>7, TrueKeeps DEF EnumInv, ListTrue
  <2>13. OncePerInterface'
    BY <1>1, <2>6, <2>7, <2>10 DEF EnumInv, OncePerInterface, t
  <2>14. \A q : InTodo(q)' <=> InTodo(q)
    BY <2>6, <2>7 DEF InTodo, t
  <2>15. Covered'
    <3>1. ASSUME NEW q \in Ports, NEW k \in DOMAIN bus.at[q].interfaces,
                 bus.at[q] # Enum!NoUnit, Described(q, k)'
          PROVE  Described(q, k)
      <4>1. bus.at[q] \in Units \cup {Enum!NoUnit}
        BY DEF EnumInv, EnumType, EnumRecords
      <4>2. k \in Nat /\ k >= 1
        BY <3>1, <4>1, UnitType DEF EnumInv
      <4> QED
        BY <2>7, <2>14, <3>1, <4>2 DEF Described
    <3>2. enum.stayed \subseteq Ports
      BY DEF EnumInv, EnumType, EnumRecords
    <3>3. \A q : (IsListed(q)' <=> IsListed(q)) /\ \A k : IsListedAs(q, k)' <=> IsListedAs(q, k)
      BY <2>7 DEF IsListed, IsListedAs
    <3>4. WrongRoot' <=> WrongRoot
      BY <1>1, <2>7 DEF WrongRoot
    <3>5. ASSUME ~WrongRoot, NEW q \in enum.stayed \ enum.refused, bus.at[q] # Enum!NoUnit,
                 Enum!Asked(bus.at[q].ids)
          PROVE  IF backend # "libusb" THEN InTodo(q)' \/ IsListed(q)'
                 ELSE \A k \in DOMAIN bus.at[q].interfaces :
                        Described(q, k)' /\ Enum!Taken(bus.at[q].interfaces[k])
                          => IsListedAs(q, k)'
      BY <2>10, <2>14, <3>1, <3>2, <3>3, <3>5 DEF EnumInv, Covered
    <3> QED
      BY <1>1, <2>7, <2>9, <3>4, <3>5, Zenon DEF Covered, Enum!NoUnit, Enum!Taken
  <2>16. Beginning'
    <3>1. ~WrongRoot
      BY <1>1, <2>10 DEF EnumInv, Beginning, t
    <3> QED
      BY <1>1, <2>7, <2>10, <3>1 DEF Beginning, WrongRoot
  <2>17. PickTrue'
    BY <2>7 DEF PickTrue
  <2> QED
    BY <2>8, <2>11, <2>12, <2>13, <2>15, <2>16, <2>17 DEF EnumInv
<1>7. CASE Enum!Skip /\ (unit = Enum!NoUnit \/ ~(backend = "mac" \/ Enum!Asked(unit.ids)))
  <2>1. ~(p \in enum.stayed /\ bus.at[p] # Enum!NoUnit /\ Enum!Asked(bus.at[p].ids))
    BY <1>5, <1>7
  <2>2. enum.refused \in SUBSET Ports
    BY DEF EnumInv, EnumType, EnumRecords
  <2> QED
    BY <1>1, <1>7, <2>1, <2>2, SkipIs, Skipped
<1>8. CASE Enum!PassOver
  <2> DEFINE refused == enum.refused \cup {p}
  <2>1. enum' = [enum EXCEPT !.todo = Tail(@), !.pc = "look", !.refused = refused]
    BY <1>8 DEF Enum!PassOver, EnumInv, EnumType, EnumRecords
  <2>2. refused \in SUBSET Ports /\ enum.refused \subseteq refused /\ p \in refused
    BY <1>2 DEF EnumInv, EnumType, EnumRecords
  <2> HIDE DEF refused
  <2> QED
    BY <1>1, <2>1, <2>2, Skipped
<1> QED
  BY <1>6, <1>7, <1>8 DEF Enum!Look

\* The next interface of a device, which gets one record or none.
LEMMA InterfaceLemma ==
  ASSUME EnumInv, Enum!DescribeInterface
  PROVE  EnumInv'
PROOF
<1> DEFINE p == Enum!Next1.port
           u == Enum!Next1.unit
           n == enum.next
           l == enum.list
<1>1. /\ enum.pc = "describe" /\ Busy /\ Walking /\ backend = "libusb" /\ enum.todo # <<>>
      /\ UNCHANGED <<backend, bus>>
  BY DEF Enum!DescribeInterface, Busy, Walking, EnumInv, TodoTrue
<1>2. p \in Ports /\ p = enum.todo[1].port /\ u = enum.todo[1].unit
      /\ u \in Units \cup {Enum!NoUnit} /\ 1 \in 1..Len(enum.todo)
  BY <1>1, First
<1>3. u # Enum!NoUnit /\ Enum!Asked(u.ids) /\ (p \in enum.stayed => u = bus.at[p])
  BY <1>1, <1>2 DEF EnumInv, TodoTrue
<1>4. /\ u \in Units /\ u.ids \in {"asked", "other"} /\ u.serial \in STRING
      /\ u.interfaces \in Seq(Seq(BOOLEAN))
  BY <1>2, <1>3, UnitType DEF EnumInv
<1>5. /\ DOMAIN u.interfaces = 1..Len(u.interfaces) /\ Len(u.interfaces) \in Nat
      /\ n \in Nat \ {0} /\ l \in Seq(Entries) /\ enum.todo \in Seq(Devices)
  BY <1>4 DEF EnumInv, EnumType, EnumRecords
<1>6. ~WrongRoot
  BY <1>1 DEF WrongRoot
<1>7. CASE n > Len(u.interfaces)
  <2>1. enum' = [enum EXCEPT !.todo = Tail(@), !.pc = "look", !.refused = enum.refused]
        /\ enum.refused \in SUBSET Ports
    BY <1>7, SkipIs DEF Enum!DescribeInterface, EnumInv, EnumType, EnumRecords
  <2>2. ASSUME p \in enum.stayed \ enum.refused, bus.at[p] # Enum!NoUnit, Enum!Asked(bus.at[p].ids),
               NEW k \in DOMAIN bus.at[p].interfaces, Enum!Taken(bus.at[p].interfaces[k])
        PROVE  IsListedAs(p, k)
    <3>1. k < n
      BY <1>3, <1>5, <1>7, <2>2
    <3>2. Described(p, k)
      BY <1>1, <1>2, <3>1 DEF Described
    <3> HIDE DEF p
    <3> QED
      BY <1>1, <1>6, <2>2, <3>2 DEF EnumInv, Covered
  <2> HIDE DEF p
  <2>3. p \in enum.stayed \ enum.refused /\ bus.at[p] # Enum!NoUnit
        /\ Enum!Asked(bus.at[p].ids) =>
             /\ backend = "libusb"
             /\ \A k \in DOMAIN bus.at[p].interfaces :
                  Enum!Taken(bus.at[p].interfaces[k]) => IsListedAs(p, k)
    BY <1>1, <2>2
  <2> QED
    BY <1>1, <2>1, <2>3, Skipped DEF p
<1>8. CASE ~(n > Len(u.interfaces))
  <2> DEFINE taken == Enum!Taken(u.interfaces[n])
  <2>1. PICK new \in IF taken THEN Enum!LibusbDescriptions ELSE {<<>>} :
          enum' = [enum EXCEPT !.next = @ + 1, !.list = @ \o new,
                               !.unnamed = Enum!Unnamed(new)]
    BY <1>8 DEF Enum!DescribeInterface
  <2>2. n \in DOMAIN u.interfaces
    BY <1>5, <1>8
  <2> DEFINE refused == enum.refused
             unnamed == Enum!Unnamed(new)
  <2>3. new = <<>> \/ \E r : new = <<r>> /\ r \in Entries /\ r.path = <<p, n>>
                             /\ True(r, refused, unnamed)
    <3>1. SUFFICES ASSUME taken, NEW r, new = <<r>>,
                          r = Enum!LibusbRecord(Enum!Null) \/ r = Enum!LibusbRecord(u.serial)
                   PROVE  r \in Entries /\ r.path = <<p, n>> /\ True(r, refused, unnamed)
      BY <2>1 DEF Enum!LibusbDescriptions
    <3>2. \E s \in {u.serial, Enum!Null} :
            r = [path |-> <<p, n>>, ids |-> u.ids, serial |-> s, pair |-> Enum!NoPair]
      BY <3>1 DEF Enum!LibusbRecord, Enum!Record
    <3>3. PICK s \in {u.serial, Enum!Null} :
            r = [path |-> <<p, n>>, ids |-> u.ids, serial |-> s, pair |-> Enum!NoPair]
      BY <3>2
    <3>4. Enum!NoPair \in Nat \X Nat
      BY DEF Enum!NoPair, Enum!Pair
    <3>5. r.serial # u.serial => p \in unnamed
      <4>1. r \in Enum!Range(new)
        BY <3>1 DEF Enum!Range
      <4> QED
        BY <4>1 DEF Enum!Unnamed
    <3> HIDE DEF p, u, n, refused, unnamed
    <3>6. r \in Entries /\ r.path[1] = p /\ r.path[2] = n /\ r.path = <<p, n>>
          /\ r.ids = u.ids /\ r.serial = s
      BY <1>2, <1>4, <1>5, <3>3, <3>4 DEF Entries, SerialsRead
    <3> QED
      BY <1>1, <1>3, <2>2, <3>1, <3>5, <3>6 DEF True
  <2>4. taken => new # <<>>
    BY <2>1 DEF Enum!LibusbDescriptions
  <2>5. /\ new \in Seq(Entries) /\ Len(new) \in {0, 1}
        /\ \A i \in 1..Len(new) :
             True(new[i], refused, unnamed) /\ new[i].path = <<p, n>> /\ i = 1
    <3> HIDE DEF p, n, refused, unnamed
    <3>1. CASE new = <<>>
      BY <3>1
    <3>2. CASE \E r : new = <<r>> /\ r \in Entries /\ r.path = <<p, n>>
                      /\ True(r, refused, unnamed)
      <4>1. PICK r : new = <<r>> /\ r \in Entries /\ r.path = <<p, n>>
                     /\ True(r, refused, unnamed)
        BY <3>2
      <4>2. new \in Seq(Entries) /\ Len(new) = 1 /\ new[1] = r
        BY <4>1
      <4> QED
        BY <4>1, <4>2
    <3> QED
      BY <2>3, <3>1, <3>2
  <2> DEFINE l2 == l \o new
  <2>6. /\ l2 \in Seq(Entries)
        /\ \A i \in 1..Len(l) : i \in 1..Len(l2) /\ l2[i] = l[i]
        /\ \A i \in 1..Len(l2) :
             \/ i \in 1..Len(l) /\ l2[i] = l[i]
             \/ /\ i = Len(l) + 1 /\ Len(new) = 1 /\ l2[i] = new[1]
                /\ True(l2[i], refused, unnamed) /\ l2[i].path = <<p, n>>
        /\ new # <<>> => Len(l) + 1 \in 1..Len(l2) /\ l2[Len(l) + 1].path = <<p, n>>
    BY <1>5, <2>5
  <2>7. /\ enum'.list = l2 /\ enum'.next = n + 1 /\ enum'.todo = enum.todo
        /\ enum'.pc = "describe" /\ SameCall
        /\ enum'.refused = refused /\ enum'.unnamed = unnamed
        /\ unnamed \in SUBSET Ports /\ enum.unnamed \subseteq unnamed
    BY <1>1, <1>2, <2>1 DEF SameCall, Enum!Unnamed, EnumInv, EnumType, EnumRecords
  <2>8. EnumType'
    <3>1. enum' = [enum EXCEPT !.next = n + 1, !.list = l2, !.unnamed = unnamed]
          /\ n + 1 \in Nat \ {0}
      BY <1>5, <2>1
    <3> HIDE DEF l2, n, p, u, unnamed
    <3> QED
      BY <1>1, <2>6, <2>7, <3>1 DEF EnumInv, EnumType, EnumRecords
  <2> HIDE DEF l2, l, p, u, n, unnamed
  <2>9. /\ \A x : Enum!Asked(x)' <=> Enum!Asked(x)
        /\ Busy' /\ Walking' /\ enum'.pc # "complete"
    BY <2>7 DEF Enum!Asked, SameCall, Busy, Walking
  <2>10. TodoTrue'
    BY <1>1, <2>7, <2>9 DEF EnumInv, TodoTrue, SameCall, Enum!NoUnit
  <2>11. ListTrue'
    <3>1. ASSUME NEW i \in 1..Len(l2), NEW r, r = l2[i]
          PROVE  True(r, enum.refused, enum.unnamed)'
      <4>1. CASE i \in 1..Len(l) /\ r = l[i]
        <5>1. True(r, enum.refused, enum.unnamed)
          BY <4>1 DEF EnumInv, ListTrue, l
        <5> QED
          BY <2>7, <5>1, TrueKeeps
      <4>2. CASE True(r, refused, unnamed)
        BY <2>7, <4>2, TrueKeeps
      <4> QED
        BY <2>6, <3>1, <4>1, <4>2
    <3> QED
      BY <2>7, <3>1 DEF ListTrue
  <2>12. OncePerInterface'
    <3>1. /\ \A i, j \in 1..Len(l) : l[i].path = l[j].path => i = j
          /\ \A i \in 1..Len(l), k \in 1..Len(enum.todo) :
               l[i].path[1] = enum.todo[k].port => k = 1 /\ l[i].path[2] < n
      BY <1>1 DEF EnumInv, OncePerInterface, l, n
    <3>2. \A i \in 1..Len(l) : l[i].path # <<p, n>> /\ l[i].path[2] \in Nat
      <4>1. \A i \in 1..Len(l) : l[i] \in Entries
        BY <1>5
      <4>2. \A i \in 1..Len(l) : l[i].path[2] \in Nat
        BY <4>1 DEF Entries
      <4> QED
        BY <1>2, <1>5, <3>1, <4>2
    <3>3. \A i, j \in 1..Len(l2) : l2[i].path = l2[j].path => i = j
      BY <2>6, <3>1, <3>2
    <3>4. ASSUME NEW i \in 1..Len(l2), NEW k \in 1..Len(enum.todo),
                 l2[i].path[1] = enum.todo[k].port
          PROVE  k = 1 /\ l2[i].path[2] < n + 1
      <4>1. CASE i \in 1..Len(l) /\ l2[i] = l[i]
        BY <1>5, <3>1, <3>2, <3>4, <4>1, SMTT(30)
      <4>2. CASE l2[i].path = <<p, n>>
        BY <1>2, <1>5, <3>4, <4>2 DEF EnumInv, TodoTrue
      <4> QED
        BY <2>6, <4>1, <4>2
    <3> QED
      BY <2>7, <2>9, <3>3, <3>4 DEF OncePerInterface
  <2>13. Covered'
    <3>1. ASSUME NEW q \in enum.stayed \ enum.refused, bus.at[q] # Enum!NoUnit,
                 Enum!Asked(bus.at[q].ids), NEW k \in DOMAIN bus.at[q].interfaces,
                 Described(q, k)', Enum!Taken(bus.at[q].interfaces[k])
          PROVE  IsListedAs(q, k)'
      <4>1. CASE Described(q, k)
        <5>1. IsListedAs(q, k)
          BY <1>1, <1>6, <3>1, <4>1 DEF EnumInv, Covered
        <5>2. PICK i \in 1..Len(l) : l[i].path = <<q, k>>
          BY <5>1 DEF IsListedAs, l
        <5> QED
          BY <2>6, <2>7, <5>2 DEF IsListedAs
      <4>2. CASE ~Described(q, k)
        <5>1. q = p /\ k < n + 1 /\ ~(k < n)
          <6>1. InTodo(q)' <=> InTodo(q)
            BY <2>7 DEF InTodo
          <6>2. InTodo(q) /\ enum.todo[1].port = q /\ k < n + 1
            BY <2>7, <3>1, <4>2, <6>1 DEF Described
          <6> QED
            BY <1>1, <1>2, <4>2, <6>2 DEF Described, n
        <5>2. k = n
          <6>1. bus.at[q] = u
            BY <1>3, <3>1, <5>1
          <6>2. k \in Nat
            BY <1>5, <3>1, <6>1
          <6> QED
            BY <1>5, <5>1, <6>2
        <5>3. new # <<>>
          BY <1>3, <2>4, <3>1, <5>1, <5>2 DEF taken
        <5> QED
          BY <2>6, <2>7, <5>1, <5>2, <5>3 DEF IsListedAs
      <4> QED
        BY <4>1, <4>2
    <3> QED
      BY <1>1, <2>7, <2>9, <3>1, Zenon DEF Covered, SameCall, Enum!NoUnit, Enum!Taken
  <2>14. Beginning'
    BY <1>1, <1>6, <2>7, <2>9 DEF Beginning, WrongRoot, SameCall
  <2>15. PickTrue'
    BY <2>9 DEF PickTrue
  <2> QED
    BY <2>8, <2>10, <2>11, <2>12, <2>13, <2>14, <2>15 DEF EnumInv
<1> QED
  BY <1>7, <1>8

-----------------------------------------------------------------------------
(* The snapshot *)

\* A walk begins: everything asked for that is there is to be looked at.
LEMMA WalkBegins ==
  ASSUME EnumInv, enum.list = <<>>, UNCHANGED <<backend, bus>>, enum.pc \in {"list", "look"},
         NEW todo \in Seq(Devices), NEW pass \in {0, 1},
         enum' = [enum EXCEPT !.pc = "look", !.pass = pass, !.todo = todo],
         \A i, j \in 1..Len(todo) : todo[i].port = todo[j].port => i = j,
         \A i \in 1..Len(todo) :
           /\ backend # "netbsd" => /\ todo[i].unit # Enum!NoUnit
                                    /\ todo[i].unit = bus.at[todo[i].port]
           /\ backend = "mac" => Enum!Asked(todo[i].unit.ids),
         backend = "netbsd" /\ bus.root = 1 /\ pass = 0 => todo = <<>>,
         ~(backend = "netbsd" /\ bus.root = 1 /\ pass = 0) =>
           \A q \in enum.stayed \ enum.refused :
             bus.at[q] # Enum!NoUnit /\ Enum!Asked(bus.at[q].ids) =>
               \E i \in 1..Len(todo) : todo[i].port = q
  PROVE  EnumInv'
PROOF
<1>1. /\ enum'.todo = todo /\ enum'.list = <<>> /\ enum'.pc = "look" /\ enum'.pass = pass
      /\ enum'.any = enum.any /\ enum'.stayed = enum.stayed /\ backend' = backend /\ bus' = bus
      /\ enum'.refused = enum.refused
  BY DEF EnumInv, EnumType, EnumRecords
<1>2. EnumType'
  BY <1>1 DEF EnumInv, EnumType, EnumRecords
<1>3. /\ \A x : Enum!Asked(x)' <=> Enum!Asked(x)
      /\ ~Busy' /\ Walking' /\ enum'.pc # "complete" /\ Len(enum'.list) = 0
  BY <1>1 DEF Enum!Asked, Busy, Walking
<1>4. TodoTrue'
  BY <1>1, <1>3 DEF TodoTrue, Enum!NoUnit
<1>5. ListTrue' /\ OncePerInterface'
  BY <1>3, SMTT(30) DEF ListTrue, OncePerInterface
<1>6. WrongRoot' <=> backend = "netbsd" /\ bus.root = 1 /\ pass = 0
  BY <1>1 DEF WrongRoot
<1>7. Covered'
  <2>1. ASSUME ~WrongRoot', NEW q \in enum.stayed \ enum.refused, bus.at[q] # Enum!NoUnit,
               Enum!Asked(bus.at[q].ids)
        PROVE  InTodo(q)'
    BY <1>1, <1>6, <2>1 DEF InTodo
  <2>2. \A q, k : InTodo(q)' => ~Described(q, k)'
    BY <1>3 DEF Described
  <2> QED
    BY <1>1, <1>3, <2>1, <2>2, Zenon DEF Covered, Enum!NoUnit, Enum!Taken
<1>8. Beginning'
  BY <1>1, <1>3, <1>6 DEF Beginning
<1>9. PickTrue'
  BY <1>3 DEF PickTrue
<1> QED
  BY <1>2, <1>4, <1>5, <1>7, <1>8, <1>9 DEF EnumInv

\* Between two calls, and before the snapshot, nothing is listed.
NotYet == ~Walking /\ enum.list = <<>> /\ enum.todo = <<>> /\ enum.pass = 0

LEMMA NotYetLemma == EnumType /\ NotYet => EnumInv
PROOF
<1> SUFFICES ASSUME EnumType, NotYet PROVE EnumInv
  OBVIOUS
<1>1. Len(enum.list) = 0 /\ Len(enum.todo) = 0 /\ ~Busy /\ enum.pc # "complete"
  BY DEF NotYet, Walking, Busy
<1>2. TodoTrue /\ ListTrue /\ OncePerInterface
  BY <1>1 DEF TodoTrue, ListTrue, OncePerInterface
<1>3. Covered /\ Beginning /\ PickTrue
  BY <1>1 DEF NotYet, Covered, Beginning, PickTrue
<1> QED
  BY <1>2, <1>3 DEF EnumInv

LEMMA NotYetNext == EnumType' /\ NotYet' => EnumInv'
BY NotYetLemma, PTL

\* Without a list there is nothing to look at, and no place of which to say anything.
LEMMA ListFailsLemma ==
  ASSUME EnumInv, Enum!ListFails
  PROVE  EnumInv'
PROOF
<1>1. /\ enum.pc \in {"size", "list"} /\ ~Walking /\ UNCHANGED <<backend, bus>>
      /\ enum' = [enum EXCEPT !.pc = "look", !.pass = 1, !.refused = Ports]
  BY DEF Enum!ListFails, Walking
<1>2. enum.list = <<>> /\ enum.todo = <<>>
  BY <1>1 DEF EnumInv, Beginning
<1>3. /\ enum'.todo = <<>> /\ enum'.list = <<>> /\ enum'.pc = "look" /\ enum'.pass = 1
      /\ enum'.stayed = enum.stayed /\ enum'.refused = Ports /\ ~Busy'
      /\ Len(enum'.list) = 0 /\ Len(enum'.todo) = 0
  BY <1>1, <1>2 DEF EnumInv, EnumType, EnumRecords, Busy
<1>4. EnumType'
  BY <1>1, <1>3 DEF EnumInv, EnumType, EnumRecords
<1>5. TodoTrue' /\ ListTrue' /\ OncePerInterface' /\ PickTrue'
  BY <1>3 DEF TodoTrue, ListTrue, OncePerInterface, PickTrue
<1>6. enum'.stayed \ enum'.refused = {}
  BY <1>3 DEF EnumInv, EnumType, EnumRecords
<1>7. Covered' /\ Beginning'
  BY <1>3, <1>6 DEF Covered, Beginning, Walking, WrongRoot
<1> QED
  BY <1>4, <1>5, <1>7 DEF EnumInv

\* A list of what is there, or of some of it.
LEMMA ListOfThere ==
  ASSUME EnumInv, NEW S \in SUBSET Enum!There, NEW todo \in Enum!SetToSeqs(S)
  PROVE  /\ todo \in Seq(Devices)
         /\ \A i, j \in 1..Len(todo) : todo[i].port = todo[j].port => i = j
         /\ \A i \in 1..Len(todo) :
              /\ todo[i] \in S
              /\ todo[i].unit # Enum!NoUnit /\ todo[i].unit = bus.at[todo[i].port]
         /\ \A d \in S : \E i \in 1..Len(todo) : todo[i] = d
PROOF
<1>1. IsFiniteSet(S)
  BY ThereFinite, FS_Subset
<1>2. /\ todo \in Seq(S)
      /\ \A i, j \in 1..Len(todo) : todo[i] = todo[j] => i = j
      /\ \A d \in S : \E i \in 1..Len(todo) : todo[i] = d
  BY <1>1, SeqOfSet
<1>3. \A d \in S : /\ d \in Devices /\ d.unit # Enum!NoUnit /\ d.unit = bus.at[d.port]
                  /\ d = [port |-> d.port, unit |-> bus.at[d.port]]
  BY DEF Enum!There, Enum!Present, Devices, EnumInv, EnumType, EnumRecords
<1>4. todo \in Seq(Devices) /\ \A i \in 1..Len(todo) : todo[i] \in S
  BY <1>2, <1>3
<1>5. \A i, j \in 1..Len(todo) : todo[i].port = todo[j].port => i = j
  <2>1. ASSUME NEW i \in 1..Len(todo), NEW j \in 1..Len(todo), todo[i].port = todo[j].port
        PROVE  i = j
    <3>1. todo[i] = todo[j]
      BY <1>3, <1>4, <2>1
    <3> QED
      BY <1>2, <3>1
  <2> QED
    BY <2>1
<1> QED
  BY <1>2, <1>3, <1>4, <1>5

\* On NetBSD, a walk over some of the places.
LEMMA WalkOf ==
  ASSUME NEW ports \in Seq(Ports), \A i, j \in 1..Len(ports) : ports[i] = ports[j] => i = j
  PROVE  LET todo == [i \in DOMAIN ports |-> [port |-> ports[i], unit |-> Enum!NoUnit]]
         IN  /\ todo \in Seq(Devices) /\ Len(todo) = Len(ports)
             /\ \A i \in 1..Len(ports) : todo[i].port = ports[i]
PROOF
<1> DEFINE e(i) == [port |-> ports[i], unit |-> Enum!NoUnit]
           todo == [i \in 1..Len(ports) |-> e(i)]
<1>1. Len(ports) \in Nat /\ DOMAIN ports = 1..Len(ports)
  OBVIOUS
<1>2. \A i \in 1..Len(ports) : e(i) \in Devices /\ e(i).port = ports[i]
  BY DEF Devices
<1> HIDE DEF e
<1>3. todo \in Seq(Devices) /\ Len(todo) = Len(ports)
      /\ \A i \in 1..Len(ports) : todo[i] = e(i)
  BY <1>1, <1>2
<1>4. \A i \in 1..Len(ports) : todo[i].port = ports[i]
  BY <1>2, <1>3
<1> QED
  BY <1>1, <1>3, <1>4 DEF e

LEMMA SnapshotLemma ==
  ASSUME EnumInv, Enum!Snapshot
  PROVE  EnumInv'
PROOF
<1>1. /\ enum.pc = "list" /\ ~Walking /\ UNCHANGED <<backend, bus>>
      /\ backend \in {"libusb", "mac", "windows", "linux", "netbsd"}
  BY BackendsAssumption DEF Enum!Snapshot, Walking, EnumInv, EnumType, EnumRecords
<1>2. enum.list = <<>> /\ enum.pass = 0
  BY <1>1 DEF EnumInv, Beginning
<1>3. enum.stayed \subseteq Ports
  BY DEF EnumInv, EnumType, EnumRecords
<1>4. ASSUME backend # "netbsd", NEW S \in SUBSET Enum!There, NEW todo \in Enum!SetToSeqs(S),
             enum' = [enum EXCEPT !.pc = "look", !.todo = todo],
             backend = "mac" => \A d \in S : Enum!Asked(d.unit.ids),
             \A d \in Enum!There : Enum!Asked(d.unit.ids) => d \in S
      PROVE  EnumInv'
  <2>1. /\ todo \in Seq(Devices)
        /\ \A i, j \in 1..Len(todo) : todo[i].port = todo[j].port => i = j
        /\ \A i \in 1..Len(todo) :
             /\ todo[i] \in S
             /\ todo[i].unit # Enum!NoUnit /\ todo[i].unit = bus.at[todo[i].port]
        /\ \A d \in S : \E i \in 1..Len(todo) : todo[i] = d
    BY <1>4, ListOfThere
  <2>2. ASSUME NEW q \in enum.stayed, bus.at[q] # Enum!NoUnit, Enum!Asked(bus.at[q].ids)
        PROVE  \E i \in 1..Len(todo) : todo[i].port = q
    <3>1. [port |-> q, unit |-> bus.at[q]] \in Enum!There
      BY <1>3, <2>2 DEF Enum!There, Enum!Present
    <3>2. [port |-> q, unit |-> bus.at[q]] \in S
      BY <1>4, <2>2, <3>1
    <3>3. PICK i \in 1..Len(todo) : todo[i] = [port |-> q, unit |-> bus.at[q]]
      BY <2>1, <3>2
    <3> QED
      BY <3>3
  <2>3. enum' = [enum EXCEPT !.pc = "look", !.pass = 0, !.todo = todo]
    BY <1>2, <1>4 DEF EnumInv, EnumType, EnumRecords
  <2>4. \A i \in 1..Len(todo) :
          /\ backend # "netbsd" => /\ todo[i].unit # Enum!NoUnit
                                   /\ todo[i].unit = bus.at[todo[i].port]
          /\ backend = "mac" => Enum!Asked(todo[i].unit.ids)
    BY <1>4, <2>1
  <2> DEFINE pass == 0
  <2>5. pass \in {0, 1} /\ enum' = [enum EXCEPT !.pc = "look", !.pass = pass, !.todo = todo]
    BY <2>3
  <2>6. /\ backend = "netbsd" /\ bus.root = 1 /\ pass = 0 => todo = <<>>
        /\ ~(backend = "netbsd" /\ bus.root = 1 /\ pass = 0) =>
             \A q \in enum.stayed \ enum.refused :
               bus.at[q] # Enum!NoUnit /\ Enum!Asked(bus.at[q].ids) =>
                 \E i \in 1..Len(todo) : todo[i].port = q
    BY <1>4, <2>2
  <2> HIDE DEF pass
  <2> QED
    BY <1>1, <1>2, <2>1, <2>4, <2>5, <2>6, WalkBegins
<1>5. CASE backend \in {"libusb", "linux"}
  <2>1. PICK todo \in Enum!SetToSeqs(Enum!There) :
          enum' = [enum EXCEPT !.pc = "look", !.todo = todo]
    BY <1>5 DEF Enum!Snapshot, Enum!DeviceList
  <2> QED
    BY <1>4, <1>5, <2>1
<1>6. CASE backend = "mac"
  <2> DEFINE S == {d \in Enum!There : Enum!Asked(d.unit.ids)}
  <2>1. PICK todo \in Enum!SetToSeqs(S) : enum' = [enum EXCEPT !.pc = "look", !.todo = todo]
    BY <1>6 DEF Enum!Snapshot, Enum!MacDevices
  <2>2. /\ S \in SUBSET Enum!There /\ \A d \in S : Enum!Asked(d.unit.ids)
        /\ \A d \in Enum!There : Enum!Asked(d.unit.ids) => d \in S
    OBVIOUS
  <2> HIDE DEF S
  <2> QED
    BY <1>4, <1>6, <2>1, <2>2
<1>7. CASE backend = "windows"
  <2>1. PICK todo \in Enum!SetToSeqs(Enum!There) : Enum!InterfaceList(todo)
    BY <1>7 DEF Enum!Snapshot
  <2>2. CASE enum' = [enum EXCEPT !.pc = "look", !.todo = todo]
    BY <1>4, <1>7, <2>2
  <2>3. CASE enum' = [enum EXCEPT !.pc = "size"]
    <3>1. EnumType'
      BY <1>1, <2>3 DEF EnumInv, EnumType, EnumRecords
    <3>2. NotYet'
      BY <1>1, <1>2, <2>3 DEF NotYet, EnumInv, EnumType, EnumRecords, Walking, Beginning
    <3> QED
      BY <3>1, <3>2, NotYetNext
  <2> QED
    BY <2>1, <2>2, <2>3 DEF Enum!InterfaceList
<1>8. CASE backend = "netbsd"
  <2> DEFINE S == IF bus.root = 0 THEN Ports ELSE {}
  <2>1. PICK ports \in Enum!SetToSeqs(S) : Enum!Walk(0, ports)
    BY <1>8 DEF Enum!Snapshot, Enum!FirstWalk
  <2>2. IsFiniteSet(S)
    BY EnumerateAssumption, FS_EmptySet
  <2>3. /\ ports \in Seq(S)
        /\ \A i, j \in 1..Len(ports) : ports[i] = ports[j] => i = j
        /\ \A q \in S : \E i \in 1..Len(ports) : ports[i] = q
    <3> HIDE DEF S
    <3> QED
      BY <2>2, SeqOfSet
  <2>4. ports \in Seq(Ports) /\ Len(ports) \in Nat
    BY <2>3
  <2> DEFINE todo == [i \in DOMAIN ports |-> [port |-> ports[i], unit |-> Enum!NoUnit]]
  <2>5. /\ todo \in Seq(Devices) /\ Len(todo) = Len(ports)
        /\ \A i \in 1..Len(ports) : todo[i].port = ports[i]
    BY <2>3, <2>4, WalkOf
  <2>6. bus.root # 0 => todo = <<>>
    BY <2>3, <2>5
  <2>7. enum' = [enum EXCEPT !.pc = "look", !.pass = 0, !.todo = todo]
    BY <2>1 DEF Enum!Walk
  <2>8. bus.root = 0 => \A q \in enum.stayed : \E i \in 1..Len(todo) : todo[i].port = q
    BY <1>3, <2>3, <2>5
  <2>9. /\ \A i, j \in 1..Len(todo) : todo[i].port = todo[j].port => i = j
        /\ bus.root \in {0, 1} /\ 0 \in {0, 1}
    BY <2>3, <2>5 DEF EnumInv, EnumType, EnumRecords
  <2> DEFINE pass == 0
  <2>10. /\ pass \in {0, 1} /\ enum' = [enum EXCEPT !.pc = "look", !.pass = pass, !.todo = todo]
         /\ \A i \in 1..Len(todo) :
              /\ backend # "netbsd" => /\ todo[i].unit # Enum!NoUnit
                                       /\ todo[i].unit = bus.at[todo[i].port]
              /\ backend = "mac" => Enum!Asked(todo[i].unit.ids)
    BY <1>8, <2>7
  <2>11. /\ backend = "netbsd" /\ bus.root = 1 /\ pass = 0 => todo = <<>>
         /\ ~(backend = "netbsd" /\ bus.root = 1 /\ pass = 0) =>
             \A q \in enum.stayed \ enum.refused :
               bus.at[q] # Enum!NoUnit /\ Enum!Asked(bus.at[q].ids) =>
                 \E i \in 1..Len(todo) : todo[i].port = q
    BY <1>8, <2>6, <2>8, <2>9
  <2> HIDE DEF todo, S, pass
  <2> QED
    BY <1>1, <1>2, <2>5, <2>9, <2>10, <2>11, WalkBegins
<1> QED
  BY <1>1, <1>5, <1>6, <1>7, <1>8

\* NetBSD: nothing was found at first, so nothing that was asked for is there all
\* the time, or the walk was not below a root hub and this one is.
LEMMA SecondWalkLemma ==
  ASSUME EnumInv, Enum!SecondWalk
  PROVE  EnumInv'
PROOF
<1>1. /\ enum.pc = "look" /\ Walking /\ enum.todo = <<>> /\ enum.list = <<>>
      /\ backend = "netbsd" /\ UNCHANGED <<backend, bus>> /\ enum.pass = 0
  BY DEF Enum!SecondWalk, Walking
<1>2. enum.stayed \subseteq Ports /\ bus.root \in {0, 1}
  BY DEF EnumInv, EnumType, EnumRecords
<1> DEFINE pass == 1
<1>3. ASSUME NEW ports \in Seq(Ports), Enum!Walk(1, ports),
             \A i, j \in 1..Len(ports) : ports[i] = ports[j] => i = j,
             \A q \in enum.stayed \ enum.refused :
               bus.at[q] # Enum!NoUnit /\ Enum!Asked(bus.at[q].ids) =>
                 \E i \in 1..Len(ports) : ports[i] = q
      PROVE  EnumInv'
  <2> DEFINE todo == [i \in DOMAIN ports |-> [port |-> ports[i], unit |-> Enum!NoUnit]]
  <2>1. /\ todo \in Seq(Devices) /\ Len(todo) = Len(ports)
        /\ \A i \in 1..Len(ports) : todo[i].port = ports[i]
    BY <1>3, WalkOf
  <2>2. enum' = [enum EXCEPT !.pc = "look", !.pass = pass, !.todo = todo]
    BY <1>3 DEF Enum!Walk
  <2> HIDE DEF todo
  <2>3. \A i, j \in 1..Len(todo) : todo[i].port = todo[j].port => i = j
    BY <1>3, <2>1
  <2>4. ~(backend = "netbsd" /\ bus.root = 1 /\ pass = 0) =>
             \A q \in enum.stayed \ enum.refused :
               bus.at[q] # Enum!NoUnit /\ Enum!Asked(bus.at[q].ids) =>
                 \E i \in 1..Len(todo) : todo[i].port = q
    BY <1>3, <2>1
  <2>5. /\ pass \in {0, 1}
        /\ backend = "netbsd" /\ bus.root = 1 /\ pass = 0 => todo = <<>>
        /\ \A i \in 1..Len(todo) :
             /\ backend # "netbsd" => /\ todo[i].unit # Enum!NoUnit
                                      /\ todo[i].unit = bus.at[todo[i].port]
             /\ backend = "mac" => Enum!Asked(todo[i].unit.ids)
    BY <1>1
  <2> HIDE DEF pass
  <2> QED
    BY <1>1, <2>1, <2>2, <2>3, <2>4, <2>5, WalkBegins
<1>4. CASE bus.root = 1
  <2>1. PICK ports \in Enum!SetToSeqs(Ports) : Enum!Walk(1, ports)
    BY <1>4 DEF Enum!SecondWalk
  <2>2. /\ ports \in Seq(Ports)
        /\ \A i, j \in 1..Len(ports) : ports[i] = ports[j] => i = j
        /\ \A q \in Ports : \E i \in 1..Len(ports) : ports[i] = q
    BY EnumerateAssumption, SeqOfSet
  <2> QED
    BY <1>2, <1>3, <2>1, <2>2
<1>5. CASE bus.root # 1
  <2>1. PICK p \in Ports : Enum!Walk(1, <<p>>)
    BY <1>5 DEF Enum!SecondWalk
  <2>2. ~WrongRoot
    BY <1>5 DEF WrongRoot
  <2>3. \A q : ~InTodo(q) /\ ~IsListed(q)
    <3>1. Len(enum.todo) = 0 /\ Len(enum.list) = 0
      BY <1>1
    <3> QED
      BY <3>1 DEF InTodo, IsListed
  <2>4. \A q \in enum.stayed \ enum.refused :
          ~(bus.at[q] # Enum!NoUnit /\ Enum!Asked(bus.at[q].ids))
    BY <1>1, <2>2, <2>3 DEF EnumInv, Covered
  <2>5. <<p>> \in Seq(Ports) /\ Len(<<p>>) = 1
    OBVIOUS
  <2>6. \A i, j \in 1..Len(<<p>>) : <<p>>[i] = <<p>>[j] => i = j
    BY <2>5
  <2> DEFINE ports == <<p>>
  <2> HIDE DEF ports
  <2>7. Enum!Walk(1, ports) /\ ports \in Seq(Ports)
        /\ \A i, j \in 1..Len(ports) : ports[i] = ports[j] => i = j
    BY <2>1, <2>5, <2>6 DEF ports
  <2> QED
    BY <1>3, <2>4, <2>7
<1> QED
  BY <1>4, <1>5

-----------------------------------------------------------------------------
(* Beginning and end of a call, and the bus *)

LEMMA OffType == Enum!Off \in EnumRecords
BY EmptySeq DEF EnumRecords, Enum!Off, Enum!Serials

LEMMA CallBegins ==
  ASSUME EnumInv, NEW any \in BOOLEAN, NEW want \in Enum!Serials,
         Enum!hid_enumerate(any, want)
  PROVE  EnumInv'
PROOF
<1>1. /\ enum' = [Enum!Off EXCEPT !.pc = IF backend = "windows" THEN "size" ELSE "list",
                                  !.any = any, !.want = want, !.stayed = Ports]
      /\ UNCHANGED <<backend, bus>> /\ enum.pc = "off"
  BY DEF Enum!hid_enumerate
<1>2. EnumType'
  <2>1. enum' \in EnumRecords
    BY <1>1, OffType DEF EnumRecords
  <2> QED
    BY <1>1, <2>1 DEF EnumInv, EnumType, EnumRecords
<1>3. NotYet'
  BY <1>1 DEF NotYet, Walking, Enum!Off
<1> QED
  BY <1>2, <1>3, NotYetNext

LEMMA ListSizeLemma ==
  ASSUME EnumInv, Enum!ListSize
  PROVE  EnumInv'
PROOF
<1>1. /\ enum' = [enum EXCEPT !.pc = "list", !.size = Cardinality(Enum!Present)]
      /\ UNCHANGED <<backend, bus>> /\ enum.pc = "size"
  BY DEF Enum!ListSize, Enum!Cardinality, Cardinality
<1>2. Cardinality(Enum!Present) \in Nat
  <2>1. IsFiniteSet(Enum!Present)
    BY EnumerateAssumption, FS_Subset DEF Enum!Present
  <2> QED
    BY <2>1, FS_CardinalityType
<1>3. EnumType'
  BY <1>1, <1>2 DEF EnumInv, EnumType, EnumRecords
<1>4. NotYet'
  BY <1>1 DEF EnumInv, EnumType, EnumRecords, Beginning, NotYet, Walking
<1> QED
  BY <1>3, <1>4, NotYetNext

LEMMA CallEnds ==
  ASSUME EnumInv, Enum!hid_free_enumeration \/ Enum!OpenPicked
  PROVE  EnumInv'
PROOF
<1>1. NotYet'
  BY DEF Enum!hid_free_enumeration, Enum!OpenPicked, Enum!Off, NotYet, Walking
<1>2. EnumType'
  <2>1. CASE Enum!hid_free_enumeration
    <3>1. enum' \in EnumRecords /\ UNCHANGED <<backend, bus>> /\ enum.pc # "over"
      BY <2>1, OffType DEF Enum!hid_free_enumeration
    <3> QED
      BY <3>1 DEF EnumInv, EnumType, EnumRecords
  <2>2. CASE Enum!OpenPicked
    <3>1. /\ enum' = [Enum!Off EXCEPT !.pc = "over"] /\ bus' = Enum!EmptyBus
          /\ backend' = backend
      BY <2>2 DEF Enum!OpenPicked
    <3>2. Enum!EmptyBus \in [at : [Ports -> Units \cup {Enum!NoUnit}], changes : Nat,
                             root : {0, 1}, items : Descriptors \cup {<<>>}]
      BY DEF Enum!EmptyBus
    <3>3. enum' \in EnumRecords /\ enum'.pc = "over"
      BY <3>1, OffType DEF EnumRecords
    <3> QED
      BY <3>1, <3>2, <3>3 DEF EnumInv, EnumType, EnumRecords
  <2> QED
    BY <2>1, <2>2
<1> QED
  BY <1>1, <1>2, NotYetNext

LEMMA ListCompleteLemma ==
  ASSUME EnumInv, Enum!ListComplete
  PROVE  EnumInv'
PROOF
<1> DEFINE fitting == {i \in DOMAIN enum.list : Enum!Fits(enum.list[i])}
           pick == IF enum.any \/ fitting = {} THEN Enum!None
                   ELSE enum.list[Enum!Min(fitting)]
<1>1. /\ enum.pc = "look" /\ Walking /\ ~Busy /\ enum.todo = <<>>
      /\ backend = "netbsd" => enum.pass = 1 \/ enum.list # <<>>
      /\ enum' = [enum EXCEPT !.pc = "complete", !.pick = pick]
      /\ UNCHANGED <<backend, bus>>
  BY DEF Enum!ListComplete, Walking, Busy
<1>2. enum.list \in Seq(Entries) /\ DOMAIN enum.list = 1..Len(enum.list)
  BY DEF EnumInv, EnumType, EnumRecords
<1>3. fitting # {} => Enum!Min(fitting) \in fitting
  <2>1. fitting \in SUBSET Nat
    BY <1>2
  <2> HIDE DEF fitting
  <2> QED
    BY <2>1, Least DEF Enum!Min
<1>4. /\ pick \in Entries \cup {Enum!None}
      /\ ~enum.any => IF fitting = {} THEN pick = Enum!None
                      ELSE \E i \in 1..Len(enum.list) :
                             pick = enum.list[i] /\ Enum!Fits(enum.list[i])
  <2>1. CASE enum.any \/ fitting = {}
    BY <2>1
  <2>2. CASE ~(enum.any \/ fitting = {})
    <3> DEFINE i == Enum!Min(fitting)
    <3>1. i \in 1..Len(enum.list) /\ Enum!Fits(enum.list[i]) /\ pick = enum.list[i]
      BY <1>2, <1>3, <2>2
    <3> HIDE DEF i, pick, fitting
    <3>2. enum.list[i] \in Entries
      BY <1>2, <3>1
    <3> QED
      BY <2>2, <3>1, <3>2
  <2> QED
    BY <2>1, <2>2
<1>5. ~enum.any /\ fitting # {} => pick # Enum!None
  <2>1. ~Enum!Fits(Enum!None)
    BY DEF Enum!Fits, Enum!None
  <2> HIDE DEF pick, fitting
  <2> QED
    BY <1>4, <2>1
<1> HIDE DEF pick
<1>6. /\ enum'.todo = <<>> /\ enum'.list = enum.list /\ enum'.pc = "complete"
      /\ enum'.any = enum.any /\ enum'.want = enum.want /\ enum'.pass = enum.pass
      /\ enum'.stayed = enum.stayed /\ enum'.pick = pick /\ ~Busy' /\ Walking'
      /\ enum'.refused = enum.refused /\ enum'.unnamed = enum.unnamed
      /\ Len(enum'.todo) = 0 /\ Len(enum.todo) = 0
  BY <1>1 DEF EnumInv, EnumType, EnumRecords, Busy, Walking
<1>7. EnumType'
  BY <1>1, <1>4 DEF EnumInv, EnumType, EnumRecords
<1>8. \A x : Enum!Asked(x)' <=> Enum!Asked(x)
  BY <1>6 DEF Enum!Asked
<1>9. TodoTrue' /\ ListTrue' /\ OncePerInterface'
  <2>1. TodoTrue'
    BY <1>6 DEF TodoTrue
  <2>2. ListTrue'
    <3>1. \A r, a, b : True(r, a, b)' <=> True(r, a, b)
      BY <1>1, <1>6, <1>8, ZenonT(40)
         DEF True, Enum!NoUnit, Enum!Null, Enum!Empty, Enum!Taken
    <3> QED
      BY <1>6, <3>1 DEF EnumInv, ListTrue
  <2>3. OncePerInterface'
    BY <1>1, <1>6 DEF EnumInv, OncePerInterface
  <2> QED
    BY <2>1, <2>2, <2>3
<1>10. ~WrongRoot /\ ~WrongRoot'
  BY <1>1, <1>6 DEF EnumInv, Beginning, WrongRoot
<1>11. Covered'
  <2>1. \A q, k : /\ InTodo(q)' <=> InTodo(q)
                  /\ IsListed(q)' <=> IsListed(q)
                  /\ IsListedAs(q, k)' <=> IsListedAs(q, k)
                  /\ Described(q, k)' <=> Described(q, k)
    BY <1>1, <1>6 DEF InTodo, IsListed, IsListedAs, Described
  <2> QED
    BY <1>1, <1>6, <1>8, <1>10, <2>1 DEF EnumInv, Covered, Enum!NoUnit, Enum!Taken
<1>12. Beginning'
  BY <1>6, <1>10 DEF Beginning
<1>13. PickTrue'
  <2>1. \A r : Enum!Fits(r)' <=> Enum!Fits(r)
    BY <1>6 DEF Enum!Fits
  <2>2. fitting = {} => \A i \in 1..Len(enum.list) : ~Enum!Fits(enum.list[i])
    BY <1>2
  <2> HIDE DEF fitting
  <2> QED
    BY <1>4, <1>5, <1>6, <2>1, <2>2 DEF PickTrue, Enum!None
<1> QED
  BY <1>7, <1>9, <1>11, <1>12, <1>13 DEF EnumInv

\* A place at which something happened is none of those that stayed.
LEMMA BusLemma ==
  ASSUME EnumInv, NEW p \in Ports, Enum!BusChanges(p)
  PROVE  EnumInv'
PROOF
<1>1. PICK u \in Units \cup {Enum!NoUnit} :
        bus' = [bus EXCEPT !.at[p] = u, !.changes = @ + 1]
  BY DEF Enum!BusChanges
<1>2. enum' = [enum EXCEPT !.stayed = @ \ {p}] /\ backend' = backend
  BY DEF Enum!BusChanges
<1>3. EnumType'
  <2>1. enum' \in EnumRecords /\ enum'.pc = enum.pc
    BY <1>2 DEF EnumInv, EnumType, EnumRecords
  <2>2. bus' \in [at : [Ports -> Units \cup {Enum!NoUnit}], changes : Nat, root : {0, 1},
                  items : Descriptors \cup {<<>>}] /\ bus'.items = bus.items
    <3> DEFINE at == [bus.at EXCEPT ![p] = u]
               changes == bus.changes + 1
    <3>1. bus' = [bus EXCEPT !.at = at, !.changes = changes]
      BY <1>1 DEF EnumInv, EnumType, EnumRecords
    <3>2. at \in [Ports -> Units \cup {Enum!NoUnit}] /\ changes \in Nat
      BY DEF EnumInv, EnumType, EnumRecords
    <3> HIDE DEF at, changes
    <3> QED
      BY <3>1, <3>2 DEF EnumInv, EnumType, EnumRecords
  <2> QED
    BY <1>2, <2>1, <2>2 DEF EnumInv, EnumType, EnumRecords
<1>4. /\ enum'.todo = enum.todo /\ enum'.list = enum.list /\ enum'.pc = enum.pc
      /\ enum'.any = enum.any /\ enum'.want = enum.want /\ enum'.pass = enum.pass
      /\ enum'.next = enum.next /\ enum'.pick = enum.pick /\ bus'.root = bus.root
      /\ enum'.stayed = enum.stayed \ {p}
      /\ enum'.refused = enum.refused /\ enum'.unnamed = enum.unnamed
  BY <1>1, <1>2 DEF EnumInv, EnumType, EnumRecords
<1>5. \A q \in enum'.stayed : q \in enum.stayed /\ bus'.at[q] = bus.at[q]
  BY <1>1, <1>4 DEF EnumInv, EnumType, EnumRecords
<1>6. /\ \A x : Enum!Asked(x)' <=> Enum!Asked(x)
      /\ \A r : Enum!Fits(r)' <=> Enum!Fits(r)
      /\ (Busy' <=> Busy) /\ (Walking' <=> Walking)
  BY <1>4 DEF Enum!Asked, Enum!Fits, Busy, Walking
<1>7. TodoTrue'
  BY <1>2, <1>4, <1>5, <1>6 DEF EnumInv, TodoTrue, Enum!NoUnit
<1>8. ListTrue'
  <2>1. ASSUME NEW r, True(r, enum.refused, enum.unnamed)
        PROVE  True(r, enum.refused, enum.unnamed)'
    <3> DEFINE q == r.path[1]
               v == bus.at[q]
               w == bus'.at[q]
    <3>1. q \in enum'.stayed => q \in enum.stayed /\ w = v
      BY <1>5
    <3>2. q \in enum'.stayed =>
            /\ v # Enum!NoUnit /\ Enum!Asked(v.ids)
            /\ r.ids = v.ids \/ (r.ids = "zero" /\ q \in enum.refused)
            /\ r.serial = v.serial
                 \/ (q \in enum.unnamed /\ r.serial \in {Enum!Null, Enum!Empty})
            /\ backend = "libusb" => /\ r.path[2] \in DOMAIN v.interfaces
                                     /\ Enum!Taken(v.interfaces[r.path[2]])
      BY <2>1, <3>1 DEF True
    <3> HIDE DEF q, v, w
    <3>3. q \in enum'.stayed =>
            /\ w # Enum!NoUnit /\ (enum'.any \/ w.ids = "asked")
            /\ r.ids = w.ids \/ (r.ids = "zero" /\ q \in enum'.refused)
            /\ r.serial = w.serial
                 \/ (q \in enum'.unnamed /\ r.serial \in {Enum!Null, Enum!Empty})
            /\ backend' = "libusb" => /\ r.path[2] \in DOMAIN w.interfaces
                                      /\ Enum!Taken(w.interfaces[r.path[2]])
      BY <1>2, <1>4, <3>1, <3>2 DEF Enum!Asked
    <3> QED
      BY <3>3, Zenon DEF q, w, True, Enum!Asked, Enum!NoUnit, Enum!Null, Enum!Empty, Enum!Taken
  <2> QED
    BY <1>4, <2>1 DEF EnumInv, ListTrue
<1>9. OncePerInterface'
  BY <1>2, <1>4, <1>6 DEF EnumInv, OncePerInterface
<1>10. WrongRoot' <=> WrongRoot
  BY <1>2, <1>4 DEF WrongRoot
<1>11. Covered'
  <2>1. \A q, k : /\ InTodo(q)' <=> InTodo(q)
                  /\ IsListed(q)' <=> IsListed(q)
                  /\ IsListedAs(q, k)' <=> IsListedAs(q, k)
                  /\ Described(q, k)' <=> Described(q, k)
    BY <1>4, <1>6 DEF InTodo, IsListed, IsListedAs, Described
  <2> QED
    BY <1>2, <1>4, <1>5, <1>6, <1>10, <2>1 DEF EnumInv, Covered, Enum!NoUnit, Enum!Taken
<1>12. Beginning'
  BY <1>4, <1>6, <1>10 DEF EnumInv, Beginning
<1>13. PickTrue'
  BY <1>4, <1>6 DEF EnumInv, PickTrue, Enum!None
<1> QED
  BY <1>3, <1>7, <1>8, <1>9, <1>11, <1>12, <1>13 DEF EnumInv

-----------------------------------------------------------------------------
(* The theorems *)

LEMMA EnumStep == EnumInv /\ [Next]_vars => EnumInv'
PROOF
<1> SUFFICES ASSUME EnumInv, [Next]_vars PROVE EnumInv'
  OBVIOUS
<1>1. ASSUME UNCHANGED <<backend, bus, enum>> PROVE EnumInv'
  <2>1. backend' = backend /\ bus' = bus /\ enum' = enum
    BY <1>1
  <2>2. EnumType'
    BY <2>1 DEF EnumInv, EnumType, EnumRecords
  <2>3. /\ \A x : (Enum!Asked(x)' <=> Enum!Asked(x)) /\ (Enum!Fits(x)' <=> Enum!Fits(x))
        /\ (Busy' <=> Busy) /\ (Walking' <=> Walking) /\ (WrongRoot' <=> WrongRoot)
    BY <2>1 DEF Enum!Asked, Enum!Fits, Busy, Walking, WrongRoot
  <2>4. TodoTrue' /\ ListTrue'
    BY <2>1, <2>3
       DEF EnumInv, TodoTrue, ListTrue, True, Enum!NoUnit, Enum!Null, Enum!Empty, Enum!Taken
  <2>5. OncePerInterface' /\ Beginning' /\ PickTrue'
    BY <2>1, <2>3 DEF EnumInv, OncePerInterface, Beginning, PickTrue, Enum!None
  <2>6. \A q, k : /\ InTodo(q)' <=> InTodo(q)
                  /\ IsListed(q)' <=> IsListed(q)
                  /\ IsListedAs(q, k)' <=> IsListedAs(q, k)
                  /\ Described(q, k)' <=> Described(q, k)
    BY <2>1, <2>3 DEF InTodo, IsListed, IsListedAs, Described
  <2>7. Covered'
    BY <2>1, <2>3, <2>6 DEF EnumInv, Covered, Enum!NoUnit, Enum!Taken
  <2> QED
    BY <2>2, <2>4, <2>5, <2>7 DEF EnumInv
<1>2. CASE UNCHANGED vars
  BY <1>1, <1>2 DEF vars
<1>3. CASE Session
  BY <1>1, <1>3 DEF Session, Outside
<1>4. CASE OpenFromList
  BY <1>4, CallEnds DEF OpenFromList
<1>5. CASE Enumeration
  <2>1. Enum!Next
    BY <1>5 DEF Enumeration
  <2>2. CASE Enum!hid_enumerate(TRUE, Enum!AnySerial)
    <3>1. TRUE \in BOOLEAN /\ Enum!AnySerial \in Enum!Serials
      BY DEF Enum!Serials
    <3> QED
      BY <2>2, <3>1, CallBegins
  <2>3. CASE \E want \in Enum!Serials : Enum!hid_enumerate(FALSE, want)
    BY <2>3, CallBegins
  <2>4. CASE Enum!ListSize \/ Enum!Snapshot \/ Enum!ListFails \/ Enum!Look
    BY <2>4, ListSizeLemma, SnapshotLemma, ListFailsLemma, LookLemma
  <2>5. CASE Enum!DescribeInterface \/ Enum!Describe \/ Enum!SecondWalk
    BY <2>5, InterfaceLemma, DescribeLemma, SecondWalkLemma
  <2>6. CASE Enum!ListComplete \/ Enum!hid_free_enumeration
    BY <2>6, ListCompleteLemma, CallEnds
  <2>7. CASE \E p \in Ports : Enum!BusChanges(p)
    BY <2>7, BusLemma
  <2> QED
    BY <2>1, <2>2, <2>3, <2>4, <2>5, <2>6, <2>7 DEF Enum!Next
<1> QED
  BY <1>2, <1>3, <1>4, <1>5 DEF Next

\* EnumInv holds of every behaviour of the five backends.
LEMMA EnumTheorem == Spec => []EnumInv
PROOF
<1>1. Init => EnumInv
  BY EnumInit
<1>2. EnumInv /\ [Next]_vars => EnumInv'
  BY EnumStep
<1> QED
  BY <1>1, <1>2, PTL DEF Spec

\* A device that stays on the bus through hid_enumerate, and that the system lets it
\* open and describe, is on the list if it was asked for, on libusb each of its
\* interfaces that is taken once; one that was not asked for is not on the list.
THEOREM ListIsCompleteTheorem == Spec => []ListIsComplete
PROOF
<1>1. ASSUME EnumInv, Enum!Complete, NEW p \in enum.stayed
      PROVE  LET unit == bus.at[p]
             IN  /\ unit = Enum!NoUnit \/ ~Enum!Asked(unit.ids) => Enum!Listed(p) = {}
                 /\ unit # Enum!NoUnit /\ Enum!Asked(unit.ids) /\ p \notin enum.refused =>
                      IF backend # "libusb" THEN Enum!Listed(p) # {}
                      ELSE /\ \A i, j \in Enum!Listed(p) :
                                enum.list[i].path = enum.list[j].path => i = j
                           /\ {enum.list[i].path : i \in Enum!Listed(p)} =
                                {<<p, k>> : k \in {l \in DOMAIN unit.interfaces :
                                                     Enum!Taken(unit.interfaces[l])}}
  <2> DEFINE unit == bus.at[p]
             asked == unit # Enum!NoUnit /\ Enum!Asked(unit.ids)
  <2>1. /\ enum.list \in Seq(Entries) /\ DOMAIN enum.list = 1..Len(enum.list)
        /\ enum.todo = <<>> /\ Walking /\ p \in Ports
    BY <1>1 DEF EnumInv, EnumType, EnumRecords, TodoTrue, Walking, Enum!Complete
  <2>2. Enum!Listed(p) = {i \in 1..Len(enum.list) : enum.list[i].path[1] = p}
    BY <2>1 DEF Enum!Listed
  <2>3. \A i \in Enum!Listed(p) :
          asked /\ (backend = "libusb" => /\ enum.list[i].path[2] \in DOMAIN unit.interfaces
                                          /\ Enum!Taken(unit.interfaces[enum.list[i].path[2]]))
    BY <1>1, <2>2 DEF EnumInv, ListTrue, True
  <2>4. ~InTodo(p) /\ ~WrongRoot
    <3>1. Len(enum.todo) = 0
      BY <2>1
    <3>2. enum.pc # "look"
      BY <1>1 DEF Enum!Complete
    <3> QED
      BY <1>1, <2>1, <3>1, <3>2 DEF InTodo, EnumInv, Beginning
  <2>5. CASE ~asked
    BY <2>3, <2>5
  <2>6. CASE asked /\ p \notin enum.refused /\ backend # "libusb"
    <3>1. IsListed(p)
      BY <1>1, <2>1, <2>4, <2>6 DEF EnumInv, Covered
    <3> QED
      BY <2>2, <2>6, <3>1 DEF IsListed
  <2>7. CASE asked /\ p \notin enum.refused /\ backend = "libusb"
    <3> DEFINE taken == {l \in DOMAIN unit.interfaces : Enum!Taken(unit.interfaces[l])}
    <3>1. \A i, j \in Enum!Listed(p) : enum.list[i].path = enum.list[j].path => i = j
      BY <1>1, <2>2, <2>7 DEF EnumInv, OncePerInterface
    <3>2. \A i \in Enum!Listed(p) :
            /\ enum.list[i].path[2] \in taken
            /\ enum.list[i].path = <<p, enum.list[i].path[2]>>
      <4>1. \A i \in Enum!Listed(p) : enum.list[i] \in Entries /\ enum.list[i].path[1] = p
        BY <2>1, <2>2
      <4>2. \A i \in Enum!Listed(p) : enum.list[i].path = <<p, enum.list[i].path[2]>>
        BY <4>1 DEF Entries
      <4> QED
        BY <2>3, <2>7, <4>2
    <3>3. \A k \in taken : \E i \in Enum!Listed(p) : enum.list[i].path = <<p, k>>
      <4>1. SUFFICES ASSUME NEW k \in taken
                     PROVE  \E i \in Enum!Listed(p) : enum.list[i].path = <<p, k>>
        OBVIOUS
      <4>2. IsListedAs(p, k)
        BY <1>1, <2>1, <2>4, <2>7 DEF EnumInv, Covered, Described
      <4>3. PICK i \in 1..Len(enum.list) : enum.list[i].path = <<p, k>>
        BY <4>2 DEF IsListedAs
      <4> QED
        BY <2>2, <4>3
    <3> HIDE DEF taken
    <3>4. {enum.list[i].path : i \in Enum!Listed(p)} = {<<p, k>> : k \in taken}
      <4>1. ASSUME NEW i \in Enum!Listed(p) PROVE enum.list[i].path \in {<<p, k>> : k \in taken}
        BY <3>2
      <4>2. ASSUME NEW k \in taken PROVE <<p, k>> \in {enum.list[i].path : i \in Enum!Listed(p)}
        <5>1. PICK i \in Enum!Listed(p) : enum.list[i].path = <<p, k>>
          BY <3>3
        <5> QED
          BY <5>1
      <4> QED
        BY <4>1, <4>2
    <3> QED
      BY <2>7, <3>1, <3>4 DEF taken
  <2>8. CASE asked /\ p \in enum.refused
    BY <2>8
  <2> QED
    BY <2>5, <2>6, <2>7, <2>8
<1>2. EnumInv => ListIsComplete
  BY <1>1 DEF ListIsComplete, Enum!ListIsComplete
<1> QED
  BY <1>2, EnumTheorem, PTL

\* The path hid_open opens is that of a device asked for, unless something happened
\* at that place since the call began; and it finds such a device if one stays that
\* the system lets be opened and described, its serial number included if one was
\* asked for.
THEOREM OpensWhatWasAskedTheorem == Spec => []OpensWhatWasAsked
PROOF
<1> DEFINE asked(p) == /\ bus.at[p].ids = "asked"
                       /\ backend = "libusb" =>
                            \E k \in DOMAIN bus.at[p].interfaces :
                              Enum!Taken(bus.at[p].interfaces[k])
                       /\ \/ enum.want \in {Enum!AnySerial, bus.at[p].serial}
                          \/ enum.want = Enum!Empty /\ p \in enum.unnamed
           unread(p) == enum.want # Enum!AnySerial /\ p \in enum.unnamed
<1>1. ASSUME EnumInv, Enum!Complete, ~enum.any
      PROVE  /\ enum.pick # Enum!None /\ enum.pick.path[1] \in enum.stayed =>
                  asked(enum.pick.path[1])
             /\ enum.pick = Enum!None =>
                  \A p \in enum.stayed \ enum.refused : asked(p) => unread(p)
  <2>1. /\ enum.todo = <<>> /\ Walking /\ enum.pc = "complete" /\ enum.stayed \subseteq Ports
        /\ enum.want \in Enum!Serials
    BY <1>1 DEF EnumInv, EnumType, EnumRecords, TodoTrue, Walking, Enum!Complete
  <2>2. enum.want # Enum!Null
    BY <2>1, EnumerateAssumption DEF Enum!Serials, Enum!AnySerial, Enum!Null
  <2>3. ASSUME enum.pick # Enum!None, enum.pick.path[1] \in enum.stayed
        PROVE  asked(enum.pick.path[1])
    <3>1. PICK i \in 1..Len(enum.list) : enum.pick = enum.list[i] /\ Enum!Fits(enum.list[i])
      BY <1>1, <2>1, <2>3 DEF EnumInv, PickTrue
    <3> DEFINE r == enum.list[i]
               u == bus.at[r.path[1]]
    <3>2. /\ r.ids = u.ids \/ r.ids = "zero"
          /\ r.serial = u.serial
               \/ (r.path[1] \in enum.unnamed /\ r.serial \in {Enum!Null, Enum!Empty})
          /\ backend = "libusb" => \E k \in DOMAIN u.interfaces : Enum!Taken(u.interfaces[k])
      BY <1>1, <2>3, <3>1 DEF EnumInv, ListTrue, True
    <3> QED
      BY <2>2, <3>1, <3>2 DEF Enum!Fits
  <2>4. ASSUME enum.pick = Enum!None, NEW p \in enum.stayed \ enum.refused, asked(p), ~unread(p)
        PROVE  FALSE
    <3>1. bus.at[p] # Enum!NoUnit /\ Enum!Asked(bus.at[p].ids)
      BY <2>4 DEF Enum!Asked, Enum!NoUnit
    <3>2. ~InTodo(p) /\ ~WrongRoot
      <4>1. Len(enum.todo) = 0
        BY <2>1
      <4> QED
        BY <1>1, <2>1, <4>1 DEF InTodo, EnumInv, Beginning
    <3>3. \E i \in 1..Len(enum.list) : enum.list[i].path[1] = p
      <4>1. CASE backend # "libusb"
        BY <1>1, <2>1, <2>4, <3>1, <3>2, <4>1 DEF EnumInv, Covered, IsListed
      <4>2. CASE backend = "libusb"
        <5>1. PICK k \in DOMAIN bus.at[p].interfaces : Enum!Taken(bus.at[p].interfaces[k])
          BY <2>4, <4>2
        <5>2. IsListedAs(p, k)
          BY <1>1, <2>1, <2>4, <3>1, <3>2, <4>2, <5>1 DEF EnumInv, Covered, Described
        <5> QED
          BY <5>2 DEF IsListedAs
      <4> QED
        BY <4>1, <4>2
    <3>4. PICK i \in 1..Len(enum.list) : enum.list[i].path[1] = p
      BY <3>3
    <3>5. /\ enum.list[i].ids = bus.at[p].ids
          /\ enum.list[i].serial = bus.at[p].serial \/ p \in enum.unnamed
      BY <1>1, <2>4, <3>4 DEF EnumInv, ListTrue, True
    <3>6. Enum!Fits(enum.list[i])
      BY <2>4, <3>5 DEF Enum!Fits
    <3> QED
      BY <1>1, <2>1, <2>4, <3>6 DEF EnumInv, PickTrue
  <2> QED
    BY <2>3, <2>4
<1>2. EnumInv => OpensWhatWasAsked
  BY <1>1 DEF OpensWhatWasAsked, Enum!OpensWhatWasAsked
<1> QED
  BY <1>2, EnumTheorem, PTL
=============================================================================
