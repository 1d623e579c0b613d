---------------------------- MODULE HidEnumerate -----------------------------
(***************************************************************************)
(* hid_enumerate and hid_open of the five backends: a snapshot of what is  *)
(* on the bus, a look at each device in turn while devices come and go,    *)
(* the list, and the choice from it of a path to open.                     *)
(***************************************************************************)
EXTENDS HidUsage, FiniteSets

CONSTANTS Ports,       \* places on the bus
          Units,       \* devices: [ids, serial, interfaces], as in NoUnit
          Descriptors, \* report descriptors, each a sequence of items
          MaxChanges   \* bound: comings and goings during a call

\* bus is [at: the unit at each port, changes, root: the address of the root hub
\* (NetBSD), items: the report descriptor of every unit]; enum is [pc, any: a
\* call of hid_enumerate(0, 0), want: the serial number hid_open looks for,
\* todo: what is still to be looked at, next: the interface that is next of the
\* device looked at (libusb), size: the length of the list of interfaces
\* (Windows), pass: the address of the walk (NetBSD), list: the records made,
\* pick: the one to open, stayed: ports nothing happened at, refused: ports whose
\* device could not be opened or described, unnamed: ports with a record that
\* lacks the serial number of the device].
VARIABLES backend, bus, enum

enumVars == <<backend, bus, enum>>

Empty == ""  \* a serial number of no characters

\* ids: what was asked for, or other ones; interfaces: for each interface, which
\* of its altsettings should_enumerate_interface takes.
NoUnit == [ids |-> "no_unit", serial |-> Empty, interfaces |-> <<>>]
Null == "null"   \* the serial of a record without one
AnySerial == "any"
Serials == {u.serial : u \in Units} \cup {AnySerial}
None == [path |-> <<>>, ids |-> "none", serial |-> Null, pair |-> NoPair]
Off == [pc |-> "off", any |-> FALSE, want |-> AnySerial, todo |-> <<>>, next |-> 1,
        size |-> 0, pass |-> 0, list |-> <<>>, pick |-> None, stayed |-> {},
        refused |-> {}, unnamed |-> {}]

Present == {p \in Ports : bus.at[p] # NoUnit}
Descriptor == FlattenSeq(bus.items)
Enumerating == enum.pc \notin {"off", "over"}

EmptyBus == [at |-> [p \in Ports |-> NoUnit], changes |-> 0, root |-> 0, items |-> <<>>]

\* Every unit is on the bus at most once.
Buses ==
  [at : {at \in [Ports -> Units \cup {NoUnit}] :
           \A p, q \in Ports : p # q /\ at[p] = at[q] => at[p] = NoUnit},
   changes : {0}, root : IF backend = "netbsd" THEN 0..1 ELSE {0}, items : Descriptors]
Init == bus \in Buses /\ enum = Off

-----------------------------------------------------------------------------
(* The snapshot *)

\* hid_enumerate(0, 0), or hid_open with a serial number or without.
hid_enumerate(any, want) ==
  /\ enum.pc = "off"
  /\ enum' = [Off EXCEPT !.pc = IF backend = "windows" THEN "size" ELSE "list",
                         !.any = any, !.want = want, !.stayed = Ports]
  /\ UNCHANGED <<backend, bus>>

\* CM_Get_Device_Interface_List_SizeW
ListSize ==
  /\ enum.pc = "size"
  /\ enum' = [enum EXCEPT !.pc = "list", !.size = Cardinality(Present)]
  /\ UNCHANGED <<backend, bus>>

\* A plausible bug: the list that has grown is not fetched again.
ListOnce(todo) == enum' = [enum EXCEPT !.pc = "look",
                                       !.todo = IF Cardinality(Present) > enum.size
                                                THEN <<>> ELSE todo]

\* CM_Get_Device_Interface_ListW: CR_BUFFER_SMALL when the list has grown.
InterfaceList(todo) ==
  enum' = IF Cardinality(Present) > enum.size
          THEN [enum EXCEPT !.pc = "size"]
          ELSE [enum EXCEPT !.pc = "look", !.todo = todo]

Asked(ids) == enum.any \/ ids = "asked"

\* What is there, which the system lists in an order of its own: libusb the
\* devices, udev the sysfs nodes, Windows the interfaces.
There == {[port |-> p, unit |-> bus.at[p]] : p \in Present}
DeviceList == \E todo \in SetToSeqs(There) : enum' = [enum EXCEPT !.pc = "look", !.todo = todo]

\* IOHIDManagerCopyDevices: the set of those that match.
MacDevices ==
  \E todo \in SetToSeqs({d \in There : Asked(d.unit.ids)}) :
    enum' = [enum EXCEPT !.pc = "look", !.todo = todo]

\* NetBSD has no snapshot: it walks the live tree below a root hub, in whose
\* hubs a port may have any place.
Walk(pass, ports) ==
  enum' = [enum EXCEPT !.pc = "look", !.pass = pass,
                       !.todo = [i \in DOMAIN ports |-> [port |-> ports[i], unit |-> NoUnit]]]

\* The first walk, from address 0, which is a root hub for xhci alone.
FirstWalk == \E ports \in SetToSeqs(IF bus.root = 0 THEN Ports ELSE {}) : Walk(0, ports)

Snapshot ==
  /\ enum.pc = "list"
  /\ CASE backend = "windows" -> \E todo \in SetToSeqs(There) : InterfaceList(todo)
       [] backend = "mac" -> MacDevices
       [] backend = "netbsd" -> FirstWalk
       [] OTHER -> DeviceList
  /\ UNCHANGED <<backend, bus>>

\* No list at all: CM_Get_Device_Interface_List(_Size) or udev_new fails, libusb
\* or the HID manager has none, or /dev/drvctl or the node of the USB controller
\* cannot be opened.
ListFails ==
  /\ enum.pc \in {"size", "list"}
  /\ enum' = [enum EXCEPT !.pc = "look", !.pass = 1, !.refused = Ports]
  /\ UNCHANGED <<backend, bus>>

-----------------------------------------------------------------------------
(* Looking at each device *)

Next1 == Head(enum.todo)
Gone == bus.at[Next1.port] # Next1.unit
Skip == enum' = [enum EXCEPT !.todo = Tail(@), !.pc = "look"]

\* The device does not open (CreateFile), or has no ids or no descriptor for who
\* asks (HidD_GetAttributes, USB_DEVICEINFO, the uevent file, udev's node, libusb's
\* descriptors): hid_enumerate goes on with the next one and reports nothing.
PassOver ==
  enum' = [enum EXCEPT !.todo = Tail(@), !.pc = "look",
                       !.refused = @ \cup {Next1.port}]

\* The ids of the device, and whether they are the ones asked for.  libusb has
\* them for a device that is gone; on macOS the set holds no others.
Look ==
  /\ enum.pc = "look" /\ enum.todo # <<>>
  /\ LET unit == IF backend = "netbsd" THEN bus.at[Next1.port] ELSE Next1.unit
         asked == backend = "mac" \/ Asked(unit.ids)
     IN  \/ /\ unit = NoUnit \/ ~asked
            /\ Skip
         \/ /\ unit # NoUnit /\ backend # "mac"
            /\ PassOver
         \/ /\ unit # NoUnit /\ asked
            /\ ~(backend \in {"linux", "windows"} /\ Gone)
            /\ enum' = [enum EXCEPT !.pc = "describe", !.todo[1].unit = unit, !.next = 1]
  /\ UNCHANGED <<backend, bus>>

Record(i, ids, serial, pair) ==
  [path |-> <<Next1.port, i>>, ids |-> ids, serial |-> serial, pair |-> pair]
Records(ids, serial, pairs) ==
  [i \in 1..Len(pairs) |-> Record(0, ids, serial, pairs[i])]

\* should_enumerate_interface takes one of its altsettings.
Taken(interface) == TRUE \in Range(interface)

\* The ports, with that of the device looked at if its records lack something:
\* the ids, or all; the serial number.
Refused(records) ==
  enum.refused \cup {p \in {Next1.port} :
    records = <<>> \/ \E r \in Range(records) : r.ids # Next1.unit.ids}
Unnamed(records) ==
  enum.unnamed \cup {p \in {Next1.port} :
    \E r \in Range(records) : r.serial # Next1.unit.serial}

\* create_device_info_for_device of libusb.  Without a handle (the device is gone,
\* or not for this user) the record has no strings.
LibusbRecord(serial) ==
  Record(enum.next, Next1.unit.ids, IF serial = Empty THEN Null ELSE serial, NoPair)
LibusbDescriptions ==
  {<<LibusbRecord(Null)>>} \cup (IF Gone THEN {} ELSE {<<LibusbRecord(Next1.unit.serial)>>})

\* libusb: the next interface, for which the device is opened; it has one record,
\* for the first altsetting taken, or none.
DescribeInterface ==
  /\ enum.pc = "describe" /\ backend = "libusb"
  /\ IF enum.next > Len(Next1.unit.interfaces) THEN Skip
     ELSE \E records \in IF Taken(Next1.unit.interfaces[enum.next])
                         THEN LibusbDescriptions ELSE {<<>>} :
            enum' = [enum EXCEPT !.next = @ + 1, !.list = @ \o records,
                                 !.unnamed = Unnamed(records)]
  /\ UNCHANGED <<backend, bus>>

\* The records of all backends but libusb, with these usages, and without any.
WithUsages(pairs) == Records(Next1.unit.ids, Next1.unit.serial, pairs)
Bare == WithUsages(<<NoPair>>)

\* The report descriptor may not be readable; on Linux the uevent file may lack a
\* name or a serial number, which makes no record.
LinuxDescriptions ==
  {<<>>, Bare} \cup (IF Gone THEN {} ELSE {WithUsages(UsagePairs(Descriptor))})
NetbsdDescriptions ==
  {Bare, <<>>} \cup (IF Gone THEN {} ELSE {WithUsages(UsagePairs(Descriptor))})

\* create_device_info of macOS: the primary usage first, then the others.
PrimaryFirst(pairs) ==
  <<Head(pairs)>> \o SelectSeq(Tail(pairs), LAMBDA p : p # Head(pairs))
MacDescriptions ==
  {WithUsages(PrimaryFirst(Declared(bus.items)))}
  \cup (IF Gone THEN {Records("zero", Empty, <<NoPair>>)} ELSE {})

\* hid_internal_get_device_info: HidD_GetAttributes, HidP_GetCaps, which has one
\* usage, and HidD_GetSerialNumberString may each fail and leave zeros.
WindowsDescriptions ==
  LET unit == Next1.unit
  IN  {Records(ids, serial, <<pair>>) :
         ids \in {unit.ids, "zero"}, serial \in {unit.serial, Empty},
         pair \in {Head(Declared(bus.items)), NoPair}}

\* What the backends but libusb read of a descriptor.
UsagesRead(items) ==
  {UsagePairs(FlattenSeq(items)), PrimaryFirst(Declared(items)), <<Head(Declared(items))>>}

\* The records that can come of the device looked at, but on libusb.
Descriptions ==
  CASE backend = "linux" -> LinuxDescriptions
    [] backend = "netbsd" -> NetbsdDescriptions
    [] backend = "mac" -> MacDescriptions
    [] backend = "windows" -> WindowsDescriptions

Describe ==
  /\ enum.pc = "describe" /\ backend # "libusb"
  /\ \E records \in Descriptions :
       enum' = [enum EXCEPT !.pc = "look", !.todo = Tail(@), !.list = @ \o records,
                            !.refused = Refused(records), !.unnamed = Unnamed(records)]
  /\ UNCHANGED <<backend, bus>>

\* NetBSD: nothing found below address 0, so the walk from address 1: the root
\* hub of most controllers, some device of the others.
SecondWalk ==
  /\ enum.pc = "look" /\ enum.todo = <<>>
  /\ backend = "netbsd" /\ enum.pass = 0 /\ enum.list = <<>>
  /\ \E ports \in IF bus.root = 1 THEN SetToSeqs(Ports) ELSE {<<p>> : p \in Ports} :
       Walk(1, ports)
  /\ UNCHANGED <<backend, bus>>

-----------------------------------------------------------------------------
(* The choice *)

\* A plausible bug: the serial number asked for is compared up to the first
\* record that has one.
FitsAny(r) == r.ids = "asked" /\ r.serial # Null

\* hid_open takes the first record with the ids and the serial number asked for.
Fits(r) ==
  /\ r.ids = "asked"
  /\ enum.want = AnySerial \/ r.serial = enum.want

\* The list is complete: hid_enumerate returns it and the caller frees it;
\* hid_open chooses, and frees it when the device is open (on NetBSD before).
ListComplete ==
  /\ enum.pc = "look" /\ enum.todo = <<>>
  /\ backend = "netbsd" => enum.pass = 1 \/ enum.list # <<>>
  /\ LET fitting == {i \in DOMAIN enum.list : Fits(enum.list[i])}
     IN enum' = [enum EXCEPT !.pc = "complete",
                             !.pick = IF enum.any \/ fitting = {} THEN None
                                      ELSE enum.list[Min(fitting)]]
  /\ UNCHANGED <<backend, bus>>

\* hid_free_enumeration: there is nothing to open, or it could not be opened.
hid_free_enumeration ==
  /\ enum.pc = "complete"
  /\ enum' = Off
  /\ UNCHANGED <<backend, bus>>

\* hid_open_path with the path of the record.  From here on the device is what
\* plugged of HidApi says; the rest of the bus is not looked at again.
OpenPicked ==
  /\ enum.pc = "complete" /\ enum.pick # None
  /\ bus.at[enum.pick.path[1]] # NoUnit
  /\ enum' = [Off EXCEPT !.pc = "over"]
  /\ bus' = EmptyBus
  /\ UNCHANGED backend

\* A unit comes or goes; a port that is left and taken counts twice.
BusChanges(p) ==
  /\ Enumerating /\ bus.changes < MaxChanges
  /\ \E u \in Units \cup {NoUnit} :
       /\ (u = NoUnit) # (bus.at[p] = NoUnit)
       /\ \A q \in Present : bus.at[q] # u
       /\ bus' = [bus EXCEPT !.at[p] = u, !.changes = @ + 1]
  /\ enum' = [enum EXCEPT !.stayed = @ \ {p}]
  /\ UNCHANGED backend

Next ==
  \/ hid_enumerate(TRUE, AnySerial)
  \/ \E want \in Serials : hid_enumerate(FALSE, want)
  \/ ListSize \/ Snapshot \/ ListFails \/ Look \/ DescribeInterface \/ Describe \/ SecondWalk
  \/ ListComplete \/ hid_free_enumeration
  \/ \E p \in Ports : BusChanges(p)

-----------------------------------------------------------------------------
(* Properties *)

Listed(p) == {i \in DOMAIN enum.list : enum.list[i].path[1] = p}
Complete == enum.pc = "complete"

\* Whatever comes and goes elsewhere meanwhile, a device that is on the bus from
\* the beginning of hid_enumerate to its end, and that the system has let it open
\* and describe, is on the list if it has the ids asked for, on libusb once for
\* each of its interfaces that is taken; and no device is that has others.
ListIsComplete ==
  Complete => \A p \in enum.stayed :
    LET unit == bus.at[p]
    IN  /\ unit = NoUnit \/ ~Asked(unit.ids) => Listed(p) = {}
        /\ unit # NoUnit /\ Asked(unit.ids) /\ p \notin enum.refused =>
             IF backend # "libusb" THEN Listed(p) # {}
             ELSE /\ \A i, j \in Listed(p) :
                       enum.list[i].path = enum.list[j].path => i = j
                  /\ {enum.list[i].path : i \in Listed(p)} =
                       {<<p, k>> : k \in {l \in DOMAIN unit.interfaces :
                                            Taken(unit.interfaces[l])}}

\* hid_open opens a device with the ids and the serial number asked for (on libusb
\* one with an interface that is taken), unless the device at the path has changed
\* since the call began; a serial number that could not be read passes for an empty
\* one.  And with such a device on the bus all the time it finds one, if the system
\* has let it open and describe that device, its serial number included when there
\* is one to look for.
OpensWhatWasAsked ==
  LET asked(p) == /\ bus.at[p].ids = "asked"
                  /\ backend = "libusb" =>
                       \E k \in DOMAIN bus.at[p].interfaces : Taken(bus.at[p].interfaces[k])
                  /\ \/ enum.want \in {AnySerial, bus.at[p].serial}
                     \/ enum.want = Empty /\ p \in enum.unnamed
      unread(p) == enum.want # AnySerial /\ p \in enum.unnamed
  IN  Complete /\ ~enum.any =>
        /\ enum.pick # None /\ enum.pick.path[1] \in enum.stayed =>
             asked(enum.pick.path[1])
        /\ enum.pick = None =>
             \A p \in enum.stayed \ enum.refused : asked(p) => unread(p)

\* For every descriptor that declares one usage for each collection that is in
\* no other, the records of a device that stays bear just these usages, in order,
\* on Linux and NetBSD, or 0 and 0 if it could not be read, and hid_get_device_info
\* of libusb gives the first.  A descriptor cut off inside a collection gives the
\* usages before it.
UsagesAsDeclared ==
  Complete /\ Plain(bus.items) =>
    /\ backend \in {"linux", "netbsd"} =>
         \A p \in enum.stayed :
           LET records == SelectSeq(enum.list, LAMBDA r : r.path[1] = p)
               pairs == [i \in DOMAIN records |-> records[i].pair]
           IN  pairs \in {<<>>, <<NoPair>>, Declared(bus.items)}
    /\ backend = "libusb" => GetUsage(Descriptor) = Head(Declared(bus.items))
    /\ Len(bus.items) > 0 /\ bus.items[Len(bus.items)] = EndCollection =>
         LET whole == Declared(bus.items)
             cut == UsagePairs(Front(Descriptor))
         IN  IF Len(whole) = 1 THEN cut = <<NoPair>> ELSE cut = Front(whole)
=============================================================================
