----------------------------- MODULE UsbPrinters -----------------------------
(***************************************************************************)
(* Which device a saved USB printer is.  A table of printers.toml names    *)
(* descriptors that survive a reconnection, and `printers add`,            *)
(* `printers discover`, `printers list` and the print operation each match *)
(* them in a way of their own with the devices plugged in, which come and  *)
(* go between the questions of `printers add` (add/cli.rs, inventory.rs,   *)
(* printing/mod.rs).                                                       *)
(***************************************************************************)
EXTENDS Naturals, SequencesExt

CONSTANTS
  Device,     \* the USB printers there are
  IdentityOf, \* the model (vendor and product) and serial number of each
  RoutesOf,   \* the [interface, endpoint] pairs that devices of a model print by
  Restricted, \* the devices a user may not open without a rule of udev for printers
  Ports,      \* bus and address, as numbers in their order
  Aliases,    \* names of printers, in their order on the screen
  Commands,   \* the arguments `printers add` is given
  MaxMoves    \* bound: devices plugged in or unplugged

NoSerial == "no serial number"
Unplugged == 0
InterfaceNumbers == 256
ASSUME DeviceAssumption == IsFiniteSet(Device)
ASSUME RoutesAssumption ==
  \A d \in Device : \A r \in RoutesOf[IdentityOf[d].model] :
    r = [interface |-> r.interface, endpoint |-> r.endpoint] /\ r.interface \in 0..(InterfaceNumbers - 1)
ASSUME PortsAssumption == Ports \subseteq Nat \ {Unplugged}
ASSUME RestrictionAssumption == Restricted \subseteq Device
ASSUME MovesAssumption == MaxMoves \in Nat

VARIABLES
  ports,    \* where each device is plugged in
  moves,
  rule,     \* the file of udev rules that escpost writes
  denied,   \* the devices this user may not open now
  tables,   \* printers.toml: the tables of USB and network printers
  adding,   \* the `printers add` command: what it has, and what it asks for (choosing
            \* a transport, addressing a host, selecting a device, naming the printer)
  transfer, \* the job on its way to a device
  chosen    \* history: the device each name was registered for

usbVars == <<ports, moves, rule, denied, tables, adding, transfer, chosen>>

-----------------------------------------------------------------------------
(* Tables and devices.                                                     *)

Networked == [transport |-> "network"]
UsbRoute(device, route) ==
  [ transport |-> "usb", model |-> IdentityOf[device].model, serial |-> IdentityOf[device].serial,
    interface |-> route.interface, endpoint |-> route.endpoint ]
TableOf(name, connection) == [name |-> name, connection |-> connection]
UsbTables(saved) == {t \in saved : t.connection.transport = "usb"}
IsTaken(name, saved) == \E t \in saved : t.name = name

Plugged == {d \in Device : ports[d] # Unplugged}
Routes(device) == RoutesOf[IdentityOf[device].model]
\* A printer is an interface of a device, with all its OUT endpoints.
PrintersOf(devices) == UNION {{[device |-> d, interface |-> r.interface] : r \in Routes(d)} : d \in devices}

IdentityMatches(device, table) ==
  /\ table.connection.model = IdentityOf[device].model
  /\ table.connection.serial \in {NoSerial, IdentityOf[device].serial}
ConfigurationMatches(printer, table) ==
  /\ IdentityMatches(printer.device, table)
  /\ table.connection.interface = printer.interface
  /\ [interface |-> printer.interface, endpoint |-> table.connection.endpoint] \in Routes(printer.device)

-----------------------------------------------------------------------------
(* `printers discover` and `printers list`: the first device on the bus    *)
(* claims every table that matches it, and bears the first name of those   *)
(* that were free.                                                         *)

Untouched(all) == [left |-> all, claimed |-> {}, shown |-> {}]
NameOrder(name) == CHOOSE i \in DOMAIN Aliases : Aliases[i] = name
FirstByName(some) == CHOOSE t \in some : \A u \in some : NameOrder(t.name) <= NameOrder(u.name)
ClaimFirst(s, one, matching) ==
  LET first == IF matching \subseteq s.claimed THEN {} ELSE {FirstByName(matching \ s.claimed)}
  IN  [ left |-> s.left \ {one}, claimed |-> s.claimed \union first,
        shown |-> s.shown \union {[one |-> one, table |-> t] : t \in first} ]
Claim(s, one, matching) ==
  [ left |-> s.left \ {one},
    claimed |-> s.claimed \union matching,
    shown |-> s.shown \union
                IF matching \subseteq s.claimed THEN {}
                ELSE {[one |-> one, table |-> FirstByName(matching \ s.claimed)]} ]

First(left, place) == CHOOSE one \in left : \A other \in left : place[one] <= place[other]
\* One after the other, each with the tables that match it.
InTurn(matching, place) ==
  LET all == DOMAIN matching
      after[n \in 0..Cardinality(all)] ==
        IF n = 0 THEN Untouched(all)
        ELSE LET s == after[n - 1]
                 one == First(s.left, place)
             IN  Claim(s, one, matching[one])
  IN  after[Cardinality(all)]

\* By bus and address first, then by interface.
UsbLocation(printers) == [p \in printers |-> ports[p.device] * InterfaceNumbers + p.interface]
\* discover opens the devices, and skips those it may not open.
Classified ==
  LET printers == PrintersOf(Plugged \ denied)
  IN  InTurn([p \in printers |-> {t \in UsbTables(tables) : ConfigurationMatches(p, t)}],
             UsbLocation(printers))
\* list opens none, and knows no interfaces.
Merged == InTurn([d \in Plugged |-> {t \in UsbTables(tables) : IdentityMatches(d, t)}], ports)
Unavailable == UsbTables(tables) \ Merged.claimed

-----------------------------------------------------------------------------
(* `printers add`.                                                         *)

\* The interfaces that no table matches, once per endpoint.
Unconfigured(saved) ==
  {p \in PrintersOf(Plugged) : \A t \in UsbTables(saved) : ~ConfigurationMatches(p, t)}
HasTwin(printer, among) ==
  /\ IdentityOf[printer.device].serial = NoSerial
  /\ \E other \in among : /\ other.device # printer.device
                          /\ IdentityOf[other.device].model = IdentityOf[printer.device].model
UsbAddTargets(saved) ==
  UNION {{[device |-> p.device, route |-> r, ambiguous |-> HasTwin(p, Unconfigured(saved))] :
             r \in {route \in Routes(p.device) : route.interface = p.interface}} :
           p \in Unconfigured(saved)}

NoSelector == [model |-> "any", serial |-> "any"]
Selected(targets, selector) ==
  {t \in targets : /\ IdentityOf[t.device].model = selector.model
                   /\ selector.serial \in {"any", IdentityOf[t.device].serial}}

\* A command that fails or is done leaves nothing behind.
NotAdding == [at |-> "none"]
Waiting(c, place) == [c EXCEPT !.at = place]

\* resolve_name: a name that is given or typed is looked up in what was read.
Resolved(c, name) ==
  [at |-> "saving", name |-> name, connection |-> c.connection, device |-> c.device]
ResolveName(c) ==
  IF ~IsTaken(c.arguments.name, c.read) /\ c.arguments.name # "none"
  THEN Resolved(c, c.arguments.name)
  ELSE IF c.arguments.terminal THEN Waiting(c, "naming") ELSE NotAdding

ForDevice(c, target) ==
  ResolveName([c EXCEPT !.device = target.device, !.targets = {},
                        !.connection = UsbRoute(target.device, target.route)])
ForHost(c) == ResolveName([c EXCEPT !.connection = Networked])

\* select_usb_target
Offered(c, targets) == Waiting([c EXCEPT !.targets = targets], "selecting")
SelectTarget(c, targets) ==
  IF targets = {} THEN NotAdding
  ELSE IF c.arguments.selector # NoSelector /\ Cardinality(targets) = 1
  THEN ForDevice(c, CHOOSE t \in targets : TRUE)
  ELSE IF c.arguments.terminal THEN Offered(c, targets) ELSE NotAdding

\* What add may not be told about a USB printer, or without a terminal lacks;
\* it opens every device and gives up on the first that it may not open.
UsbRefused(arguments) ==
  \/ arguments.host # "none"
  \/ arguments.selector.model = "missing"
  \/ ~arguments.terminal /\ arguments.selector = NoSelector
  \/ Plugged \cap denied # {}
ResolveUsb(c) ==
  IF UsbRefused(c.arguments) THEN NotAdding
  ELSE IF c.arguments.selector = NoSelector THEN SelectTarget(c, UsbAddTargets(c.read))
  ELSE SelectTarget(c, Selected(UsbAddTargets(c.read), c.arguments.selector))
ResolveNetwork(c) ==
  IF c.arguments.selector # NoSelector THEN NotAdding
  ELSE IF c.arguments.host # "none" THEN ForHost(c)
  ELSE IF c.arguments.terminal THEN Waiting(c, "addressing") ELSE NotAdding
Resolve(c, transport) == IF transport = "usb" THEN ResolveUsb(c) ELSE ResolveNetwork(c)

\* execute_add: the file is read before the first question.
Execute(arguments) ==
  LET c == [ at |-> "begun", arguments |-> arguments, read |-> tables, targets |-> {},
             connection |-> Networked, device |-> "none" ]
  IN  IF ~arguments.terminal /\ arguments.name = "none" THEN NotAdding
      ELSE IF arguments.transport # "none" THEN Resolve(c, arguments.transport)
      ELSE IF arguments.terminal THEN Waiting(c, "choosing") ELSE NotAdding

-----------------------------------------------------------------------------
(* Steps.                                                                  *)

UsbInit ==
  /\ ports = [d \in Device |-> Unplugged] /\ moves = 0
  /\ rule \in {"none", "ours", "another"}
  /\ denied = IF rule = "ours" THEN {} ELSE Restricted
  /\ tables = {} /\ adding = NotAdding
  /\ transfer = <<>> /\ chosen = <<>>

Move(device, port) ==
  /\ moves < MaxMoves /\ moves' = moves + 1
  /\ ports[device] # port
  /\ ports' = [ports EXCEPT ![device] = port]
  /\ UNCHANGED <<rule, tables, adding, transfer, chosen>>
Plug(device, port) ==
  /\ ports[device] = Unplugged /\ \A d \in Device : ports[d] # port
  /\ denied' = IF rule = "ours" THEN denied \ {device} ELSE denied
  /\ Move(device, port)
Unplug(device) == Move(device, Unplugged) /\ UNCHANGED denied

\* apply_at: a file with another content is left alone.  That udev reads the
\* rules again may fail, or leave what is plugged in as it was.
GrantUsbPermissions ==
  /\ rule # "another" /\ rule' = "ours"
  /\ \E still \in {denied, denied \ Plugged} : denied' = still
  /\ UNCHANGED <<ports, moves, tables, adding, transfer, chosen>>

AddGoesOn(c) == adding' = c /\ UNCHANGED <<ports, moves, rule, denied, tables, transfer, chosen>>

\* --discover finds the host first, on the network only.
BeginAdd(arguments) ==
  /\ adding = NotAdding
  /\ AddGoesOn(IF arguments.host # "discovered" THEN Execute(arguments)
               ELSE IF arguments.transport = "usb" THEN NotAdding
               ELSE [at |-> "discovering", arguments |-> [arguments EXCEPT !.transport = "network"]])
\* One host is taken, several are asked about; none is an error.
DiscoverHost ==
  /\ adding.at = "discovering"
  /\ \E found \in 0..2 :
       AddGoesOn(IF found = 1 \/ (found = 2 /\ adding.arguments.terminal)
                 THEN Execute(adding.arguments) ELSE NotAdding)
ChooseTransport ==
  adding.at = "choosing" /\ \E t \in {"usb", "network"} : AddGoesOn(Resolve(adding, t))
EnterHost == adding.at = "addressing" /\ AddGoesOn(ForHost(adding))
ChooseUsbPrinter ==
  adding.at = "selecting" /\ \E target \in adding.targets : AddGoesOn(ForDevice(adding, target))
\* A name that is taken is asked for again.
EnterName ==
  /\ adding.at = "naming"
  /\ \E name \in ToSet(Aliases) : ~IsTaken(name, adding.read) /\ AddGoesOn(Resolved(adding, name))
GiveUp == adding # NotAdding /\ AddGoesOn(NotAdding)

\* The file is read again under its lock; a name taken meanwhile is refused.
Registered(name, connection, device) ==
  IF IsTaken(name, tables) THEN UNCHANGED <<tables, chosen>>
  ELSE /\ tables' = tables \union {TableOf(name, connection)}
       /\ chosen' = IF connection = Networked THEN chosen
                    ELSE [n \in DOMAIN chosen \union {name} |-> IF n = name THEN device ELSE chosen[n]]
Save ==
  /\ adding.at = "saving"
  /\ Registered(adding.name, adding.connection, adding.device)
  /\ adding' = NotAdding
  /\ UNCHANGED <<ports, moves, rule, denied, transfer>>

\* POST /api/printers/add for a printer of some discovery, plugged in or not.
AddFromPage(name, device) ==
  /\ ~IsTaken(name, tables)
  /\ \E route \in Routes(device) : Registered(name, UsbRoute(device, route), device)
  /\ UNCHANGED <<ports, moves, rule, denied, adding, transfer>>

\* NusbTransport.send: the device that matches must be the only one.
TakeFirst(devices) == {d \in devices : \A e \in devices : ports[d] <= ports[e]}
RequireUnique(devices) == IF Cardinality(devices) = 1 THEN devices ELSE {}
Reachable(table) == {d \in Plugged : IdentityMatches(d, table)}
BeginTransfer ==
  /\ transfer = <<>>
  /\ \E table \in UsbTables(tables) : \E d \in RequireUnique(Reachable(table)) \ denied :
       transfer' = [name |-> table.name, device |-> d]
  /\ UNCHANGED <<ports, moves, rule, denied, tables, adding, chosen>>
\* It succeeds, or fails, also because the device is gone.
EndTransfer ==
  transfer # <<>> /\ transfer' = <<>> /\ UNCHANGED <<ports, moves, rule, denied, tables, adding, chosen>>

UsbNext ==
  \/ \E d \in Device : Unplug(d) \/ \E p \in Ports : Plug(d, p)
  \/ GrantUsbPermissions
  \/ \E arguments \in Commands : BeginAdd(arguments)
  \/ DiscoverHost \/ ChooseTransport \/ EnterHost \/ ChooseUsbPrinter \/ EnterName \/ GiveUp
  \/ Save
  \/ \E name \in ToSet(Aliases), d \in Device : AddFromPage(name, d)
  \/ BeginTransfer \/ EndTransfer
UsbSpec == UsbInit /\ [][UsbNext]_usbVars

-----------------------------------------------------------------------------
(* Properties.                                                             *)

\* The warning of `printers add` promises that printing is ambiguous while two
\* devices share an identity, not that it goes astray: as long as the device a
\* name was registered for is plugged in, jobs for that name go to no other,
\* whatever was unplugged, plugged in or registered since it was listed.
JobsReachChosenDevice ==
  [][transfer' # <<>> /\ transfer = <<>> =>
       \/ transfer'.device = chosen[transfer'.name]
       \/ ports[chosen[transfer'.name]] = Unplugged]_usbVars

\* The ways to match agree, though each is coded on its own: discover and list
\* show the same devices as configured, where all can be opened; list calls no
\* printer unavailable that a job would reach; and add offers only what discover
\* calls new, and tells twins without serial numbers as ambiguous.
MatchersAgree ==
  /\ Plugged \cap denied = {} =>
       {s.one.device : s \in Classified.shown} = {s.one : s \in Merged.shown}
  /\ \A t \in Unavailable : RequireUnique(Reachable(t)) = {}
  /\ \A target \in UsbAddTargets(tables) :
       /\ \A s \in Classified.shown : s.one # [device |-> target.device, interface |-> target.route.interface]
       /\ (\E d \in Plugged \ {target.device} : IdentityOf[d] = IdentityOf[target.device])
            /\ IdentityOf[target.device].serial = NoSerial => target.ambiguous
=============================================================================
