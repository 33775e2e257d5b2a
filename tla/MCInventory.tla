----------------------------- MODULE MCInventory -----------------------------
(* What printer streams are told, and which device a printer in their list is: *)
(* a behaviour is of the monitor, which takes a list as one read of the file,  *)
(* or of the tables and devices that make up a list.                           *)
EXTENDS MCPrinterMonitor, UsbPrinters

VARIABLE part

inventoryVars == <<part, vars, usbVars>>

\* Three devices of one model, one of them with a serial number, two interfaces
\* each.
MCDevice == {"d1", "d2", "d3"}
MCIdentityOf == [d \in MCDevice |-> [model |-> "M", serial |-> IF d = "d1" THEN "S" ELSE NoSerial]]
MCRoutesOf == [m \in {"M"} |-> {[interface |-> 0, endpoint |-> 1], [interface |-> 1, endpoint |-> 2]}]
MCAliases == <<"bar", "counter">>

Arguments(name, transport, host, selector, terminal) ==
  [name |-> name, transport |-> transport, host |-> host, selector |-> selector, terminal |-> terminal]
Model(serial) == [model |-> "M", serial |-> serial]
\* The wizard; selectors that fit one device or several, or are incomplete; what
\* contradicts the transport or needs a terminal; a host that is searched.
MCCommands ==
  {Arguments("none", "none", "none", NoSelector, TRUE),
   Arguments("bar", "usb", "none", Model("S"), TRUE),
   Arguments("bar", "usb", "none", Model("any"), FALSE),
   Arguments("bar", "usb", "none", [model |-> "missing", serial |-> "S"], TRUE),
   Arguments("bar", "usb", "given", Model("S"), FALSE),
   Arguments("bar", "network", "given", Model("S"), FALSE),
   Arguments("bar", "network", "none", NoSelector, FALSE),
   Arguments("none", "none", "discovered", NoSelector, TRUE),
   Arguments("bar", "none", "discovered", NoSelector, FALSE)}

InventoryInit ==
  \/ part = "monitor" /\ Init /\ UsbInit /\ rule = "ours"
  \/ part = "devices" /\ Init /\ UsbInit
InventoryNext ==
  /\ UNCHANGED part
  /\ \/ part = "monitor" /\ Next /\ UNCHANGED usbVars
     \/ part = "devices" /\ UsbNext /\ UNCHANGED vars
InventorySpec == InventoryInit /\ [][InventoryNext]_inventoryVars
=============================================================================
