--------------------------- MODULE MCPrinterConfig ---------------------------
(* A server with two registrations and a command with one, over a file that *)
(* is missing, valid or not.                                                *)
EXTENDS PrinterConfig, TLC

CONSTANTS server, command, first, second, third

MCProcessOf == first :> server @@ second :> server @@ third :> command

MCTable(name, connection) == [name |-> name, connection |-> connection]
MCDocuments ==
  { <<MCTable("bar", "usb"), MCTable("counter", "serial")>>,
    <<MCTable("bar", "port 0")>> }
=============================================================================
