----------------------------- MODULE MCDiscovery -----------------------------
(* The two interfaces to a discovery on a small machine with four-bit      *)
(* addresses.  A behaviour is the page's or the command's: they share      *)
(* nothing but the operation each of them drives.                          *)
EXTENDS DiscoveryPage, DiscoveryCommand

VARIABLE client

mcVars == <<client, vars, commandVars>>

Adapter(name, address, prefix) == [name |-> name, address |-> address, prefix |-> prefix]

\* No network at all; an ordinary network; the same with an alias whose netmask covers
\* itself alone; adapters that are skipped.
MCMachines ==
  {<<Adapter("lo", 15, 4)>>,
   <<Adapter("lo", 15, 4), Adapter("eth0", 5, 2)>>,
   <<Adapter("eth0", 5, 2), Adapter("alias", 6, 4)>>,
   <<Adapter("wide", 1, 0), Adapter("odd", 6, NoPrefix)>>}

Query(usb, network, subnets) ==
  [usb |-> usb, network |-> network, subnets |-> subnets, tuned |-> network]

\* Everything; a network and an address inside it; USB alone, the network's fields left
\* filled in; a network too large to scan.
MCQueries ==
  {Query(TRUE, TRUE, <<>>),
   Query(FALSE, TRUE, <<Subnet(4, 2), Subnet(6, 4)>>),
   [usb |-> TRUE, network |-> FALSE, subnets |-> <<Subnet(4, 2)>>, tuned |-> TRUE],
   Query(FALSE, TRUE, <<Subnet(0, 0)>>)}

MCArguments ==
  {[transport |-> "all", subnets |-> <<Subnet(4, 2), Subnet(6, 4)>>, tuned |-> FALSE],
   [transport |-> "usb", subnets |-> <<>>, tuned |-> FALSE],
   [transport |-> "usb", subnets |-> <<Subnet(4, 2)>>, tuned |-> FALSE]}

MCUsbOutcomes == {UsbError, UsbFound(<<>>, 1), UsbFound(<<"d">>, 0)}
MCOthers == {<<"network", 6>>}
MCConfigured == {<<"network", 5>>}

NoPage ==
  /\ interfaces = <<>> /\ inventory = {} /\ page = OpeningPage
  /\ source = [id \in Scans |-> "unused"]
  /\ server = [id \in Scans |-> NoStream] /\ transit = [id \in Scans |-> <<>>]
  /\ broken = 0 /\ heard = {} /\ unseen = {}

NoCommand ==
  /\ scan = [at |-> "none"] /\ exit = Exit("none", NoHint)
  /\ listing = NothingListed /\ interrupted = FALSE

MCInit ==
  \/ client = "page" /\ Init /\ NoCommand
  \/ client = "command" /\ NoPage /\ CommandInit

MCNext ==
  /\ UNCHANGED client
  /\ \/ client = "page" /\ Next /\ UNCHANGED commandVars
     \/ client = "command" /\ CommandNext /\ UNCHANGED vars
=============================================================================
