--------------------------- MODULE DiscoveryCommand ---------------------------
(***************************************************************************)
(* `printers discover` (discover/cli.rs): the command waits on the scan,   *)
(* on Ctrl+C and on a reader that closes its output, lists each printer as *)
(* the scan reports it and ends with a hint on how to register one.        *)
(***************************************************************************)
EXTENDS DiscoveryScan

CONSTANTS
  CommandMachines,   \* the adapters the machine may have
  CommandArguments,  \* the arguments it may be given: [transport, subnets, tuned]
  Configured         \* the printers its configuration names

ASSUME CommandAssumption ==
  /\ \A machine \in CommandMachines : IsMachine(machine)
  /\ CommandArguments \subseteq
       [transport : {"usb", "network", "all"}, subnets : Seq(Subnets), tuned : BOOLEAN]

VARIABLES
  scan,         \* the operation
  listing,      \* the LiveListing
  interrupted,  \* Ctrl+C was pressed
  exit          \* how the command ended: [status, hint]

commandVars == <<scan, listing, interrupted, exit>>

NoHint == {}
Running == [status |-> "running", hint |-> NoHint]
Exit(status, hint) == [status |-> status, hint |-> hint]

NothingListed == [printed |-> <<>>, registration |-> {}, error |-> FALSE, closed |-> FALSE]

CommandInit ==
  /\ \E arguments \in CommandArguments, interfaces \in CommandMachines :
       LET scope == ScopeOf(arguments) IN
       /\ scan = Prepare(scope, interfaces, Configured)
       /\ exit = IF Contradicts(arguments) \/ Unpreparable(scope, interfaces)
                 THEN Exit("failed", NoHint) ELSE Running
  /\ listing = NothingListed
  /\ interrupted = FALSE

-----------------------------------------------------------------------------
(* The listing.                                                            *)

\* A write ends well, finds the reader gone, or fails in another way.
Writes == {"written", "closed", "error"}

\* usb_printer and network_printer, then write_result: nothing is written after a failure.
List(lines, event, write) ==
  LET tallied == IF event.configured THEN lines
                 ELSE [lines EXCEPT !.registration = @ \cup {event.key[1]}]
  IN IF tallied.error \/ tallied.closed THEN tallied
     ELSE CASE write = "written" -> [tallied EXCEPT !.printed = Append(@, event)]
            [] write = "closed"  -> [tallied EXCEPT !.closed = TRUE]
            [] write = "error"   -> [tallied EXCEPT !.error = TRUE]

\* The printers among the events of one poll; at most one write of it fails.
Listed(lines, events) ==
  {LET listed[n \in 0..Len(events)] ==
         IF n = 0 THEN lines
         ELSE IF events[n].type = "printer"
         THEN List(listed[n - 1], events[n], IF n = failing THEN write ELSE "written")
         ELSE listed[n - 1]
   IN listed[Len(events)] : failing \in 0..Len(events), write \in Writes}

-----------------------------------------------------------------------------
(* run_discover.                                                           *)

\* The registration the Response carries: every printer found, printed or not.
ResponseRegistration(lines) == lines.registration

\* After the select: a closed output comes first, then a sweep that was stopped, then a
\* failed write, then the scan's own error.  The listing that names nothing is written last.
ErrorForgotten(finished, lines) ==
  IF lines.closed THEN Exit("success", NoHint)
  ELSE IF finished = "stopped" THEN Exit("interrupted", lines.registration)
  ELSE IF finished = "failed" THEN Exit("failed", NoHint)
  ELSE Exit("success", ResponseRegistration(lines))

Conclude(finished, lines) ==
  IF lines.closed THEN Exit("success", NoHint)
  ELSE IF finished = "stopped" THEN Exit("interrupted", lines.registration)
  ELSE IF lines.error \/ finished = "failed" THEN Exit("failed", NoHint)
  ELSE Exit("success", ResponseRegistration(lines))

\* The select polls the scan: its events are listed as they come.
PollScan ==
  /\ exit = Running
  /\ \E reported \in Polls(scan) :
       /\ reported.events # <<>>
       /\ scan' = reported.scan
       /\ listing' \in Listed(listing, reported.events)
       /\ exit' = IF reported.scan.at \in {"completed", "failed"}
                  THEN Conclude(reported.scan.at, listing') ELSE exit
  /\ UNCHANGED interrupted

\* Or one of the other two branches, whatever the scan has left.
StopScan ==
  /\ exit = Running
  /\ interrupted \/ listing.closed
  /\ exit' = Conclude("stopped", listing)
  /\ UNCHANGED <<scan, listing, interrupted>>

Interrupt ==
  /\ exit = Running /\ ~interrupted
  /\ interrupted' = TRUE
  /\ UNCHANGED <<scan, listing, exit>>

ProbeStep ==
  /\ exit = Running
  /\ \/ \E probe \in scan.waiting : MayBegin(scan, probe) /\ scan' = BeginProbe(scan, probe)
     \/ \E probe \in scan.probing, connected \in BOOLEAN :
          scan' = AnswerProbe(scan, probe, connected)
  /\ UNCHANGED <<listing, interrupted, exit>>

CommandNext == PollScan \/ StopScan \/ Interrupt \/ ProbeStep

CommandSpec == CommandInit /\ [][CommandNext]_commandVars

-----------------------------------------------------------------------------
(* Properties.                                                             *)

Printed(transport) ==
  \E i \in DOMAIN listing.printed :
    listing.printed[i].key[1] = transport /\ ~listing.printed[i].configured

\* A sweep that ends by itself suggests every transport with a new printer
\* among what it printed, and a status of success means that all the printers
\* found were printed or that the reader had left.
SuccessfulListingIsWhole ==
  exit.status = "success" =>
    \/ listing.closed
    \/ /\ exit.hint = {t \in {"usb", "network"} : Printed(t)}
       /\ \A address \in scan.announced :
            \E i \in DOMAIN listing.printed : listing.printed[i].key = <<"network", address>>
=============================================================================
