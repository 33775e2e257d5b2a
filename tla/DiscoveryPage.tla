---------------------------- MODULE DiscoveryPage ----------------------------
(***************************************************************************)
(* A scan seen from the printers page: GET /api/printers/discover, whose   *)
(* stream owns the scan (discover/http.rs), the page's EventSource         *)
(* (api/discovery-stream.ts) and the state it shows                        *)
(* (app/printer-discovery-data.tsx).                                       *)
(*                                                                         *)
(* Every scan the page starts has a connection of its own, numbered in     *)
(* order; the page cancels one by closing it.                              *)
(***************************************************************************)
EXTENDS DiscoveryScan

CONSTANTS
  Machines,   \* the adapters the machine may have: sequences of [name, address, prefix]
  Queries,    \* the scopes the card may hand over: [usb, network, subnets, tuned]
  MaxScans,   \* bound: scans started
  MaxBreaks,  \* bound: connections that break
  MaxAdded,   \* bound: printers registered
  Others      \* printers that may be registered elsewhere

ASSUME MachinesAssumption == \A machine \in Machines : IsMachine(machine)

\* The card starts no scan of neither transport (discovery-card.tsx).
ASSUME QueriesAssumption ==
  /\ Queries \subseteq [usb : BOOLEAN, network : BOOLEAN, subnets : Seq(Subnets), tuned : BOOLEAN]
  /\ \A query \in Queries : query.usb \/ query.network
ASSUME MaxScansAssumption == MaxScans \in Nat

VARIABLES
  interfaces,  \* the machine's adapters
  inventory,    \* the configured printers
  page,        \* the ScanState shown, its query and the closer held
  source,      \* each connection's EventSource
  server,      \* each connection's DiscoveryStream
  transit,        \* the events between the two
  broken,      \* connections that broke
  heard,       \* history: the addresses that accepted a probe of the scan shown
  unseen       \* history: printers registered elsewhere since the scan was prepared

services == <<source, server, transit, broken>>
vars == <<interfaces, inventory, page, source, server, transit, broken, heard, unseen>>

Scans == 1..MaxScans
NoScan == 0

NoStream == [at |-> "none"]
DroppedStream == [at |-> "dropped"]
Requested(query) == [at |-> "requested", query |-> query]
Streaming(scan) == [at |-> "streaming", scan |-> scan, queue |-> <<>>, woken |-> TRUE]

ScanState(phase) ==
  [phase |-> phase, completed |-> 0, total |-> 0, printers |-> <<>>, failures |-> 0]

DefaultQuery == [usb |-> TRUE, network |-> TRUE, subnets |-> <<>>, tuned |-> FALSE]

OpeningPage == [scan |-> ScanState("idle"), query |-> DefaultQuery,
                current |-> NoScan, closer |-> NoScan]

Init ==
  /\ interfaces \in Machines
  /\ inventory = {}
  /\ page = OpeningPage
  /\ source = [id \in Scans |-> "unused"]
  /\ server = [id \in Scans |-> NoStream]
  /\ transit = [id \in Scans |-> <<>>]
  /\ broken = 0
  /\ heard = {}
  /\ unseen = {}

-----------------------------------------------------------------------------
(* The page.                                                               *)

\* discoveryQueryString: a USB-only scan drops the network options.
QueryString(query) ==
  [transport |-> IF query.usb = query.network THEN "all" ELSE IF query.usb THEN "usb" ELSE "network",
   subnets |-> IF query.network THEN query.subnets ELSE <<>>,
   tuned |-> query.network /\ query.tuned]

\* Closing a source takes its response with it: the stream, the scan it owns and the
\* scan's probes.
Close(closed) ==
  /\ source' = [id \in Scans |-> IF id \in closed THEN "closed" ELSE source[id]]
  /\ server' = [id \in Scans |-> IF id \in closed THEN DroppedStream ELSE server[id]]
  /\ transit' = [id \in Scans |-> IF id \in closed THEN <<>> ELSE transit[id]]

\* startScan; the button starts one only when none runs, so the closer it calls first
\* is null.
StartScan(query) ==
  LET id == page.current + 1 IN
  /\ page.scan.phase # "running"
  /\ id \in Scans
  /\ source' = [source EXCEPT ![id] = "open"]
  /\ server' = [server EXCEPT ![id] = Requested(QueryString(query))]
  /\ page' = [scan |-> ScanState("running"), query |-> query,
              current |-> id, closer |-> id]
  /\ heard' = {}
  /\ UNCHANGED <<interfaces, inventory, transit, broken, unseen>>

\* closeScan: what the closer held closes.
Held(closer) == {closer}

CancelScan ==
  /\ page.scan.phase = "running"
  /\ Close(Held(page.closer))
  /\ page' = [page EXCEPT !.closer = NoScan, !.scan.phase = "stopped"]
  /\ UNCHANGED <<interfaces, inventory, broken, heard, unseen>>

\* The listeners of one stream; completed, failed and error close it first.
Row(event) == [key |-> event.key, configured |-> event.configured]

Shown(scan, event) ==
  CASE event.type = "prepared"    -> [scan EXCEPT !.total = event.total]
    [] event.type = "progress"    -> [scan EXCEPT !.completed = event.completed, !.total = event.total]
    [] event.type = "printer"     -> [scan EXCEPT !.printers = Append(@, Row(event))]
    [] event.type = "usb_failure" -> [scan EXCEPT !.failures = @ + 1]
    [] event.type = "completed"   -> [scan EXCEPT !.phase = "done"]
    [] event.type = "failed"      -> [scan EXCEPT !.phase = "error"]

ClosesNothing(event) == FALSE
Closes(event) == event.type \in {"completed", "failed"}

Dispatch(id) ==
  /\ source[id] = "open"
  /\ transit[id] # <<>>
  /\ LET event == Head(transit[id]) IN
     /\ \/ Closes(event) /\ Close({id})
        \/ /\ ~Closes(event)
           /\ transit' = [transit EXCEPT ![id] = Tail(@)]
           /\ UNCHANGED <<source, server>>
     /\ page' = [page EXCEPT !.scan = Shown(@, event),
                             !.closer = IF event.type \in {"completed", "failed"} THEN NoScan ELSE @]
  /\ UNCHANGED <<interfaces, inventory, broken, heard, unseen>>

\* The connection's own error: the request is refused, the response ends, or the
\* connection breaks.
ConnectionError(id) ==
  /\ source[id] = "open"
  /\ Close({id})
  /\ page' = [page EXCEPT !.scan.phase = "error", !.closer = NoScan]
  /\ UNCHANGED <<interfaces, inventory, heard, unseen>>

ResponseEnds(id) ==
  /\ server[id].at \in {"refused", "ended"} /\ transit[id] = <<>>
  /\ ConnectionError(id)
  /\ UNCHANGED broken

ConnectionBreaks(id) ==
  /\ broken < MaxBreaks /\ broken' = broken + 1
  /\ ConnectionError(id)

NothingMarked(printers, key) == printers

\* markScanResultConfigured: the first row of that printer still without the name.
Marked(printers, key) ==
  LET matches == {i \in DOMAIN printers : printers[i].key = key /\ ~printers[i].configured}
  IN IF matches = {} THEN printers
     ELSE [printers EXCEPT ![CHOOSE i \in matches : \A j \in matches : i <= j].configured = TRUE]

\* The dialog registers a printer of the results and tells the page which.
AddResult(i) ==
  LET row == page.scan.printers[i] IN
  /\ ~row.configured
  /\ Cardinality(inventory) < MaxAdded
  /\ inventory' = inventory \cup {row.key}
  /\ page' = [page EXCEPT !.scan.printers = Marked(@, row.key)]
  /\ UNCHANGED <<interfaces, services, heard, unseen>>

\* A printer registered by hand, in another tab or by the command line.
AddElsewhere(key) ==
  /\ key \notin inventory
  /\ Cardinality(inventory) < MaxAdded
  /\ inventory' = inventory \cup {key}
  /\ unseen' = unseen \cup {key}
  /\ UNCHANGED <<interfaces, page, services, heard>>

-----------------------------------------------------------------------------
(* The server.                                                             *)

\* discover: the query's scope, prepare, and the response.
Discover(id) ==
  /\ server[id].at = "requested"
  /\ LET arguments == server[id].query
         scope == ScopeOf(arguments)
     IN server' = [server EXCEPT ![id] =
          IF Contradicts(arguments) \/ Unpreparable(scope, interfaces)
          THEN [at |-> "refused"]
          ELSE Streaming(Prepare(scope, interfaces, inventory))]
  /\ unseen' = IF id = page.current THEN {} ELSE unseen
  /\ UNCHANGED <<interfaces, inventory, page, source, transit, broken, heard>>

\* The closing event of discovery_response, when this poll of the scan is its last.
ClosingEvent(scan) ==
  CASE scan.at = "completed" -> <<[type |-> "completed"]>>
    [] scan.at = "failed"    -> <<[type |-> "failed"]>>
    [] OTHER                 -> <<>>

\* poll_next drives the scan, then hands one event over.  It is polled again after an event,
\* and after none when a probe of a scan that was left waiting answers.
Finished(scan) == scan.at \in {"completed", "failed"}
Driven(stream) ==
  IF Finished(stream.scan) THEN {Reported(stream.scan, <<>>)}
  ELSE {Reported(r.scan, r.events \o ClosingEvent(r.scan)) : r \in Polls(stream.scan)}

LeftPending(queue) == FALSE
WokenByEvent(queue) == queue # <<>>

PollNext(id) ==
  /\ server[id].at = "streaming" /\ source[id] = "open"
  /\ server[id].woken
  /\ transit[id] = <<>>
  /\ \E reported \in Driven(server[id]) :
       LET queue == server[id].queue \o reported.events IN
       IF queue = <<>>
       THEN /\ server' = [server EXCEPT ![id] =
                 IF Finished(reported.scan) THEN [at |-> "ended"]
                 ELSE [@ EXCEPT !.scan = reported.scan, !.woken = FALSE]]
            /\ UNCHANGED transit
       ELSE /\ server' = [server EXCEPT ![id].scan = reported.scan, ![id].queue = Tail(queue),
                                        ![id].woken = WokenByEvent(queue)]
            /\ transit' = [transit EXCEPT ![id] = <<Head(queue)>>]
  /\ UNCHANGED <<interfaces, inventory, page, source, broken, heard, unseen>>

Probe(id) ==
  /\ server[id].at = "streaming" /\ source[id] = "open"
  /\ \/ \E probe \in server[id].scan.waiting :
          /\ MayBegin(server[id].scan, probe)
          /\ server' = [server EXCEPT ![id].scan = BeginProbe(@, probe)]
          /\ UNCHANGED heard
     \/ \E probe \in server[id].scan.probing, connected \in BOOLEAN :
          /\ server' = [server EXCEPT ![id].scan = AnswerProbe(@, probe, connected),
                                      ![id].woken = TRUE]
          /\ heard' = IF connected /\ id = page.current THEN heard \cup {probe.address} ELSE heard
  /\ UNCHANGED <<interfaces, inventory, page, source, transit, broken, unseen>>

-----------------------------------------------------------------------------
ServerStep(id) == Discover(id) \/ PollNext(id)

Next ==
  \/ \E query \in Queries : StartScan(query)
  \/ CancelScan
  \/ \E id \in Scans :
       \/ Dispatch(id) \/ ResponseEnds(id) \/ ConnectionBreaks(id)
       \/ ServerStep(id) \/ Probe(id)
  \/ \E i \in DOMAIN page.scan.printers : AddResult(i)
  \/ \E key \in Others : AddElsewhere(key)

Spec == Init /\ [][Next]_vars

\* The server's tasks are polled, a probe answers within its timeout, and the
\* browser dispatches what it has received.
Fairness ==
  \A id \in Scans :
    /\ WF_vars(ServerStep(id))
    /\ WF_vars(Probe(id))
    /\ WF_vars(Dispatch(id) \/ ResponseEnds(id))

FairSpec == Spec /\ Fairness

-----------------------------------------------------------------------------
(* Properties.                                                             *)

Rows == {page.scan.printers[i] : i \in DOMAIN page.scan.printers}
Keys == {row.key : row \in Rows}
NetworkRows == {key[2] : key \in {k \in Keys : k[1] = "network"}}
OwnAddresses == {adapter.address : adapter \in Adapters(interfaces)}

\* The addresses a machine's networks or the named ones hold, without those that
\* name a network or broadcast to it: what a reader means by sweeping them.
SweptBy(subnet) ==
  LET block == {a \in Addresses : Covers(subnet, a)}
  IN IF Cardinality(block) <= 2 THEN block
     ELSE {a \in block : (\E low \in block : low < a) /\ (\E high \in block : a < high)}
AddressesSwept(subnets) ==
  LET swept[n \in 0..Len(subnets)] ==
        IF n = 0 THEN 0 ELSE swept[n - 1] + Cardinality(SweptBy(subnets[n]) \ OwnAddresses)
  IN swept[Len(subnets)]

\* What a page shows of a scan is what answered that scan: each printer once,
\* however many targets cover it; no address of the machine itself, whatever
\* netmask its adapters have; and, once the scan is done, all that answered,
\* every address counted.
ShownIsWhatAnswered ==
  /\ Cardinality(Keys) = Len(page.scan.printers)
  /\ NetworkRows \subseteq heard
  /\ NetworkRows \cap OwnAddresses = {}
  /\ page.scan.phase = "done" =>
       /\ NetworkRows = heard
       /\ page.scan.completed = page.scan.total
       /\ page.query.subnets # <<>> =>
            page.scan.total = IF page.query.network THEN AddressesSwept(page.query.subnets) ELSE 0

\* A printer the page registered leaves the new results ("A registered result
\* leaves the panel", printers/page.tsx), and one the scan's configuration held
\* is never among them; only what was registered elsewhere meanwhile still is.
NewResultsAreUnregistered ==
  \A row \in Rows : ~row.configured /\ row.key \in inventory => row.key \in unseen

\* A running scan comes to an end by itself: no event is left in the server's
\* queue with nobody to poll it.
RunningScansEnd ==
  \A id \in Scans :
    (page.current = id /\ page.scan.phase = "running")
      ~> ~(page.current = id /\ page.scan.phase = "running")
=============================================================================
