---------------------------- MODULE DiscoveryScan ----------------------------
(***************************************************************************)
(* One discovery operation (discover/mod.rs and discovery::scan) as a      *)
(* value, for the interfaces that drive it: what prepare refuses, the      *)
(* probes in flight, and the events one poll of the operation reports.     *)
(*                                                                         *)
(* A printer is <<"usb", device>> or <<"network", address>>, configured    *)
(* when the configuration read by prepare names it.                        *)
(***************************************************************************)
EXTENDS DiscoveryTargets

CONSTANTS
  MaxConcurrentProbes,  \* 128
  UsbOutcomes           \* what list_tolerant may answer: [printers, failures], or UsbError

\* An enumeration lists a printer once, at its place on the bus.
ASSUME UsbListsOnce ==
  \A usb \in UsbOutcomes :
    /\ usb.printers \in Seq({usb.printers[i] : i \in DOMAIN usb.printers})
    /\ \A i, k \in DOMAIN usb.printers : usb.printers[i] = usb.printers[k] => i = k
    /\ usb.failures \in Nat /\ usb.error \in BOOLEAN
ASSUME ProbesMayRun == MaxConcurrentProbes \in Nat \ {0}

UsbError == [printers |-> <<>>, failures |-> 0, error |-> TRUE]
UsbFound(printers, failures) == [printers |-> printers, failures |-> failures, error |-> FALSE]

-----------------------------------------------------------------------------
(* What is asked.                                                          *)

\* TryFrom<DiscoverPrintersArgs>: a USB discovery takes no network option.
Contradicts(arguments) ==
  arguments.transport = "usb" /\ (arguments.subnets # <<>> \/ arguments.tuned)

ScopeOf(arguments) ==
  [usb     |-> arguments.transport # "network",
   network |-> arguments.transport # "usb",
   subnets |-> arguments.subnets]

TargetsOf(scope, interfaces) ==
  IF scope.network THEN ResolveTargets(scope.subnets, interfaces) ELSE <<>>

\* prepare: a combined scope still has USB to enumerate when no network is left.
Unpreparable(scope, interfaces) ==
  /\ scope.network
  /\ \/ TooLargeToScan(scope.subnets)
     \/ TargetsOf(scope, interfaces) = <<>> /\ ~scope.usb

Prepare(scope, interfaces, configured) ==
  [at         |-> "prepared",
   scope      |-> scope,
   targets    |-> TargetsOf(scope, interfaces),
   configured |-> configured,
   total      |-> ProbeCount(TargetsOf(scope, interfaces)),
   waiting    |-> {},   \* probes spawned that hold no permit
   probing    |-> {},
   answered   |-> {},   \* [probe, connected], not yet joined
   done       |-> 0,
   announced  |-> {}]

-----------------------------------------------------------------------------
(* The probes, tasks of their own.                                         *)

BeginProbe(scan, probe) ==
  [scan EXCEPT !.waiting = @ \ {probe}, !.probing = @ \cup {probe}]

AnswerProbe(scan, probe, connected) ==
  [scan EXCEPT !.probing = @ \ {probe},
               !.answered = @ \cup {[probe |-> probe, connected |-> connected]}]

MayBegin(scan, probe) ==
  probe \in scan.waiting /\ Cardinality(scan.probing) < MaxConcurrentProbes

-----------------------------------------------------------------------------
(* The operation: what a poll reports, and where it leaves the scan.       *)

PreparedEvent(total)       == [type |-> "prepared", total |-> total]
PrinterEvent(scan, key)    == [type |-> "printer", key |-> key, configured |-> key \in scan.configured]
UsbFailureEvent            == [type |-> "usb_failure"]
ProgressEvent(done, total) == [type |-> "progress", completed |-> done, total |-> total]

Reported(scan, events) == [scan |-> scan, events |-> events]

Settled(scan) ==
  IF scan.done = scan.total THEN [scan EXCEPT !.at = "completed"] ELSE scan

\* execute up to its first wait: USB is enumerated before the sweep begins.
FirstPoll(scan, usb) ==
  LET opening == <<PreparedEvent(scan.total)>>
      devices == [i \in DOMAIN usb.printers |-> PrinterEvent(scan, <<"usb", usb.printers[i]>>)]
      failures == [i \in 1..usb.failures |-> UsbFailureEvent]
      sweep == IF scan.scope.network THEN <<ProgressEvent(0, scan.total)>> ELSE <<>>
  IN IF ~scan.scope.usb
     THEN Reported(Settled([scan EXCEPT !.at = "sweeping", !.waiting = ProbesOf(scan.targets)]),
                   opening \o sweep)
     ELSE IF usb.error
     THEN Reported([scan EXCEPT !.at = "failed"], opening)
     ELSE Reported(Settled([scan EXCEPT !.at = "sweeping", !.waiting = ProbesOf(scan.targets)]),
                   opening \o devices \o failures \o sweep)

\* The body of the join_next loop, after Found's check that the address is new.
FoundAgain(scan, address) == TRUE
FoundFirst(scan, address) == address \notin scan.announced

JoinProbe(reported, answer) ==
  LET scan == reported.scan
      address == answer.probe.address
      found == IF answer.connected /\ FoundFirst(scan, address)
               THEN <<PrinterEvent(scan, <<"network", address>>)>> ELSE <<>>
      joined == [scan EXCEPT !.answered = @ \ {answer},
                             !.done = @ + 1,
                             !.announced = IF answer.connected THEN @ \cup {address} ELSE @]
  IN Reported(joined, reported.events \o found
                        \o <<ProgressEvent(joined.done, scan.total)>>)

\* A later poll joins every probe that has answered, in the order they answered.
LaterPoll(scan, order) ==
  LET joined[n \in 0..Len(order)] ==
        IF n = 0 THEN Reported(scan, <<>>) ELSE JoinProbe(joined[n - 1], order[n])
      reported == joined[Len(order)]
  IN Reported(Settled(reported.scan), reported.events)

\* Whatever one poll of the scan may report.
Polls(scan) ==
  CASE scan.at = "prepared" -> {FirstPoll(scan, usb) : usb \in UsbOutcomes}
    [] scan.at = "sweeping" -> {LaterPoll(scan, order) : order \in SetToSeqs(scan.answered)}
    [] OTHER -> {}
=============================================================================
