---------------------------- MODULE WorkerStreams ----------------------------
(***************************************************************************)
(* The extension worker's printer streams: one subscription port per page, *)
(* each with at most one event stream from the local server, opened only   *)
(* while the page's origin is granted and somebody is subscribed.          *)
(*                                                                         *)
(* Translated from browser-extension/src/inventory-stream.ts, with the     *)
(* adapters of the grants that feed it.  A step is one handler or promise  *)
(* continuation: nothing else of the worker runs in between.               *)
(***************************************************************************)
EXTENDS Naturals, Sequences, FiniteSets

CONSTANTS
  Subscriptions,   \* the ids the page's SDK may allocate
  MaxPorts,        \* bound: ports of a page that are not over yet
  MaxAttempts,     \* bound: attempts of one port that have not settled yet
  MaxTroubles,     \* bound: removed grants, failed browser calls, stopped servers
                   \* and dead workers together
  MaxBacklog       \* bound: messages waiting on one port

ASSUME StreamAssumption ==
  /\ IsFiniteSet(Subscriptions)
  /\ {MaxPorts, MaxAttempts, MaxTroubles, MaxBacklog} \subseteq Nat

Ports == 1 .. MaxPorts
Attempts == 1 .. MaxAttempts

VARIABLES
  owned,        \* worker: the closure state of each port it was connected on
  attempts,     \* worker: what each attempt at opening an event stream has come to
  aborted,      \* worker: per port, the attempts whose signal is aborted
  toWorker,     \* per port: messages of the page's side not delivered yet
  toRelay,      \* per port: messages of the worker not delivered yet
  permitted,    \* browser: the page's origin is granted
  removals,     \* browser: removal events not delivered to the worker yet
  troubles,     \* how many of them there were
  serving,      \* the local server is up
  clean         \* history: granted at some moment since a removal was handled last

workerVars == <<owned, attempts, aborted>>
portVars == <<toWorker, toRelay>>
grantVars == <<permitted, removals, clean>>
streamVars == <<workerVars, portVars, grantVars, troubles, serving>>

NoAttempt == 0

NewPort ==
  [state |-> "open", subscriptions |-> {}, denied |-> {},
   authorization |-> "none", stream |-> NoAttempt, timer |-> FALSE]
Unconnected == [NewPort EXCEPT !.state = "none"]

Open(p) == owned[p].state = "open"
Unsettled(p) == {a \in Attempts : attempts[p][a] # "idle"}

Subscribing(s) == [kind |-> "subscribe", subscription |-> s]
Unsubscribing(s) == [kind |-> "unsubscribe", subscription |-> s]
Disconnect == [kind |-> "disconnect"]

----------------------------------------------------------------------------
(* Posting to a port and ending one's work on it.                          *)

\* fanSnapshot and fanFailure: the messages of one fan go out in one turn and each
\* is for one subscription, so they travel as one. On a port whose other end is
\* gone they go nowhere: a post that throws closes the port, which is what the
\* disconnection under way does next.
Fan(p, kind, ids) ==
  IF ids = {} \/ Disconnect \in {toWorker[p][i] : i \in DOMAIN toWorker[p]}
    THEN toRelay[p] ELSE Append(toRelay[p], [kind |-> kind, to |-> ids])
PostAll(p, kind, ids) == toRelay' = [toRelay EXCEPT ![p] = Fan(p, kind, ids)]

\* stopOwnedWork: the port's record without its timer and stream.
Stopped(o) == [o EXCEPT !.timer = FALSE, !.stream = NoAttempt]
Aborting(p) == aborted[p] \union (Unsettled(p) \cap {owned[p].stream})

ClosedForNow(o) == [Stopped(o) EXCEPT !.subscriptions = {}, !.denied = {}]
\* close: every later handler of the port returns at once.
Closed(o) ==
  [Stopped(o) EXCEPT !.state = "closed", !.subscriptions = {}, !.denied = {}]
Close(p) ==
  /\ owned' = [owned EXCEPT ![p] = Closed(@)]
  /\ aborted' = [aborted EXCEPT ![p] = Aborting(p)]

----------------------------------------------------------------------------
(* Authorization and attempts.                                             *)

AskingUntilDenied(o) ==
  [o EXCEPT !.authorization = IF @ = "none" /\ o.denied = {} THEN "asked" ELSE @]
\* authorizeAndStart up to its await: the promise under way is shared.
Asking(o) ==
  [o EXCEPT !.authorization = IF @ = "none" THEN "asked" ELSE @]

\* The browser answers `contains` with the grants of that moment; a check that
\* throws counts as a refusal.
Answer(p) ==
  /\ owned[p].authorization = "asked"
  /\ \/ /\ owned' = [owned EXCEPT ![p].authorization = IF permitted THEN "yes" ELSE "no"]
        /\ UNCHANGED troubles
     \/ /\ troubles < MaxTroubles
        /\ troubles' = troubles + 1
        /\ owned' = [owned EXCEPT ![p].authorization = "no"]
  /\ UNCHANGED <<attempts, aborted, portVars, grantVars, serving>>

\* The guards of startAttempt.
MayStart(o) == o.state = "open" /\ o.subscriptions # {} /\ o.stream = NoAttempt /\ ~o.timer

\* openInventoryStream, once it found the server or gave up.
Connected == IF serving THEN "open" ELSE "cut"

\* authorizeAndStart after its await. Every call that waits for this decision
\* resumes in the same turn, and after the first one the others change nothing.
Decide(p) ==
  /\ owned[p].authorization \in {"yes", "no"}
  /\ LET o == [owned[p] EXCEPT !.authorization = "none"]
         refused == o.subscriptions \ o.denied
         allowed == [o EXCEPT !.denied = {}]
     IN \/ /\ ~Open(p) \/ o.subscriptions = {}
           /\ owned' = [owned EXCEPT ![p] = o]
           /\ UNCHANGED <<attempts, toRelay>>
        \/ /\ Open(p) /\ o.subscriptions # {} /\ owned[p].authorization = "no"
           /\ owned' = [owned EXCEPT ![p] = [o EXCEPT !.denied = o.subscriptions]]
           /\ PostAll(p, "denied", refused)
           /\ UNCHANGED attempts
        \/ /\ Open(p) /\ o.subscriptions # {} /\ owned[p].authorization = "yes"
           /\ UNCHANGED toRelay
           /\ IF MayStart(allowed)
                THEN \E a \in Attempts \ Unsettled(p) :
                       /\ \A b \in Attempts \ Unsettled(p) : a <= b
                       /\ attempts' = [attempts EXCEPT ![p][a] = Connected]
                       /\ owned' = [owned EXCEPT ![p] = [allowed EXCEPT !.stream = a]]
                ELSE owned' = [owned EXCEPT ![p] = allowed] /\ UNCHANGED attempts
  /\ UNCHANGED <<aborted, toWorker, grantVars, troubles, serving>>

\* The guard of onSnapshot and of the completion path.
IsNewest(p, a) ==
  /\ Open(p)
  /\ owned[p].stream = a
  /\ a \notin aborted[p]
  /\ owned[p].subscriptions # {}

\* onSnapshot: one snapshot goes to every subscription of the port.
Snapshot(p, a) ==
  /\ attempts[p][a] = "open" /\ Len(toRelay[p]) < MaxBacklog
  /\ IsNewest(p, a)
  /\ PostAll(p, "snapshot", owned[p].subscriptions)
  /\ UNCHANGED <<workerVars, toWorker, grantVars, troubles, serving>>

\* openInventoryStream returns: refused, cut by the server, or aborted. Only the
\* current attempt tells the subscriptions and schedules another one.
Settle(p, a) ==
  /\ Len(toRelay[p]) < MaxBacklog
  /\ \/ a \in aborted[p] /\ attempts[p][a] # "idle"
     \/ attempts[p][a] = "cut"
  /\ attempts' = [attempts EXCEPT ![p][a] = "idle"]
  /\ aborted' = [aborted EXCEPT ![p] = @ \ {a}]
  /\ IF IsNewest(p, a)
       THEN /\ owned' = [owned EXCEPT ![p].stream = NoAttempt, ![p].timer = TRUE]
            /\ PostAll(p, "unavailable", owned[p].subscriptions)
       ELSE UNCHANGED <<owned, toRelay>>
  /\ UNCHANGED <<toWorker, grantVars, troubles, serving>>

\* The reconnect timer: the grant is checked again before the next attempt.
TimerFires(p) ==
  /\ owned[p].timer
  /\ owned' = [owned EXCEPT ![p] = Asking([@ EXCEPT !.timer = FALSE])]
  /\ UNCHANGED <<attempts, aborted, portVars, grantVars, troubles, serving>>

----------------------------------------------------------------------------
(* Messages of the page's side, and removals of the grant.                 *)

AfterSubscribe(o, s) == Asking([o EXCEPT !.subscriptions = @ \union {s}])
AfterQuietUnsubscribe(o, s) ==
  [o EXCEPT !.subscriptions = @ \ {s}, !.denied = @ \ {s}]
AfterUnsubscribe(o, s) ==
  LET left == [o EXCEPT !.subscriptions = @ \ {s}, !.denied = @ \ {s}]
  IN IF left.subscriptions = {} THEN Stopped(left) ELSE left

\* The port's listeners: a subscription, a cancellation, or the end of the port.
WorkerReceive(p) ==
  /\ toWorker[p] # <<>> /\ owned[p].state # "none"
  /\ toWorker' = [toWorker EXCEPT ![p] = Tail(@)]
  /\ LET m == Head(toWorker[p]) IN
     \/ /\ m.kind = "disconnect" /\ Open(p)
        /\ Close(p)
     \/ /\ m.kind = "subscribe" /\ Open(p)
        /\ owned' = [owned EXCEPT ![p] = AfterSubscribe(@, m.subscription)]
        /\ UNCHANGED aborted
     \/ /\ m.kind = "unsubscribe" /\ Open(p)
        /\ owned' = [owned EXCEPT ![p] = AfterUnsubscribe(@, m.subscription)]
        /\ aborted' = [aborted EXCEPT ![p] =
                         IF owned'[p].stream = NoAttempt THEN Aborting(p) ELSE @]
     \/ ~Open(p) /\ UNCHANGED <<owned, aborted>>
  /\ UNCHANGED <<attempts, toRelay, grantVars, troubles, serving>>

\* grants.onRemoved: every owned port of the origin is told and closed.
HandleRemoval ==
  /\ removals > 0
  /\ removals' = removals - 1
  /\ clean' = permitted
  /\ toRelay' = [p \in Ports |->
                   IF Open(p) THEN Fan(p, "denied", owned[p].subscriptions)
                              ELSE toRelay[p]]
  /\ owned' = [p \in Ports |-> IF Open(p) THEN Closed(owned[p]) ELSE owned[p]]
  /\ aborted' = [p \in Ports |-> IF Open(p) THEN Aborting(p) ELSE aborted[p]]
  /\ UNCHANGED <<attempts, toWorker, permitted, troubles, serving>>

----------------------------------------------------------------------------
(* The user and the local server.                                          *)

Grant ==
  /\ ~permitted
  /\ permitted' = TRUE /\ clean' = TRUE
  /\ UNCHANGED <<workerVars, portVars, removals, troubles, serving>>

Revoke ==
  /\ permitted /\ troubles < MaxTroubles
  /\ permitted' = FALSE /\ removals' = removals + 1 /\ troubles' = troubles + 1
  /\ UNCHANGED <<workerVars, portVars, clean, serving>>

ServerStarts ==
  /\ ~serving
  /\ serving' = TRUE
  /\ UNCHANGED <<workerVars, portVars, grantVars, troubles>>

\* A server that stops cuts the open event streams.
ServerStops ==
  /\ serving /\ troubles < MaxTroubles
  /\ serving' = FALSE /\ troubles' = troubles + 1
  /\ attempts' = [p \in Ports |-> [a \in Attempts |->
                    IF attempts[p][a] = "open" THEN "cut" ELSE attempts[p][a]]]
  /\ UNCHANGED <<owned, aborted, portVars, grantVars>>

InitStreams ==
  /\ owned = [p \in Ports |-> Unconnected]
  /\ attempts = [p \in Ports |-> [a \in Attempts |-> "idle"]]
  /\ aborted = [p \in Ports |-> {}]
  /\ toWorker = [p \in Ports |-> <<>>] /\ toRelay = [p \in Ports |-> <<>>]
  /\ permitted \in BOOLEAN /\ clean = permitted
  /\ removals = 0 /\ troubles = 0
  /\ serving = FALSE

PortStep(p) ==
  \/ Answer(p) \/ Decide(p) \/ TimerFires(p) \/ WorkerReceive(p)
  \/ \E a \in Attempts : Snapshot(p, a) \/ Settle(p, a)

StreamEnvironment == Grant \/ Revoke \/ ServerStarts \/ ServerStops
=============================================================================
