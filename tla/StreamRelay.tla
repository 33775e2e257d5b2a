----------------------------- MODULE StreamRelay -----------------------------
(***************************************************************************)
(* A page's printer subscriptions, from the SDK in the page over the       *)
(* relay's content script to the worker of WorkerStreams, with a worker    *)
(* that may die and ports that cannot always be opened.                    *)
(*                                                                         *)
(* Translated from sdks/javascript/src/subscriptions.ts and                *)
(* browser-extension/src/relay.ts.  A document keeps its origin, so the    *)
(* relay's comparisons of origins always succeed and are left out.         *)
(***************************************************************************)
EXTENDS WorkerStreams

VARIABLES
  callbacks,   \* SDK: the subscriptions with a callback
  allocated,   \* SDK: the ids given out so far
  window,      \* messages the page posted, not delivered to the relay yet
  shown,       \* what the page's callbacks were last told
  relayed,     \* relay: its subscriptions
  port,        \* relay: the port it owns, or NoPort
  reconnect    \* relay: a reconnection is scheduled

pageVars == <<callbacks, allocated, window, shown>>
relayVars == <<relayed, port, reconnect>>
relayRunVars == <<streamVars, pageVars, relayVars>>

NoPort == 0

----------------------------------------------------------------------------
(* The SDK in the page.                                                    *)

\* subscribe: a fresh id, its callback, and a message to the relay.
Subscribe(s) ==
  /\ s \notin allocated
  /\ allocated' = allocated \union {s} /\ callbacks' = callbacks \union {s}
  /\ window' = Append(window, Subscribing(s))
  /\ UNCHANGED <<streamVars, shown, relayVars>>

\* The returned function, called for the first time.
Cancel(s) ==
  /\ s \in callbacks
  /\ callbacks' = callbacks \ {s}
  /\ window' = Append(window, Unsubscribing(s))
  /\ UNCHANGED <<streamVars, allocated, shown, relayVars>>

\* What the page's callbacks have seen once they received a message of `kind` for
\* `ids`: one for an id without a callback is dropped. The window delivers in order,
\* so this happens in the step that posts the message.
Told(kind, ids) ==
  shown' = [s \in Subscriptions |-> IF s \in ids \intersect callbacks THEN kind ELSE shown[s]]

----------------------------------------------------------------------------
(* The relay. `rel` is its closure state while one of its handlers runs.    *)

Relay == [subscriptions |-> relayed, port |-> port, reconnect |-> reconnect]

\* scheduleReconnect
Scheduled(rel) ==
  [rel EXCEPT !.reconnect = @ \/ rel.subscriptions # {}]

\* losePort: the failure goes to every subscription, and a reconnection follows.
PortLost(rel) == Scheduled([rel EXCEPT !.port = NoPort])

\* Ports are told apart only while something refers to them, so one that is over
\* on both sides may stand for the next port.
Unused(p) ==
  /\ p # port /\ ~Open(p) /\ Unsettled(p) = {} /\ owned[p].authorization = "none"
  /\ toWorker[p] = <<>> /\ toRelay[p] = <<>>
FreshPort == CHOOSE p \in Ports : Unused(p) /\ \A q \in Ports : Unused(q) => p <= q

\* openPort with what it does: it opens a port and subscribes everything over it,
\* or it cannot connect, tells the subscriptions and schedules another try.
OpenPort(rel) ==
  \/ /\ \E p \in Ports : Unused(p)
     /\ relayed' = rel.subscriptions /\ port' = FreshPort /\ reconnect' = rel.reconnect
     /\ owned' = [owned EXCEPT ![port'] = NewPort]
     /\ \E order \in [1 .. Cardinality(rel.subscriptions) -> rel.subscriptions] :
          /\ {order[i] : i \in DOMAIN order} = rel.subscriptions
          /\ toWorker' = [toWorker EXCEPT ![port'] =
                            [i \in DOMAIN order |-> Subscribing(order[i])]]
     /\ UNCHANGED <<troubles, shown>>
  \/ /\ troubles < MaxTroubles
     /\ troubles' = troubles + 1
     /\ LET tried == Scheduled(rel) IN
          relayed' = tried.subscriptions /\ port' = tried.port /\ reconnect' = tried.reconnect
     /\ Told("lost", rel.subscriptions)
     /\ UNCHANGED <<owned, toWorker>>

\* The window's message listener, for a subscription.
RelaySubscribe ==
  /\ window # <<>> /\ Head(window).kind = "subscribe"
  /\ window' = Tail(window)
  /\ LET s == Head(window).subscription
         rel == [Relay EXCEPT !.subscriptions = @ \union {s}]
     IN IF port = NoPort /\ ~reconnect
          THEN OpenPort(rel)
          ELSE /\ relayed' = rel.subscriptions
               /\ toWorker' = IF port = NoPort THEN toWorker
                              ELSE [toWorker EXCEPT ![port] = Append(@, Subscribing(s))]
               /\ UNCHANGED <<owned, troubles, port, reconnect, shown>>
  /\ UNCHANGED <<attempts, aborted, toRelay, grantVars, serving,
                 callbacks, allocated>>

\* The listener for a cancellation: the last one closes the port and forgets the
\* reconnection.
RelayUnsubscribe ==
  /\ window # <<>> /\ Head(window).kind = "unsubscribe"
  /\ window' = Tail(window)
  /\ LET s == Head(window).subscription
         left == relayed \ {s}
         told == IF left = {} THEN <<Unsubscribing(s), Disconnect>> ELSE <<Unsubscribing(s)>>
     IN IF s \notin relayed
          THEN UNCHANGED <<relayed, port, reconnect, toWorker, toRelay>>
          ELSE /\ relayed' = left
               /\ reconnect' = (reconnect /\ left # {})
               /\ port' = IF left = {} THEN NoPort ELSE port
               /\ toWorker' = IF port = NoPort THEN toWorker
                              ELSE [toWorker EXCEPT ![port] = @ \o told]
               /\ toRelay' = IF port = NoPort \/ left # {} THEN toRelay
                             ELSE [toRelay EXCEPT ![port] = <<>>]
  /\ UNCHANGED <<owned, attempts, aborted, grantVars, troubles, serving,
                 callbacks, allocated, shown>>

\* The scheduled reconnection runs.
Reconnect ==
  /\ reconnect
  /\ LET rel == [Relay EXCEPT !.reconnect = FALSE] IN
       IF port = NoPort /\ relayed # {}
         THEN OpenPort(rel)
         ELSE reconnect' = FALSE /\ UNCHANGED <<relayed, port, shown, owned, toWorker, troubles>>
  /\ UNCHANGED <<attempts, aborted, toRelay, grantVars, serving,
                 callbacks, allocated, window>>

\* receive: what the worker posts on the owned port goes on to the subscriptions
\* that are still there; another port's messages are dropped.
RelayReceive(p) ==
  /\ toRelay[p] # <<>>
  /\ toRelay' = [toRelay EXCEPT ![p] = Tail(@)]
  /\ LET m == Head(toRelay[p]) IN
     \/ /\ m.kind = "disconnect" /\ p = port
        /\ LET rel == PortLost(Relay) IN
             relayed' = rel.subscriptions /\ port' = rel.port /\ reconnect' = rel.reconnect
        /\ Told("lost", relayed)
     \/ /\ m.kind # "disconnect" /\ p = port
        /\ Told(m.kind, m.to \intersect relayed)
        /\ UNCHANGED <<relayed, port, reconnect>>
     \/ /\ p # port
        /\ UNCHANGED <<shown, relayed, port, reconnect>>
  /\ UNCHANGED <<workerVars, toWorker, grantVars, troubles, serving,
                 callbacks, allocated, window>>

----------------------------------------------------------------------------
(* The worker dies: its event page is unloaded, or the extension is reloaded. *)

WorkerDies ==
  /\ troubles < MaxTroubles
  /\ troubles' = troubles + 1
  /\ owned' = [p \in Ports |-> Unconnected]
  /\ attempts' = [p \in Ports |-> [a \in Attempts |-> "idle"]]
  /\ aborted' = [p \in Ports |-> {}]
  /\ toWorker' = [p \in Ports |-> <<>>]
  /\ toRelay' = [p \in Ports |->
                   IF owned[p].state = "none" THEN toRelay[p] ELSE Append(toRelay[p], Disconnect)]
  /\ UNCHANGED <<grantVars, serving, pageVars, relayVars>>

----------------------------------------------------------------------------

InitRelay ==
  /\ InitStreams
  /\ callbacks = {} /\ allocated = {} /\ window = <<>>
  /\ shown = [s \in Subscriptions |-> "nothing"]
  /\ relayed = {} /\ port = NoPort /\ reconnect = FALSE

\* Steps of the browser, the worker and the relay, as against the page's and the
\* user's.
WorkerStep ==
  /\ HandleRemoval \/ \E p \in Ports : PortStep(p)
  /\ UNCHANGED <<pageVars, relayVars>>
RelayStep ==
  RelaySubscribe \/ RelayUnsubscribe \/ Reconnect \/ \E p \in Ports : RelayReceive(p)

NextRelay ==
  \/ \E s \in Subscriptions : Subscribe(s) \/ Cancel(s)
  \/ RelayStep \/ WorkerStep \/ WorkerDies
  \/ StreamEnvironment /\ UNCHANGED <<pageVars, relayVars>>

\* Promises settle, timers fire, messages arrive, and a server that stays up
\* publishes. Nothing is assumed of the user, the page, or the server's staying up.
Publishes == \E p \in Ports, a \in Attempts : Snapshot(p, a)
WorkerHandles ==
  \/ HandleRemoval
  \/ \E p \in Ports : \/ Answer(p) \/ Decide(p) \/ TimerFires(p) \/ WorkerReceive(p)
                      \/ \E a \in Attempts : Settle(p, a)
FairRelay ==
  /\ WF_relayRunVars(WorkerHandles /\ UNCHANGED <<pageVars, relayVars>>)
  /\ WF_relayRunVars(Publishes /\ UNCHANGED <<pageVars, relayVars>>)
  /\ WF_relayRunVars(RelaySubscribe \/ RelayUnsubscribe)
  /\ WF_relayRunVars(\E p \in Ports : RelayReceive(p))
  /\ WF_relayRunVars(Reconnect)

RelaySpec == InitRelay /\ [][NextRelay]_relayRunVars /\ FairRelay

----------------------------------------------------------------------------
(* Properties.                                                             *)

\* An attempt that is neither settled nor aborted is the one its port owns, and a
\* port owns one only while somebody is subscribed and no reconnection waits: the
\* server is never left probing printers for nobody, or twice for one port.
OneStreamPerPort ==
  \A p \in Ports :
    /\ Unsettled(p) \ aborted[p] \subseteq {owned[p].stream}
    /\ owned[p].stream # NoAttempt =>
         Open(p) /\ owned[p].subscriptions # {} /\ ~owned[p].timer

\* Once the worker handled the removal of the grant, nothing posts a snapshot
\* before the user grants the origin again, not even an attempt or a check of the
\* grant that was under way.
SnapshotsNeedGrant ==
  [][\A p \in Ports :
       Len(toRelay'[p]) > Len(toRelay[p]) /\ toRelay'[p][Len(toRelay'[p])].kind = "snapshot"
         => clean]_relayRunVars

Answered(s) == s \notin callbacks \/ shown[s] \in {"snapshot", "denied"}
\* A removal closed the worker's side of the port the relay still owns.
Orphaned == port # NoPort /\ owned[port].state = "closed"

\* When the server stays up in the end, a subscription the page keeps is told the
\* printers or that the origin is not granted, whatever died, was refused or was
\* cut before; a port closed by a removal is the one exception.
SubscribersAreAnswered ==
  <>[]serving => \A s \in Subscriptions : (s \in callbacks) ~> (Answered(s) \/ Orphaned)
=============================================================================
