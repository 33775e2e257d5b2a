--------------------------- MODULE PrinterMonitor ---------------------------
(***************************************************************************)
(* The subscriber-driven printer inventory of `escpost serve`              *)
(* (features/printers/monitor.rs), the handlers that register a printer    *)
(* (features/printers/add) and the registration files they share.          *)
(*                                                                         *)
(* One step is one stretch of code between two synchronisation points: a   *)
(* section under the state mutex, a call on a Notify or a watch channel,   *)
(* or the code up to an await.  A registration file is the number of       *)
(* registrations it has received: an inventory is what one read of the     *)
(* file showed, so it is named by that number.  The task of a generation   *)
(* and the Notify made for it are both named by the generation.            *)
(***************************************************************************)
EXTENDS Naturals, FiniteSets

CONSTANTS
  Streams,        \* the callers of subscribe(): one per open event stream
  Handlers,       \* POST /api/printers/add handlers that may run at once
  Files,          \* printers.toml files
  DefaultFile,    \* the file resolved_path(None) names
  MonitoredFile,  \* the file `serve` was told to monitor
  MaxGeneration,  \* bound: generations of the monitor
  MaxRegistrations \* bound: registrations a file receives

ASSUME StreamsFinite == IsFiniteSet(Streams)
ASSUME FilesAssumption == DefaultFile \in Files /\ MonitoredFile \in Files
ASSUME BoundsAssumption == MaxGeneration \in Nat /\ MaxRegistrations \in Nat

VARIABLES
  config,       \* registrations in each file
  handlers,     \* each handler's place between saving and answering
  registered,   \* registrations whose handler has answered 201
  subscribers, generation, refresh, task,   \* struct State
  snapshots,    \* the value the watch channel retains
  collection,   \* the task that holds the `collection` mutex
  tasks,        \* each generation's background task and its Notify's permit
  streams,      \* each subscription and what its caller has been given
  floor         \* history: registrations when the present session began

state == <<subscribers, generation, refresh, task>>
vars == <<config, handlers, registered, state, snapshots, collection,
          tasks, streams, floor>>

-----------------------------------------------------------------------------
(* Values.  Generation 0 names no task, no Notify and no snapshot.         *)
Generations == 1..MaxGeneration
None == 0

Snapshot == [generation : Nat, read : Nat, printers : Nat, warning : BOOLEAN]
NoSnapshot == [generation |-> None, read |-> 0, printers |-> 0, warning |-> FALSE]

\* What tells two snapshots handed to a caller apart.
Delivery == [generation : Nat, read : Nat]
Delivered(snapshot) == [generation |-> snapshot.generation, read |-> snapshot.read]
NoDelivery == Delivered(NoSnapshot)

\* Where a task holds the collection mutex.
Collecting == {"checking", "reading", "probing", "publishing"}
\* The awaits of `run`, where an abort takes effect.
Awaiting == {"waiting", "probing", "sleeping"}
TaskPlaces == {"unborn", "done"} \cup Collecting \cup Awaiting

Task == [at : TaskPlaces, aborted : BOOLEAN, permit : BOOLEAN, snapshot : Snapshot]
Handler == [at : {"idle", "saved", "notifying"}, saved : Nat, notify : Nat]
Stream == [at : {"closed", "joining", "open"}, retained : Delivery,
           changed : BOOLEAN, view : Delivery]

Unborn == [at |-> "unborn", aborted |-> FALSE, permit |-> FALSE,
           snapshot |-> NoSnapshot]
\* A task that returned keeps nothing, and nobody waits on its Notify again.
Returned == [Unborn EXCEPT !.at = "done"]
Idle == [at |-> "idle", saved |-> 0, notify |-> None]
Closed == [at |-> "closed", retained |-> NoDelivery, changed |-> FALSE,
           view |-> NoDelivery]

\* The same task, handler or stream after one of its fields has changed.
MovedTo(t, place) == [t EXCEPT !.at = place]
Holding(t, place, snapshot) == [t EXCEPT !.at = place, !.snapshot = snapshot]
Permitted(t) == [t EXCEPT !.permit = TRUE]
Woken(t) == [t EXCEPT !.at = "waiting", !.permit = FALSE]
Notifying(t, g) == [t EXCEPT !.at = "notifying", !.notify = g]
TookRetained(t) == [t EXCEPT !.view = t.retained, !.retained = NoDelivery]
TookPublished(t, d) == [t EXCEPT !.view = d, !.changed = FALSE]
Marked(t) == IF t.at = "closed" THEN t ELSE [t EXCEPT !.changed = TRUE]

-----------------------------------------------------------------------------
Init ==
  /\ config = [f \in Files |-> 0]
  /\ handlers = [h \in Handlers |-> Idle]
  /\ registered = 0
  /\ subscribers = 0
  /\ generation = 0
  /\ refresh = None
  /\ task = None
  /\ snapshots = NoSnapshot
  /\ collection = None
  /\ tasks = [g \in Generations |-> Unborn]
  /\ streams = [s \in Streams |-> Closed]
  /\ floor = 0

-----------------------------------------------------------------------------
(* Subscriptions.                                                          *)

\* The first half of subscribe(): the receiver exists and the retained value
\* is read before the state mutex is taken.
Receive(s) ==
  /\ streams[s].at = "closed"
  /\ streams' = [streams EXCEPT ![s] = [at |-> "joining", changed |-> FALSE,
                                        retained |-> Delivered(snapshots),
                                        view |-> NoDelivery]]
  /\ UNCHANGED <<config, handlers, registered, state, snapshots, collection, tasks, floor>>

\* The second half, under the state mutex: the first subscriber starts a task.
Join(s) ==
  /\ streams[s].at = "joining"
  /\ streams' = [streams EXCEPT ![s] = MovedTo(@, "open")]
  /\ subscribers' = subscribers + 1
  /\ IF subscribers = 0
       THEN /\ generation < MaxGeneration
            /\ generation' = generation + 1
            /\ refresh' = generation'
            /\ task' = generation'
            /\ tasks' = [tasks EXCEPT ![generation'] = MovedTo(@, "waiting")]
            /\ floor' = config[MonitoredFile]
       ELSE UNCHANGED <<generation, refresh, task, tasks, floor>>
  /\ UNCHANGED <<config, handlers, registered, snapshots, collection>>

\* A subscription exists once subscribe() has returned.
Subscribed(s) == streams[s].at = "open"

\* Subscription::next: the retained snapshot first, then the channel.
TakesRetainedIfUnchanged(s) ==
  streams[s].retained # NoDelivery /\ ~streams[s].changed
TakesRetained(s) == streams[s].retained # NoDelivery

NextSnapshot(s) ==
  /\ Subscribed(s)
  /\ \/ /\ TakesRetained(s)
        /\ streams' = [streams EXCEPT ![s] = TookRetained(@)]
     \/ /\ ~TakesRetained(s)
        /\ streams[s].changed
        /\ streams' = [streams EXCEPT ![s] = TookPublished(@, Delivered(snapshots))]
  /\ UNCHANGED <<config, handlers, registered, state, snapshots, collection, tasks, floor>>

\* The subscription being dropped is the last one.
LastSubscription == subscribers = 1

\* task.abort(), where dropping the handle alone would leave the task running.
Detached(t) == tasks
Aborted(t) == [tasks EXCEPT ![t] = [@ EXCEPT !.aborted = TRUE]]

\* Drop for Subscription: the last one retires the generation and its task.
DropSubscription(s) ==
  /\ Subscribed(s)
  /\ streams' = [streams EXCEPT ![s] = Closed]
  /\ subscribers' = subscribers - 1
  /\ IF LastSubscription /\ task # None
       THEN /\ generation < MaxGeneration
            /\ task' = None
            /\ refresh' = None
            /\ generation' = generation + 1
            /\ tasks' = Aborted(task)
       ELSE UNCHANGED <<task, refresh, generation, tasks>>
  /\ UNCHANGED <<config, handlers, registered, snapshots, collection, floor>>

-----------------------------------------------------------------------------
(* The background task of generation g.                                    *)

\* Whether the state still wants generation g.
AnySubscriber(g) == subscribers # 0
Active(g) == subscribers # 0 /\ generation = g

\* The collection mutex, once task g drops the guard it may hold.
Leaked(g) == collection
Released(g) == IF collection = g THEN None ELSE collection

MutexIgnored == TRUE
MutexFree == collection = None

\* collection.lock().await
AcquireCollection(g) ==
  /\ tasks[g].at = "waiting"
  /\ MutexFree
  /\ collection' = g
  /\ tasks' = [tasks EXCEPT ![g] = MovedTo(@, "checking")]
  /\ UNCHANGED <<config, handlers, registered, state, snapshots,
                 streams, floor>>

\* The first look at the state: a retired task returns and frees the mutex.
CheckActive(g) ==
  /\ tasks[g].at = "checking"
  /\ tasks' = [tasks EXCEPT ![g] = IF Active(g) THEN MovedTo(@, "reading") ELSE Returned]
  /\ collection' = IF Active(g) THEN collection ELSE Released(g)
  /\ UNCHANGED <<config, handlers, registered, state, snapshots,
                 streams, floor>>

\* What collect_and_publish makes of a response: the printers the file named,
\* or a warning over the rows it finds in the channel.
Listed(g, read) ==
  [generation |-> g, read |-> read, printers |-> read, warning |-> FALSE]
Failed(g, read) ==
  [generation |-> g, read |-> read, printers |-> snapshots.printers, warning |-> TRUE]

\* configuration::load at the head of the collection, which may fail.
ReadConfiguration(g) ==
  /\ tasks[g].at = "reading"
  /\ LET read == config[MonitoredFile]
     IN  tasks' \in {[tasks EXCEPT ![g] = Holding(@, "probing", Listed(g, read))],
                     [tasks EXCEPT ![g] = Holding(@, "publishing", Failed(g, read))]}
  /\ UNCHANGED <<config, handlers, registered, state, snapshots, collection,
                 streams, floor>>

\* The probes and the USB inventory answer, or the inventory fails.
FinishProbes(g) ==
  /\ tasks[g].at = "probing"
  /\ \E snapshot \in {tasks[g].snapshot, Failed(g, tasks[g].snapshot.read)} :
        tasks' = [tasks EXCEPT ![g] = Holding(@, "publishing", snapshot)]
  /\ UNCHANGED <<config, handlers, registered, state, snapshots, collection,
                 streams, floor>>

\* The second look at the state, and send_replace under the same guard.
Publish(g) ==
  /\ tasks[g].at = "publishing"
  /\ collection' = Released(g)
  /\ IF Active(g)
       THEN /\ snapshots' = tasks[g].snapshot
            /\ streams' = [s \in Streams |-> Marked(streams[s])]
            /\ tasks' = [tasks EXCEPT ![g] = Holding(@, "sleeping", NoSnapshot)]
       ELSE /\ tasks' = [tasks EXCEPT ![g] = Returned]
            /\ UNCHANGED <<snapshots, streams>>
  /\ UNCHANGED <<config, handlers, registered, state, floor>>

\* The collection interval elapses.
IntervalElapsed(g) ==
  /\ tasks[g].at = "sleeping"
  /\ tasks' = [tasks EXCEPT ![g] = MovedTo(@, "waiting")]
  /\ UNCHANGED <<config, handlers, registered, state, snapshots, collection, streams, floor>>

\* refresh.notified() takes the permit.
Notified(g) ==
  /\ tasks[g].at = "sleeping"
  /\ tasks[g].permit
  /\ tasks' = [tasks EXCEPT ![g] = Woken(@)]
  /\ UNCHANGED <<config, handlers, registered, state, snapshots, collection,
                 streams, floor>>

\* An abort ends the task at an await and drops the guard it holds.  A poll
\* in progress when the abort comes may get further first, so the other steps
\* of an aborted task stay possible.
CancelTask(g) ==
  /\ tasks[g].aborted
  /\ tasks[g].at \in Awaiting
  /\ tasks' = [tasks EXCEPT ![g] = Returned]
  /\ collection' = Released(g)
  /\ UNCHANGED <<config, handlers, registered, state, snapshots,
                 streams, floor>>

-----------------------------------------------------------------------------
(* Registrations.                                                          *)

\* add::execute in the HTTP handler, whose request names no file.
SaveRegistration(h) ==
  /\ handlers[h].at = "idle"
  /\ config[DefaultFile] < MaxRegistrations
  /\ config' = [config EXCEPT ![DefaultFile] = @ + 1]
  /\ handlers' = [handlers EXCEPT ![h] =
                    [at |-> "saved", saved |-> config'[DefaultFile], notify |-> None]]
  /\ UNCHANGED <<registered, state, snapshots, collection, tasks,
                 streams, floor>>

Answer(h) ==
  /\ handlers' = [handlers EXCEPT ![h] = Idle]
  /\ registered' = IF registered < handlers[h].saved THEN handlers[h].saved
                                                     ELSE registered

\* request_refresh under the state mutex: which Notify to wake, if any.
FindRefresh(h) ==
  /\ handlers[h].at = "saved"
  /\ IF subscribers # 0 /\ refresh # None
       THEN /\ handlers' = [handlers EXCEPT ![h] = Notifying(@, refresh)]
            /\ UNCHANGED registered
       ELSE Answer(h)
  /\ UNCHANGED <<config, state, snapshots, collection, tasks, streams, floor>>

\* notify_one leaves a permit when the task is not waiting on its Notify.
WakesOnlyWaiter(g) == tasks[g].at = "sleeping"
LeavesPermit(g) == tasks[g].at # "done"

\* notify_one, after the mutex is released.
NotifyOne(h) ==
  /\ handlers[h].at = "notifying"
  /\ LET n == handlers[h].notify
     IN  tasks' = IF LeavesPermit(n) THEN [tasks EXCEPT ![n] = Permitted(@)] ELSE tasks
  /\ Answer(h)
  /\ UNCHANGED <<config, state, snapshots, collection, streams, floor>>

\* `escpost printers add` in another process, which has no monitor to wake.
RegisterFromCli(f) ==
  /\ config[f] < MaxRegistrations
  /\ config' = [config EXCEPT ![f] = @ + 1]
  /\ UNCHANGED <<handlers, registered, state, snapshots, collection,
                 tasks, streams, floor>>

-----------------------------------------------------------------------------
TaskStep(g) ==
  \/ AcquireCollection(g)
  \/ CheckActive(g)
  \/ ReadConfiguration(g)
  \/ FinishProbes(g)
  \/ Publish(g)
  \/ Notified(g)
  \/ CancelTask(g)

HandlerStep(h) == FindRefresh(h) \/ NotifyOne(h)

Next ==
  \/ \E s \in Streams : Receive(s) \/ Join(s) \/ NextSnapshot(s) \/ DropSubscription(s)
  \/ \E g \in Generations : TaskStep(g) \/ IntervalElapsed(g)
  \/ \E h \in Handlers : SaveRegistration(h) \/ HandlerStep(h)
  \/ \E f \in Files : RegisterFromCli(f)

Spec == Init /\ [][Next]_vars

\* The runtime polls every task that can move and runs a handler it has begun
\* to its answer.  The interval timer is given no fairness: what follows must
\* not lean on the next tick.
Fairness ==
  /\ \A g \in Generations : WF_vars(TaskStep(g))
  /\ \A h \in Handlers : WF_vars(HandlerStep(h))
  /\ \A s \in Streams : WF_vars(NextSnapshot(s))

FairSpec == Spec /\ Fairness

-----------------------------------------------------------------------------
(* Properties.                                                             *)

OpenStreams == {s \in Streams : streams[s].at = "open"}

\* The values the variables hold; subscribers counts the open streams
\* (`subscribers` of struct State, never below zero).
TypeOK ==
  /\ config \in [Files -> Nat]
  /\ handlers \in [Handlers -> Handler]
  /\ registered \in Nat
  /\ subscribers \in Nat
  /\ generation \in 0..MaxGeneration
  /\ refresh \in 0..MaxGeneration
  /\ task \in 0..MaxGeneration
  /\ snapshots \in Snapshot
  /\ collection \in 0..MaxGeneration
  /\ tasks \in [Generations -> Task]
  /\ streams \in [Streams -> Stream]
  /\ floor \in Nat
  /\ subscribers = Cardinality(OpenStreams)

\* Two collections never overlap, even while a retired task is still busy
\* with its probes as the next subscriber's task starts: the collection mutex
\* of collect_and_publish spans the whole collection.
OneCollection ==
  \A g, h \in Generations :
    tasks[g].at \in Collecting /\ tasks[h].at \in Collecting => g = h

\* While anybody is subscribed exactly one task lives that nobody has aborted,
\* it is the newest generation's, a refresh reaches its Notify, and it never
\* returns; while nobody is subscribed no such task is left.
LivePoller ==
  /\ subscribers # 0 => /\ task = generation /\ refresh = generation
                        /\ generation \in Generations
                        /\ ~tasks[generation].aborted
                        /\ tasks[generation].at \in Collecting \cup Awaiting
  /\ \A g \in Generations :
       tasks[g].at \notin {"unborn", "done"} /\ ~tasks[g].aborted
         => subscribers # 0 /\ g = generation

\* What a subscription hands its caller never goes back to an older read of
\* the registrations: the retained snapshot comes before whatever was
\* published since, and publications keep the order of their reads.
ViewsNeverGoBack ==
  [][\A s \in Streams :
       streams[s].at = "open" /\ streams'[s].at = "open"
         => streams[s].view.read <= streams'[s].view.read]_streams

\* The monitor implements the feed: it publishes only to a live session, only
\* what was read during that session, and a failed check keeps the rows shown.
Feed == INSTANCE InventoryFeed WITH
  Watchers <- Streams,
  registrations <- config[MonitoredFile],
  watching <- OpenStreams,
  began <- floor,
  latest <- [read |-> snapshots.read, printers |-> snapshots.printers,
             warning |-> snapshots.warning]

ImplementsFeed == Feed!FeedSpec

\* A registration answered with 201 reaches every open stream without waiting
\* for the interval: request_refresh wakes the task, or the task that is about
\* to read the file reads it afterwards.
RegistrationReachesStreams ==
  \A s \in Streams, v \in 1..MaxRegistrations :
    (registered >= v /\ streams[s].at = "open")
      ~> (streams[s].at # "open" \/ streams[s].view.read >= v)

\* Every stream that stays open is given a snapshot of its own session.
StreamsGetFreshSnapshot ==
  \A s \in Streams :
    streams[s].at = "open"
      ~> (streams[s].at # "open" \/ streams[s].view.generation = generation)

\* Once the last subscription closes, and without waiting for the interval,
\* every task ends, unless somebody subscribes again.
ProbingStops ==
  subscribers = 0
    ~> (subscribers # 0 \/ \A g \in Generations : tasks[g].at \in {"unborn", "done"})
=============================================================================
