-------------------------- MODULE InventoryProofs ---------------------------
(***************************************************************************)
(* The safety of the printer monitor, for any number of streams, handlers, *)
(* files, generations and registrations; and the identity of USB printers, *)
(* for any devices, ports, names and commands.                             *)
(***************************************************************************)
EXTENDS PrinterMonitor, UsbPrinters, FiniteSetTheorems, TLAPS

-----------------------------------------------------------------------------
(* The monitor: the inductive invariant.                                   *)

\* The collection mutex is held by exactly the task that is collecting.
MutexInv ==
  \A g \in Generations : tasks[g].at \in Collecting <=> collection = g

\* A generation has a task once the state has reached it, the state keeps that
\* task only while somebody subscribes, and a handler only holds the Notify of
\* a generation that had one.
LiveInv ==
  /\ LivePoller
  /\ subscribers = 0 => task = None
  /\ \A g \in Generations : generation < g => tasks[g] = Unborn
  /\ \A h \in Handlers :
       handlers[h].at = "notifying" => /\ handlers[h].notify \in Generations
                                       /\ handlers[h].notify <= generation

\* Reads happen in order: what a caller was given is no newer than what is
\* published, that no newer than what is being collected, and that no newer
\* than the file; the live task reads nothing older than its session.
Pending(g) ==
  /\ snapshots.read <= tasks[g].snapshot.read
  /\ tasks[g].snapshot.read <= config[MonitoredFile]
  /\ Active(g) => floor <= tasks[g].snapshot.read
  /\ \/ tasks[g].snapshot = Listed(g, tasks[g].snapshot.read)
     \/ /\ tasks[g].at = "publishing"
        /\ tasks[g].snapshot = Failed(g, tasks[g].snapshot.read)

ReadInv ==
  /\ floor <= config[MonitoredFile]
  /\ snapshots.read <= config[MonitoredFile]
  /\ \A g \in Generations : tasks[g].at \in {"probing", "publishing"} => Pending(g)

ViewInv ==
  \A s \in Streams :
    /\ streams[s].view.read <= snapshots.read
    /\ streams[s].retained.read <= snapshots.read
    /\ streams[s].retained # NoDelivery => streams[s].view = NoDelivery

IInv == TypeOK /\ MutexInv /\ LiveInv /\ ReadInv /\ ViewInv

-----------------------------------------------------------------------------
USE DEF Generations, None

LEMMA ValueTypes ==
  /\ NoSnapshot \in Snapshot
  /\ NoDelivery \in Delivery
  /\ \A snapshot \in Snapshot : Delivered(snapshot) \in Delivery
  /\ Unborn \in Task
  /\ Returned \in Task
  /\ Idle \in Handler
  /\ Closed \in Stream
BY DEF NoSnapshot, Snapshot, NoDelivery, Delivery, Delivered, Unborn, Returned,
       Task, Idle, Handler, Closed, Stream, TaskPlaces, Collecting, Awaiting

LEMMA Places ==
  /\ "waiting" \in TaskPlaces
  /\ "checking" \in TaskPlaces
  /\ "reading" \in TaskPlaces
  /\ "probing" \in TaskPlaces
  /\ "publishing" \in TaskPlaces
  /\ "sleeping" \in TaskPlaces
BY DEF TaskPlaces, Collecting, Awaiting

\* What a step does to a task, a stream or a handler leaves it one.
LEMMA TaskUpdates ==
  /\ \A t \in Task, p \in TaskPlaces : MovedTo(t, p) \in Task
  /\ \A t \in Task, p \in TaskPlaces, snapshot \in Snapshot :
       Holding(t, p, snapshot) \in Task
  /\ \A t \in Task : Permitted(t) \in Task /\ Woken(t) \in Task
  /\ \A t \in Task : [t EXCEPT !.aborted = TRUE] \in Task
<1>1. "waiting" \in TaskPlaces
  BY DEF TaskPlaces, Awaiting
<1> QED
  BY <1>1 DEF Task, MovedTo, Holding, Permitted, Woken

LEMMA StreamUpdates ==
  /\ \A t \in Stream : MovedTo(t, "open") \in Stream
  /\ \A t \in Stream : TookRetained(t) \in Stream
  /\ \A t \in Stream : Marked(t) \in Stream
  /\ \A t \in Stream, d \in Delivery : TookPublished(t, d) \in Stream
BY ValueTypes DEF Stream, MovedTo, TookRetained, Marked, TookPublished

LEMMA HandlerUpdate ==
  \A t \in Handler, g \in Nat : Notifying(t, g) \in Handler
BY DEF Handler, Notifying

\* What those steps leave alone.
LEMMA TaskFields ==
  /\ \A t \in Task, p \in TaskPlaces :
       /\ MovedTo(t, p).at = p
       /\ MovedTo(t, p).aborted = t.aborted
       /\ MovedTo(t, p).snapshot = t.snapshot
  /\ \A t \in Task, p \in TaskPlaces, snapshot \in Snapshot :
       /\ Holding(t, p, snapshot).at = p
       /\ Holding(t, p, snapshot).aborted = t.aborted
       /\ Holding(t, p, snapshot).snapshot = snapshot
  /\ \A t \in Task :
       /\ Permitted(t).at = t.at
       /\ Permitted(t).aborted = t.aborted
       /\ Permitted(t).snapshot = t.snapshot
       /\ Woken(t).at = "waiting"
       /\ Woken(t).aborted = t.aborted
       /\ Woken(t).snapshot = t.snapshot
  /\ \A t \in Task :
       /\ [t EXCEPT !.aborted = TRUE].aborted = TRUE
       /\ [t EXCEPT !.aborted = TRUE].at = t.at
       /\ [t EXCEPT !.aborted = TRUE].snapshot = t.snapshot
BY DEF Task, MovedTo, Holding, Permitted, Woken

LEMMA StreamFields ==
  /\ \A t \in Stream :
       /\ MovedTo(t, "open").at = "open"
       /\ MovedTo(t, "open").view = t.view
       /\ MovedTo(t, "open").retained = t.retained
       /\ TookRetained(t).at = t.at
       /\ TookRetained(t).view = t.retained
       /\ TookRetained(t).retained = NoDelivery
       /\ Marked(t).at = t.at
       /\ Marked(t).view = t.view
       /\ Marked(t).retained = t.retained
  /\ \A t \in Stream, d \in Delivery :
       /\ TookPublished(t, d).at = t.at
       /\ TookPublished(t, d).view = d
       /\ TookPublished(t, d).retained = t.retained
BY DEF Stream, MovedTo, TookRetained, Marked, TookPublished

LEMMA SnapshotTypes ==
  ASSUME TypeOK
  PROVE  /\ \A g \in Generations : tasks[g].snapshot \in Snapshot
         /\ \A g \in Generations : tasks[g].snapshot.read \in Nat
         /\ \A g \in Generations, read \in Nat : Listed(g, read) \in Snapshot
         /\ \A g \in Generations, read \in Nat : Failed(g, read) \in Snapshot
<1>1. \A g \in Generations : tasks[g].snapshot \in Snapshot
  BY DEF TypeOK, Task
<1>2. \A g \in Generations : tasks[g].snapshot.read \in Nat
  BY <1>1 DEF Snapshot
<1>3. snapshots.printers \in Nat
  BY DEF TypeOK, Snapshot
<1> QED
  BY <1>1, <1>2, <1>3 DEF Listed, Failed, Snapshot

LEMMA InitInv == Init => IInv
<1> SUFFICES ASSUME Init PROVE IInv
  OBVIOUS
<1>1. OpenStreams = {} /\ Cardinality(OpenStreams) = 0
  BY FS_EmptySet DEF Init, OpenStreams, Closed
<1>2. TypeOK
  BY <1>1, ValueTypes, BoundsAssumption DEF TypeOK, Init
<1>3. MutexInv
  BY DEF Init, MutexInv, Unborn, Collecting
<1>4. LiveInv
  BY DEF Init, LiveInv, LivePoller, Unborn, Idle
<1>5. ReadInv
  BY FilesAssumption DEF Init, ReadInv, Unborn, NoSnapshot
<1>6. ViewInv
  BY DEF Init, ViewInv, Closed, NoDelivery, NoSnapshot, Delivered
<1> QED
  BY <1>2, <1>3, <1>4, <1>5, <1>6 DEF IInv

-----------------------------------------------------------------------------
(* The count of subscribers is the number of open streams.                 *)

LEMMA OpenStreamsFinite ==
  /\ IsFiniteSet(OpenStreams)
  /\ Cardinality(OpenStreams) \in Nat
BY StreamsFinite, FS_Subset, FS_CardinalityType DEF OpenStreams

LEMMA JoinCounts ==
  ASSUME TypeOK, NEW s \in Streams, Join(s)
  PROVE  /\ OpenStreams' = OpenStreams \cup {s}
         /\ subscribers' = Cardinality(OpenStreams')
<1>1. s \notin OpenStreams /\ OpenStreams' = OpenStreams \cup {s}
  BY StreamFields DEF Join, OpenStreams, TypeOK
<1>2. Cardinality(OpenStreams \cup {s}) = Cardinality(OpenStreams) + 1
  BY <1>1, OpenStreamsFinite, FS_AddElement
<1> QED
  BY <1>1, <1>2 DEF Join, TypeOK

LEMMA DropCounts ==
  ASSUME TypeOK, NEW s \in Streams, DropSubscription(s)
  PROVE  /\ OpenStreams' = OpenStreams \ {s}
         /\ subscribers # 0
         /\ subscribers' = Cardinality(OpenStreams')
<1>1. s \in OpenStreams /\ OpenStreams' = OpenStreams \ {s}
  BY DEF DropSubscription, Subscribed, OpenStreams, TypeOK, Stream, Closed
<1>2. Cardinality(OpenStreams \ {s}) = Cardinality(OpenStreams) - 1
  BY <1>1, OpenStreamsFinite, FS_RemoveElement
<1>3. Cardinality(OpenStreams) # 0
  BY <1>1, OpenStreamsFinite, FS_EmptySet
<1> QED
  BY <1>1, <1>2, <1>3 DEF DropSubscription, TypeOK

\* No other step opens or closes a stream.
LEMMA OtherStreamSteps ==
  ASSUME TypeOK,
         \/ \E s \in Streams : Receive(s) \/ NextSnapshot(s)
         \/ \E g \in Generations : TaskStep(g) \/ IntervalElapsed(g)
         \/ \E h \in Handlers : SaveRegistration(h) \/ HandlerStep(h)
         \/ \E f \in Files : RegisterFromCli(f)
         \/ UNCHANGED vars
  PROVE  OpenStreams' = OpenStreams /\ subscribers' = subscribers
<1>1. ASSUME NEW s \in Streams, Receive(s) \/ NextSnapshot(s)
      PROVE  OpenStreams' = OpenStreams /\ subscribers' = subscribers
  <2>1. \A t \in Streams : streams'[t].at = "open" <=> streams[t].at = "open"
    <3>1. CASE Receive(s)
      BY <3>1 DEF Receive, TypeOK
    <3>2. CASE NextSnapshot(s)
      <4>1. Delivered(snapshots) \in Delivery /\ streams[s] \in Stream
        BY ValueTypes DEF TypeOK
      <4>2. TookRetained(streams[s]).at = streams[s].at
        BY <4>1, StreamFields
      <4>3. TookPublished(streams[s], Delivered(snapshots)).at = streams[s].at
        BY <4>1, StreamFields
      <4> QED
        BY <3>2, <4>2, <4>3 DEF NextSnapshot, TypeOK
    <3> QED
      BY <1>1, <3>1, <3>2
  <2> QED
    BY <1>1, <2>1 DEF Receive, NextSnapshot, OpenStreams, state
<1>2. ASSUME NEW g \in Generations, Publish(g)
      PROVE  OpenStreams' = OpenStreams /\ subscribers' = subscribers
  BY <1>2, StreamFields DEF Publish, OpenStreams, TypeOK, state
<1>3. CASE \E g \in Generations : (TaskStep(g) \/ IntervalElapsed(g)) /\ ~Publish(g)
  BY <1>3 DEF TaskStep, AcquireCollection, CheckActive, ReadConfiguration,
     FinishProbes, Notified, CancelTask, IntervalElapsed, OpenStreams, state
<1>4. CASE \E h \in Handlers : SaveRegistration(h) \/ HandlerStep(h)
  BY <1>4 DEF SaveRegistration, HandlerStep, FindRefresh, NotifyOne, OpenStreams, state
<1>5. CASE \E f \in Files : RegisterFromCli(f)
  BY <1>5 DEF RegisterFromCli, OpenStreams, state
<1>6. CASE UNCHANGED vars
  BY <1>6 DEF vars, OpenStreams, state
<1> QED
  BY <1>1, <1>2, <1>3, <1>4, <1>5, <1>6

-----------------------------------------------------------------------------
(* Type correctness.                                                       *)

LEMMA TypeStep == TypeOK /\ [Next]_vars => TypeOK'
<1> SUFFICES ASSUME TypeOK, [Next]_vars PROVE TypeOK'
  OBVIOUS
<1> USE BoundsAssumption
<1>1. subscribers' = Cardinality(OpenStreams')
  <2>1. CASE OpenStreams' = OpenStreams /\ subscribers' = subscribers
    BY <2>1 DEF TypeOK
  <2> QED
    BY <2>1, JoinCounts, DropCounts, OtherStreamSteps DEF Next
<1>2. subscribers' \in Nat
  <2>1. ASSUME NEW s \in Streams, Join(s) PROVE subscribers' \in Nat
    BY <2>1 DEF Join, TypeOK
  <2>2. ASSUME NEW s \in Streams, DropSubscription(s) PROVE subscribers' \in Nat
    <3>1. subscribers # 0
      BY <2>2, DropCounts
    <3> QED
      BY <2>2, <3>1 DEF DropSubscription, TypeOK
  <2> QED
    BY <2>1, <2>2, OtherStreamSteps DEF Next, TypeOK
<1> DEFINE Rest ==
      /\ config' \in [Files -> Nat]
      /\ handlers' \in [Handlers -> Handler]
      /\ registered' \in Nat
      /\ generation' \in 0..MaxGeneration
      /\ refresh' \in 0..MaxGeneration
      /\ task' \in 0..MaxGeneration
      /\ snapshots' \in Snapshot
      /\ collection' \in 0..MaxGeneration
      /\ tasks' \in [Generations -> Task]
      /\ streams' \in [Streams -> Stream]
      /\ floor' \in Nat
<1>3. ASSUME NEW s \in Streams, Receive(s) PROVE Rest
  <2>1. Delivered(snapshots) \in Delivery
    BY ValueTypes DEF TypeOK
  <2>2. [at |-> "joining", changed |-> FALSE, retained |-> Delivered(snapshots),
         view |-> NoDelivery] \in Stream
    BY <2>1, ValueTypes DEF Stream
  <2> QED
    BY <1>3, <2>2 DEF Receive, TypeOK, state
<1>4. ASSUME NEW s \in Streams, Join(s) PROVE Rest
  <2>1. streams' \in [Streams -> Stream]
    BY <1>4, StreamUpdates DEF Join, TypeOK
  <2>2. tasks' \in [Generations -> Task]
    <3>1. CASE subscribers = 0
      <4>1. generation + 1 \in Generations
        BY <1>4, <3>1 DEF Join, TypeOK
      <4>2. MovedTo(tasks[generation + 1], "waiting") \in Task
        BY <4>1, TaskUpdates, Places DEF TypeOK
      <4>3. tasks' = [tasks EXCEPT ![generation + 1] =
                        MovedTo(tasks[generation + 1], "waiting")]
        BY <1>4, <3>1 DEF Join
      <4> QED
        BY <4>1, <4>2, <4>3 DEF TypeOK
    <3>2. CASE subscribers # 0
      BY <1>4, <3>2 DEF Join, TypeOK
    <3> QED
      BY <3>1, <3>2
  <2> QED
    BY <1>4, <2>1, <2>2, FilesAssumption DEF Join, TypeOK
<1>5. ASSUME NEW s \in Streams, NextSnapshot(s) PROVE Rest
  <2>1. Delivered(snapshots) \in Delivery
    BY ValueTypes DEF TypeOK
  <2>2. streams' \in [Streams -> Stream]
    BY <1>5, <2>1, StreamUpdates DEF NextSnapshot, TypeOK
  <2> QED
    BY <1>5, <2>2 DEF NextSnapshot, TypeOK, state
<1>6. ASSUME NEW s \in Streams, DropSubscription(s) PROVE Rest
  <2>1. tasks' \in [Generations -> Task]
    BY <1>6, TaskUpdates DEF DropSubscription, Aborted, TypeOK
  <2> QED
    BY <1>6, <2>1, ValueTypes DEF DropSubscription, TypeOK
<1>7. ASSUME NEW g \in Generations, AcquireCollection(g) PROVE Rest
  <2>1. MovedTo(tasks[g], "checking") \in Task
    BY TaskUpdates, Places DEF TypeOK
  <2>2. tasks' \in [Generations -> Task] /\ collection' \in 0..MaxGeneration
    BY <1>7, <2>1 DEF AcquireCollection, Generations, TypeOK
  <2> QED
    BY <1>7, <2>2 DEF AcquireCollection, TypeOK, state
<1>8. ASSUME NEW g \in Generations, CheckActive(g) PROVE Rest
  <2>1. MovedTo(tasks[g], "reading") \in Task
    BY TaskUpdates, Places DEF TypeOK
  <2>2. tasks' \in [Generations -> Task]
    BY <1>8, <2>1, ValueTypes DEF CheckActive, TypeOK
  <2> QED
    BY <1>8, <2>2 DEF CheckActive, Released, TypeOK, state
<1>9. ASSUME NEW g \in Generations, ReadConfiguration(g) PROVE Rest
  <2>1. config[MonitoredFile] \in Nat
    BY FilesAssumption DEF TypeOK
  <2>2. /\ Holding(tasks[g], "probing", Listed(g, config[MonitoredFile])) \in Task
        /\ Holding(tasks[g], "publishing", Failed(g, config[MonitoredFile])) \in Task
    BY <2>1, SnapshotTypes, TaskUpdates, Places DEF TypeOK
  <2>3. tasks' \in [Generations -> Task]
    BY <1>9, <2>2 DEF ReadConfiguration, TypeOK
  <2> QED
    BY <1>9, <2>3 DEF ReadConfiguration, TypeOK, state
<1>10. ASSUME NEW g \in Generations, FinishProbes(g) PROVE Rest
  <2>1. PICK snapshot \in {tasks[g].snapshot, Failed(g, tasks[g].snapshot.read)} :
          tasks' = [tasks EXCEPT ![g] = Holding(tasks[g], "publishing", snapshot)]
    BY <1>10 DEF FinishProbes
  <2>2. Holding(tasks[g], "publishing", snapshot) \in Task
    BY SnapshotTypes, TaskUpdates, Places DEF TypeOK
  <2>3. tasks' \in [Generations -> Task]
    BY <2>1, <2>2 DEF TypeOK
  <2> QED
    BY <1>10, <2>3 DEF FinishProbes, TypeOK, state
<1>11. ASSUME NEW g \in Generations, Publish(g) PROVE Rest
  <2>1. tasks' \in [Generations -> Task]
    <3>1. Holding(tasks[g], "sleeping", NoSnapshot) \in Task
      BY TaskUpdates, Places, ValueTypes DEF TypeOK
    <3> QED
      BY <1>11, <3>1, ValueTypes DEF Publish, TypeOK
  <2>2. streams' \in [Streams -> Stream]
    BY <1>11, StreamUpdates DEF Publish, TypeOK
  <2> QED
    BY <1>11, <2>1, <2>2, SnapshotTypes DEF Publish, Released, TypeOK, state
<1>12. ASSUME NEW g \in Generations, IntervalElapsed(g) PROVE Rest
  BY <1>12, TaskUpdates, Places DEF IntervalElapsed, TypeOK, state
<1>13. ASSUME NEW g \in Generations, Notified(g) PROVE Rest
  BY <1>13, TaskUpdates DEF Notified, TypeOK, state
<1>14. ASSUME NEW g \in Generations, CancelTask(g) PROVE Rest
  BY <1>14, ValueTypes DEF CancelTask, Released, TypeOK, state
<1>15. ASSUME NEW h \in Handlers, SaveRegistration(h) PROVE Rest
  BY <1>15, FilesAssumption DEF SaveRegistration, TypeOK, Handler, state
<1>16. ASSUME NEW h \in Handlers, FindRefresh(h) PROVE Rest
  <2>1. Notifying(handlers[h], refresh) \in Handler
    BY HandlerUpdate DEF TypeOK
  <2>2. handlers[h].saved \in Nat
    BY DEF TypeOK, Handler
  <2> QED
    BY <1>16, <2>1, <2>2, ValueTypes DEF FindRefresh, Answer, TypeOK, state
<1>17. ASSUME NEW h \in Handlers, NotifyOne(h) PROVE Rest
  BY <1>17, TaskUpdates, ValueTypes DEF NotifyOne, Answer, TypeOK, Handler, state
<1>18. ASSUME NEW f \in Files, RegisterFromCli(f) PROVE Rest
  BY <1>18 DEF RegisterFromCli, TypeOK, state
<1>19. ASSUME UNCHANGED vars PROVE Rest
  BY <1>19 DEF vars, state, TypeOK
<1> HIDE DEF Rest
<1>20. Rest
  <2>1. CASE Next
    BY <2>1, <1>3, <1>4, <1>5, <1>6, <1>7, <1>8, <1>9, <1>10, <1>11, <1>12, <1>13,
       <1>14, <1>15, <1>16, <1>17, <1>18 DEF Next, TaskStep, HandlerStep
  <2> QED
    BY <2>1, <1>19
<1> QED
  BY <1>1, <1>2, <1>20 DEF TypeOK, Rest

\* The variables of the printer monitor keep their types.
THEOREM TypeCorrect == Spec => []TypeOK
<1>1. Init => TypeOK
  BY InitInv DEF IInv
<1> QED
  BY <1>1, TypeStep, PTL DEF Spec

-----------------------------------------------------------------------------
(* Mutual exclusion of the collections.                                    *)

\* Dropping a subscription moves no task.
LEMMA AbortKeepsPlaces ==
  ASSUME TypeOK, NEW s \in Streams, DropSubscription(s)
  PROVE  \A g \in Generations : /\ tasks'[g].at = tasks[g].at
                                 /\ tasks'[g].snapshot = tasks[g].snapshot
                                 /\ tasks'[g].aborted \in {tasks[g].aborted, TRUE}
<1>1. CASE LastSubscription /\ task # None
  <2>1. task \in Generations
    BY <1>1 DEF TypeOK
  <2>2. tasks' = [tasks EXCEPT ![task] = [tasks[task] EXCEPT !.aborted = TRUE]]
    BY <1>1 DEF DropSubscription, Aborted
  <2>3. \A g \in Generations : tasks[g] \in Task
    BY DEF TypeOK
  <2> DEFINE t == [tasks[task] EXCEPT !.aborted = TRUE]
  <2>4. /\ t.at = tasks[task].at
        /\ t.snapshot = tasks[task].snapshot
        /\ t.aborted = TRUE
    BY <2>1, <2>3, TaskFields
  <2> HIDE DEF t
  <2>5. tasks' = [tasks EXCEPT ![task] = t]
    BY <2>2 DEF t
  <2> QED
    BY <2>1, <2>4, <2>5 DEF TypeOK
<1>2. CASE ~(LastSubscription /\ task # None)
  BY <1>2 DEF DropSubscription
<1> QED
  BY <1>1, <1>2

LEMMA MutexStep ==
  ASSUME TypeOK, LiveInv, MutexInv, [Next]_vars
  PROVE  MutexInv'
<1> USE DEF Collecting, Awaiting
<1>1. ASSUME NEW s \in Streams, Receive(s) \/ NextSnapshot(s) PROVE MutexInv'
  BY <1>1 DEF Receive, NextSnapshot, MutexInv
<1>2. ASSUME NEW s \in Streams, Join(s) PROVE MutexInv'
  <2>1. CASE subscribers = 0
    <3>1. generation + 1 \in Generations /\ tasks[generation + 1] = Unborn
      <4>1. generation < MaxGeneration
        BY <1>2, <2>1 DEF Join
      <4>2. generation + 1 \in Generations /\ generation < generation + 1
        BY <4>1, BoundsAssumption DEF TypeOK
      <4> QED
        BY <4>2 DEF LiveInv
    <3>2. /\ tasks' = [tasks EXCEPT ![generation + 1] =
                         MovedTo(tasks[generation + 1], "waiting")]
          /\ collection' = collection
      BY <1>2, <2>1 DEF Join
    <3>3. MovedTo(tasks[generation + 1], "waiting").at = "waiting"
      BY <3>1, TaskFields, Places DEF TypeOK
    <3>4. tasks[generation + 1].at = "unborn"
      BY <3>1 DEF Unborn
    <3> QED
      BY <3>1, <3>2, <3>3, <3>4 DEF MutexInv, TypeOK
  <2>2. CASE subscribers # 0
    BY <1>2, <2>2 DEF Join, MutexInv
  <2> QED
    BY <2>1, <2>2
<1>3. ASSUME NEW s \in Streams, DropSubscription(s) PROVE MutexInv'
  <2>1. \A g \in Generations : tasks'[g].at = tasks[g].at
    BY <1>3, AbortKeepsPlaces, Zenon
  <2> QED
    BY <1>3, <2>1 DEF DropSubscription, MutexInv
<1>4. ASSUME NEW g \in Generations, AcquireCollection(g) PROVE MutexInv'
  <2>1. MovedTo(tasks[g], "checking").at = "checking"
    BY TaskFields, Places DEF TypeOK
  <2> QED
    BY <1>4, <2>1 DEF AcquireCollection, MutexFree, MutexInv, TypeOK
<1>5. ASSUME NEW g \in Generations, CheckActive(g) PROVE MutexInv'
  <2>1. MovedTo(tasks[g], "reading").at = "reading" /\ Returned.at = "done"
    BY TaskFields, Places DEF TypeOK, Returned, Unborn
  <2> QED
    BY <1>5, <2>1 DEF CheckActive, Released, MutexInv, TypeOK
<1>6. ASSUME NEW g \in Generations, ReadConfiguration(g) PROVE MutexInv'
  <2>1. config[MonitoredFile] \in Nat
    BY FilesAssumption DEF TypeOK
  <2>2. /\ Holding(tasks[g], "probing", Listed(g, config[MonitoredFile])).at = "probing"
        /\ Holding(tasks[g], "publishing", Failed(g, config[MonitoredFile])).at
             = "publishing"
    BY <2>1, SnapshotTypes, TaskFields, Places DEF TypeOK
  <2> QED
    BY <1>6, <2>2 DEF ReadConfiguration, MutexInv, TypeOK
<1>7. ASSUME NEW g \in Generations, FinishProbes(g) PROVE MutexInv'
  <2>1. PICK snapshot \in {tasks[g].snapshot, Failed(g, tasks[g].snapshot.read)} :
          tasks' = [tasks EXCEPT ![g] = Holding(tasks[g], "publishing", snapshot)]
    BY <1>7 DEF FinishProbes
  <2>2. Holding(tasks[g], "publishing", snapshot).at = "publishing"
    BY SnapshotTypes, TaskFields, Places DEF TypeOK
  <2> QED
    BY <1>7, <2>1, <2>2 DEF FinishProbes, MutexInv, TypeOK
<1>8. ASSUME NEW g \in Generations, Publish(g) PROVE MutexInv'
  <2>1. Holding(tasks[g], "sleeping", NoSnapshot).at = "sleeping"
    BY TaskFields, Places, ValueTypes DEF TypeOK
  <2>2. Returned.at = "done"
    BY DEF Returned, Unborn
  <2>3. collection = g /\ collection' = None
    BY <1>8 DEF Publish, Released, MutexInv
  <2>4. \A h \in Generations :
          tasks'[h].at \in Collecting <=> h # g /\ tasks[h].at \in Collecting
    <3>1. CASE Active(g)
      BY <1>8, <2>1, <3>1 DEF Publish, TypeOK
    <3>2. CASE ~Active(g)
      BY <1>8, <2>2, <3>2 DEF Publish, TypeOK
    <3> QED
      BY <3>1, <3>2
  <2> QED
    BY <2>3, <2>4 DEF MutexInv
<1>9. ASSUME NEW g \in Generations, IntervalElapsed(g) \/ Notified(g) PROVE MutexInv'
  <2>1. MovedTo(tasks[g], "waiting").at = "waiting" /\ Woken(tasks[g]).at = "waiting"
    BY TaskFields, Places DEF TypeOK
  <2> QED
    BY <1>9, <2>1 DEF IntervalElapsed, Notified, MutexInv, TypeOK
<1>10. ASSUME NEW g \in Generations, CancelTask(g) PROVE MutexInv'
  <2>1. Returned.at = "done"
    BY DEF Returned, Unborn
  <2> QED
    BY <1>10, <2>1 DEF CancelTask, Released, MutexInv, TypeOK
<1>11. ASSUME NEW h \in Handlers, NotifyOne(h) PROVE MutexInv'
  <2>1. \A g \in Generations : tasks'[g].at = tasks[g].at
    BY <1>11, TaskFields DEF NotifyOne, TypeOK
  <2> QED
    BY <1>11, <2>1 DEF NotifyOne, MutexInv
<1>12. ASSUME NEW h \in Handlers, SaveRegistration(h) \/ FindRefresh(h) PROVE MutexInv'
  BY <1>12 DEF SaveRegistration, FindRefresh, MutexInv
<1>13. ASSUME NEW f \in Files, RegisterFromCli(f) PROVE MutexInv'
  BY <1>13 DEF RegisterFromCli, MutexInv
<1>14. CASE UNCHANGED vars
  BY <1>14 DEF vars, MutexInv
<1>15. CASE Next
  BY <1>15, <1>1, <1>2, <1>3, <1>4, <1>5, <1>6, <1>7, <1>8, <1>9, <1>10, <1>11, <1>12,
     <1>13 DEF Next, TaskStep, HandlerStep
<1> QED
  BY <1>14, <1>15

-----------------------------------------------------------------------------
(* The live task.                                                          *)

\* What a step of task g does to the tasks: it moves task g on, and ends it
\* only if somebody aborted it or the state no longer wants it.
LEMMA TaskStepEffect ==
  ASSUME TypeOK, NEW g \in Generations, TaskStep(g) \/ IntervalElapsed(g)
  PROVE  /\ UNCHANGED <<subscribers, generation, refresh, task, handlers>>
         /\ \A h \in Generations : h # g => tasks'[h] = tasks[h]
         /\ tasks[g].at \in Collecting \cup Awaiting
         /\ \/ /\ tasks'[g] = Returned
               /\ tasks[g].aborted = TRUE \/ ~Active(g)
            \/ /\ tasks'[g].at \in Collecting \cup Awaiting
               /\ tasks'[g].aborted = tasks[g].aborted
<1> USE DEF Collecting, Awaiting, state
<1>1. tasks[g] \in Task
  BY DEF TypeOK
<1>2. CASE AcquireCollection(g)
  <2>1. /\ MovedTo(tasks[g], "checking").at = "checking"
        /\ MovedTo(tasks[g], "checking").aborted = tasks[g].aborted
    BY <1>1, TaskFields, Places
  <2> QED
    BY <1>2, <2>1 DEF AcquireCollection, TypeOK
<1>3. CASE CheckActive(g)
  <2>1. /\ MovedTo(tasks[g], "reading").at = "reading"
        /\ MovedTo(tasks[g], "reading").aborted = tasks[g].aborted
    BY <1>1, TaskFields, Places
  <2> QED
    BY <1>3, <2>1 DEF CheckActive, TypeOK
<1>4. CASE ReadConfiguration(g)
  <2>1. config[MonitoredFile] \in Nat
    BY FilesAssumption DEF TypeOK
  <2> DEFINE listed == Holding(tasks[g], "probing", Listed(g, config[MonitoredFile]))
             failed == Holding(tasks[g], "publishing", Failed(g, config[MonitoredFile]))
  <2>2. /\ listed.at = "probing" /\ listed.aborted = tasks[g].aborted
        /\ failed.at = "publishing" /\ failed.aborted = tasks[g].aborted
    BY <1>1, <2>1, SnapshotTypes, TaskFields, Places
  <2>3. tasks' \in {[tasks EXCEPT ![g] = listed], [tasks EXCEPT ![g] = failed]}
    BY <1>4 DEF ReadConfiguration
  <2> HIDE DEF listed, failed
  <2> QED
    BY <1>4, <2>2, <2>3 DEF ReadConfiguration, TypeOK
<1>5. CASE FinishProbes(g)
  <2>1. PICK snapshot \in {tasks[g].snapshot, Failed(g, tasks[g].snapshot.read)} :
          tasks' = [tasks EXCEPT ![g] = Holding(tasks[g], "publishing", snapshot)]
    BY <1>5 DEF FinishProbes
  <2>2. /\ Holding(tasks[g], "publishing", snapshot).at = "publishing"
        /\ Holding(tasks[g], "publishing", snapshot).aborted = tasks[g].aborted
    BY <1>1, SnapshotTypes, TaskFields, Places
  <2> QED
    BY <1>5, <2>1, <2>2 DEF FinishProbes, TypeOK
<1>6. CASE Publish(g)
  <2>1. /\ Holding(tasks[g], "sleeping", NoSnapshot).at = "sleeping"
        /\ Holding(tasks[g], "sleeping", NoSnapshot).aborted = tasks[g].aborted
    BY <1>1, TaskFields, Places, ValueTypes
  <2> QED
    BY <1>6, <2>1 DEF Publish, TypeOK
<1>7. CASE IntervalElapsed(g) \/ Notified(g)
  <2>1. /\ MovedTo(tasks[g], "waiting").at = "waiting"
        /\ MovedTo(tasks[g], "waiting").aborted = tasks[g].aborted
        /\ Woken(tasks[g]).at = "waiting"
        /\ Woken(tasks[g]).aborted = tasks[g].aborted
    BY <1>1, TaskFields, Places
  <2> QED
    BY <1>7, <2>1 DEF IntervalElapsed, Notified, TypeOK
<1>8. CASE CancelTask(g)
  <2>1. tasks[g].aborted \in BOOLEAN
    BY <1>1 DEF Task
  <2> QED
    BY <1>8, <2>1 DEF CancelTask, TypeOK
<1> QED
  BY <1>2, <1>3, <1>4, <1>5, <1>6, <1>7, <1>8 DEF TaskStep

LEMMA LiveStep ==
  ASSUME TypeOK, LiveInv, [Next]_vars
  PROVE  LiveInv'
<1> USE DEF Collecting, Awaiting
<1>1. ASSUME NEW s \in Streams, Receive(s) \/ NextSnapshot(s) PROVE LiveInv'
  BY <1>1 DEF Receive, NextSnapshot, LiveInv, LivePoller, state
<1>2. ASSUME NEW s \in Streams, Join(s) PROVE LiveInv'
  <2>1. CASE subscribers = 0
    <3>1. generation < MaxGeneration
      BY <1>2, <2>1 DEF Join
    <3>2. generation + 1 \in Generations /\ generation < generation + 1
      BY <3>1, BoundsAssumption DEF TypeOK
    <3> DEFINE g == generation + 1
               born == MovedTo(Unborn, "waiting")
    <3>3. born.at = "waiting" /\ born.aborted = FALSE
      BY ValueTypes, TaskFields, Places DEF Unborn
    <3>4. tasks[g] = Unborn
      BY <3>2 DEF LiveInv
    <3>5. /\ tasks' = [tasks EXCEPT ![g] = born]
          /\ generation' = g /\ refresh' = g /\ task' = g
          /\ subscribers' # 0 /\ handlers' = handlers
      BY <1>2, <2>1, <3>4 DEF Join, TypeOK
    <3> HIDE DEF born
    <3>6. /\ \A h \in Generations : h # g => tasks'[h] = tasks[h]
          /\ tasks'[g] = born
      BY <3>2, <3>5 DEF TypeOK
    <3>7. \A h \in Generations :
            tasks[h].at \in {"unborn", "done"} \/ tasks[h].aborted
      BY <2>1 DEF LiveInv, LivePoller
    <3>8. LivePoller'
      BY <3>2, <3>3, <3>5, <3>6, <3>7 DEF LivePoller
    <3>9. \A h \in Generations : generation' < h => tasks'[h] = Unborn
      BY <3>2, <3>5, <3>6 DEF LiveInv, TypeOK
    <3> QED
      BY <3>5, <3>8, <3>9 DEF LiveInv, TypeOK
  <2>2. CASE subscribers # 0
    BY <1>2, <2>2 DEF Join, LiveInv, LivePoller, TypeOK
  <2> QED
    BY <2>1, <2>2
<1>3. ASSUME NEW s \in Streams, DropSubscription(s) PROVE LiveInv'
  <2>1. CASE subscribers = 1
    <3>1. task = generation /\ generation \in Generations
      BY <2>1 DEF LiveInv, LivePoller
    <3> DEFINE ended == [tasks[generation] EXCEPT !.aborted = TRUE]
    <3>2. /\ subscribers' = 0 /\ task' = None /\ generation' = generation + 1
          /\ tasks' = [tasks EXCEPT ![generation] = ended]
          /\ handlers' = handlers
      BY <1>3, <2>1, <3>1 DEF DropSubscription, LastSubscription, Aborted
    <3>3. ended.aborted = TRUE
      <4>1. tasks[generation] \in Task
        BY <3>1 DEF TypeOK
      <4> QED
        BY <4>1, TaskFields
    <3> HIDE DEF ended
    <3>4. /\ \A h \in Generations : h # generation => tasks'[h] = tasks[h]
          /\ tasks'[generation] = ended
      BY <3>1, <3>2 DEF TypeOK
    <3>5. LivePoller'
      BY <3>2, <3>3, <3>4 DEF LivePoller, LiveInv
    <3>6. \A h \in Generations : generation' < h => tasks'[h] = Unborn
      BY <3>1, <3>2, <3>4 DEF LiveInv, TypeOK
    <3> QED
      BY <3>2, <3>5, <3>6 DEF LiveInv, TypeOK
  <2>2. CASE subscribers # 1
    <3>1. subscribers # 0
      BY <1>3, DropCounts
    <3>2. subscribers' # 0
      BY <1>3, <2>2 DEF DropSubscription, TypeOK
    <3>3. UNCHANGED <<task, refresh, generation, tasks, handlers>>
      BY <1>3, <2>2 DEF DropSubscription, LastSubscription
    <3> QED
      BY <3>1, <3>2, <3>3 DEF LiveInv, LivePoller
  <2> QED
    BY <2>1, <2>2
<1>4. ASSUME NEW g \in Generations, TaskStep(g) \/ IntervalElapsed(g) PROVE LiveInv'
  <2>1. /\ UNCHANGED <<subscribers, generation, refresh, task, handlers>>
        /\ \A h \in Generations : h # g => tasks'[h] = tasks[h]
        /\ tasks[g].at \in Collecting \cup Awaiting
    BY <1>4, TaskStepEffect
  <2>2. \/ /\ tasks'[g] = Returned
           /\ tasks[g].aborted = TRUE \/ ~Active(g)
        \/ /\ tasks'[g].at \in Collecting \cup Awaiting
           /\ tasks'[g].aborted = tasks[g].aborted
    BY <1>4, TaskStepEffect
  <2>3. tasks[g] # Unborn
    BY <2>1 DEF Unborn
  <2>4. LivePoller'
    <3>1. CASE tasks'[g] = Returned /\ (tasks[g].aborted = TRUE \/ ~Active(g))
      <4>1. Returned.at = "done"
        BY DEF Returned, Unborn
      <4>2. g # generation \/ subscribers = 0
        BY <3>1 DEF LivePoller, LiveInv, Active
      <4> QED
        BY <2>1, <3>1, <4>1, <4>2 DEF LivePoller, LiveInv
    <3>2. CASE /\ tasks'[g].at \in Collecting \cup Awaiting
               /\ tasks'[g].aborted = tasks[g].aborted
      BY <2>1, <3>2 DEF LivePoller, LiveInv
    <3> QED
      BY <2>2, <3>1, <3>2
  <2> QED
    BY <2>1, <2>3, <2>4 DEF LiveInv
<1>5. ASSUME NEW h \in Handlers, SaveRegistration(h) PROVE LiveInv'
  BY <1>5 DEF SaveRegistration, LiveInv, LivePoller, TypeOK, state
<1>6. ASSUME NEW h \in Handlers, FindRefresh(h) PROVE LiveInv'
  <2>1. CASE subscribers # 0
    <3>1. Notifying(handlers[h], refresh).notify = refresh /\ refresh \in Generations
      BY <2>1 DEF Notifying, LiveInv, LivePoller, TypeOK, Handler
    <3> QED
      BY <1>6, <2>1, <3>1 DEF FindRefresh, Answer, LiveInv, LivePoller, TypeOK, state
  <2>2. CASE subscribers = 0
    <3>1. /\ UNCHANGED <<subscribers, generation, refresh, task, tasks>>
          /\ handlers' = [handlers EXCEPT ![h] = Idle]
      BY <1>6, <2>2 DEF FindRefresh, Answer, state
    <3> QED
      BY <3>1 DEF LiveInv, LivePoller, TypeOK, Idle
  <2> QED
    BY <2>1, <2>2
<1>7. ASSUME NEW h \in Handlers, NotifyOne(h) PROVE LiveInv'
  <2> DEFINE n == handlers[h].notify
  <2>1. n \in Generations
    BY <1>7 DEF NotifyOne, LiveInv
  <2>2. /\ UNCHANGED <<subscribers, generation, refresh, task>>
        /\ handlers' = [handlers EXCEPT ![h] = Idle]
    BY <1>7 DEF NotifyOne, Answer, state
  <2>3. \A g \in Generations : /\ tasks'[g].at = tasks[g].at
                               /\ tasks'[g].aborted = tasks[g].aborted
                               /\ g # n => tasks'[g] = tasks[g]
    <3>1. tasks[n] \in Task
      BY <2>1 DEF TypeOK
    <3>2. /\ Permitted(tasks[n]).at = tasks[n].at
          /\ Permitted(tasks[n]).aborted = tasks[n].aborted
      BY <3>1, TaskFields
    <3>3. tasks' = [tasks EXCEPT ![n] = Permitted(tasks[n])] \/ tasks' = tasks
      BY <1>7 DEF NotifyOne
    <3> QED
      BY <2>1, <3>2, <3>3 DEF TypeOK
  <2>4. LivePoller'
    BY <2>2, <2>3 DEF LivePoller, LiveInv
  <2>5. n <= generation
    BY <1>7 DEF NotifyOne, LiveInv
  <2> QED
    BY <2>1, <2>2, <2>3, <2>4, <2>5 DEF LiveInv, Idle, TypeOK
<1>8. ASSUME NEW f \in Files, RegisterFromCli(f) PROVE LiveInv'
  BY <1>8 DEF RegisterFromCli, LiveInv, LivePoller, state
<1>9. CASE UNCHANGED vars
  BY <1>9 DEF vars, state, LiveInv, LivePoller
<1>10. CASE Next
  BY <1>10, <1>1, <1>2, <1>3, <1>4, <1>5, <1>6, <1>7, <1>8 DEF Next, HandlerStep
<1> QED
  BY <1>9, <1>10

-----------------------------------------------------------------------------
(* The order of the reads.                                                 *)

\* A collection stays in order through a step that publishes nothing, takes no
\* registration back and moves that task nowhere.
LEMMA PendingKept ==
  ASSUME TypeOK, TypeOK', NEW g \in Generations, Pending(g),
         tasks'[g].at = tasks[g].at,
         tasks'[g].snapshot = tasks[g].snapshot,
         snapshots' = snapshots,
         config[MonitoredFile] <= config'[MonitoredFile],
         Active(g)' => Active(g) /\ floor' = floor
  PROVE  Pending(g)'
<1>1. /\ config[MonitoredFile] \in Nat /\ config'[MonitoredFile] \in Nat
      /\ tasks[g].snapshot.read \in Nat
  BY FilesAssumption, SnapshotTypes DEF TypeOK
<1>2. tasks'[g].snapshot.read <= config'[MonitoredFile]
  BY <1>1 DEF Pending
<1>3. Active(g)' => floor' <= tasks'[g].snapshot.read
  BY DEF Pending
<1> QED
  BY <1>2, <1>3 DEF Pending, Listed, Failed

\* What registers a printer only adds to a file.
LEMMA RegistrationsGrow ==
  ASSUME TypeOK, [Next]_vars
  PROVE  config[MonitoredFile] <= config'[MonitoredFile]
<1>1. \A f \in Files : config[f] \in Nat
  BY DEF TypeOK
<1>2. ASSUME NEW f \in Files, config' = [config EXCEPT ![f] = @ + 1]
      PROVE  config[MonitoredFile] <= config'[MonitoredFile]
  BY <1>1, <1>2, FilesAssumption DEF TypeOK
<1>3. (\E f \in Files : config' = [config EXCEPT ![f] = @ + 1]) \/ config' = config
  <2>1. CASE \E h \in Handlers : SaveRegistration(h)
    BY <2>1, FilesAssumption DEF SaveRegistration
  <2>2. CASE \E f \in Files : RegisterFromCli(f)
    BY <2>2 DEF RegisterFromCli
  <2>3. CASE ~ \E h \in Handlers : SaveRegistration(h)
    BY <2>2, <2>3 DEF Next, vars, Receive, Join, NextSnapshot, DropSubscription,
       TaskStep, AcquireCollection, CheckActive, ReadConfiguration, FinishProbes,
       Publish, IntervalElapsed, Notified, CancelTask, HandlerStep, FindRefresh, NotifyOne
  <2> QED
    BY <2>1, <2>3
<1>4. CASE config' = config
  BY <1>1, <1>4, FilesAssumption
<1> QED
  BY <1>2, <1>3, <1>4

\* What task g holds after a step of its own that publishes nothing.
LEMMA PendingMade ==
  ASSUME TypeOK, TypeOK', ReadInv, NEW g \in Generations,
         TaskStep(g) \/ IntervalElapsed(g), ~Publish(g),
         tasks'[g].at \in {"probing", "publishing"}
  PROVE  Pending(g)'
<1> USE DEF Collecting, Awaiting, state
<1>1. tasks[g] \in Task /\ config[MonitoredFile] \in Nat
  BY FilesAssumption DEF TypeOK
<1>2. CASE ReadConfiguration(g)
  <2> DEFINE read == config[MonitoredFile]
             listed == Holding(tasks[g], "probing", Listed(g, read))
             failed == Holding(tasks[g], "publishing", Failed(g, read))
  <2>1. /\ listed.at = "probing" /\ listed.snapshot = Listed(g, read)
        /\ failed.at = "publishing" /\ failed.snapshot = Failed(g, read)
    BY <1>1, SnapshotTypes, TaskFields, Places
  <2>2. Listed(g, read).read = read /\ Failed(g, read).read = read
    BY DEF Listed, Failed
  <2>3. tasks' \in {[tasks EXCEPT ![g] = listed], [tasks EXCEPT ![g] = failed]}
    BY <1>2 DEF ReadConfiguration
  <2> HIDE DEF listed, failed
  <2>4. tasks'[g] = listed \/ tasks'[g] = failed
    BY <2>3 DEF TypeOK
  <2>5. UNCHANGED <<config, snapshots, floor>>
    BY <1>2 DEF ReadConfiguration
  <2>6. /\ tasks'[g].snapshot.read = read
        /\ \/ tasks'[g].snapshot = Listed(g, read)
           \/ tasks'[g].at = "publishing" /\ tasks'[g].snapshot = Failed(g, read)
    BY <2>1, <2>2, <2>4
  <2>7. snapshots.read <= read /\ floor <= read /\ read <= read
    BY <1>1 DEF ReadInv
  <2> QED
    BY <2>5, <2>6, <2>7 DEF Pending, Listed, Failed
<1>3. CASE FinishProbes(g)
  <2>1. PICK snapshot \in {tasks[g].snapshot, Failed(g, tasks[g].snapshot.read)} :
          tasks' = [tasks EXCEPT ![g] = Holding(tasks[g], "publishing", snapshot)]
    BY <1>3 DEF FinishProbes
  <2>2. /\ Holding(tasks[g], "publishing", snapshot).at = "publishing"
        /\ Holding(tasks[g], "publishing", snapshot).snapshot = snapshot
    BY <1>1, SnapshotTypes, TaskFields, Places
  <2>3. tasks'[g].snapshot = snapshot /\ tasks'[g].at = "publishing"
    BY <2>1, <2>2 DEF TypeOK
  <2>4. Pending(g) /\ tasks[g].at = "probing"
    BY <1>3 DEF FinishProbes, ReadInv
  <2>5. snapshot.read = tasks[g].snapshot.read
    BY DEF Failed
  <2>6. \/ snapshot = Listed(g, snapshot.read)
        \/ snapshot = Failed(g, snapshot.read)
    BY <2>4, <2>5 DEF Pending
  <2>7. UNCHANGED <<config, snapshots, floor, subscribers, generation>>
    BY <1>3 DEF FinishProbes
  <2> QED
    BY <2>3, <2>4, <2>5, <2>6, <2>7 DEF Pending, Listed, Failed, Active
<1>4. CASE AcquireCollection(g) \/ CheckActive(g) \/ IntervalElapsed(g) \/ Notified(g)
  <2>1. /\ MovedTo(tasks[g], "checking").at = "checking"
        /\ MovedTo(tasks[g], "reading").at = "reading"
        /\ MovedTo(tasks[g], "waiting").at = "waiting"
        /\ Woken(tasks[g]).at = "waiting"
        /\ Returned.at = "done"
    BY <1>1, TaskFields, Places DEF Returned, Unborn
  <2>2. tasks'[g].at \in {"checking", "reading", "waiting", "done"}
    BY <1>4, <2>1 DEF AcquireCollection, CheckActive, IntervalElapsed, Notified, TypeOK
  <2> QED
    BY <2>2
<1>5. CASE CancelTask(g)
  <2>1. tasks'[g].at = "done"
    BY <1>5 DEF CancelTask, TypeOK, Returned, Unborn
  <2> QED
    BY <2>1
<1> QED
  BY <1>2, <1>3, <1>4, <1>5 DEF TaskStep

\* A publication: what it puts in the channel, and that nobody else collects.
LEMMA PublishEffect ==
  ASSUME TypeOK, MutexInv, ReadInv, NEW g \in Generations, Publish(g)
  PROVE  /\ UNCHANGED <<config, floor>>
         /\ snapshots' = IF Active(g) THEN tasks[g].snapshot ELSE snapshots
         /\ snapshots.read <= snapshots'.read
         /\ snapshots'.read <= config[MonitoredFile]
         /\ \A h \in Generations : tasks'[h].at \notin {"probing", "publishing"}
<1>1. tasks[g] \in Task /\ snapshots.read \in Nat
  BY DEF TypeOK, Snapshot
<1>2. /\ Holding(tasks[g], "sleeping", NoSnapshot).at = "sleeping"
      /\ Returned.at = "done"
  BY <1>1, TaskFields, Places, ValueTypes DEF Returned, Unborn
<1>3. collection = g
  BY DEF Publish, MutexInv, Collecting
<1>4. \A h \in Generations : h # g => tasks[h].at \notin {"probing", "publishing"}
  BY <1>3 DEF MutexInv, Collecting
<1>5. tasks'[g].at \in {"sleeping", "done"} /\ \A h \in Generations : h # g => tasks'[h] = tasks[h]
  BY <1>2 DEF Publish, TypeOK
<1>6. Pending(g)
  BY DEF Publish, ReadInv
<1>7. snapshots' = IF Active(g) THEN tasks[g].snapshot ELSE snapshots
  BY DEF Publish
<1>8. snapshots.read <= snapshots'.read /\ snapshots'.read <= config[MonitoredFile]
  BY <1>1, <1>6, <1>7 DEF Pending, ReadInv
<1> QED
  BY <1>4, <1>5, <1>7, <1>8 DEF Publish

LEMMA ReadStep ==
  ASSUME TypeOK, TypeOK', MutexInv, LiveInv, ReadInv, [Next]_vars
  PROVE  ReadInv'
<1>1. config[MonitoredFile] <= config'[MonitoredFile]
  BY RegistrationsGrow
<1>2. /\ config[MonitoredFile] \in Nat /\ config'[MonitoredFile] \in Nat
      /\ floor \in Nat /\ snapshots.read \in Nat
  BY FilesAssumption DEF TypeOK, Snapshot
<1> DEFINE Kept(g) == /\ tasks'[g].at = tasks[g].at
                      /\ tasks'[g].snapshot = tasks[g].snapshot
<1>3. ASSUME UNCHANGED <<floor, snapshots, subscribers, generation>>,
             \A g \in Generations : Kept(g)
      PROVE  ReadInv'
  <2>1. \A g \in Generations : Active(g)' => Active(g) /\ floor' = floor
    BY <1>3 DEF Active
  <2>2. \A g \in Generations : tasks'[g].at \in {"probing", "publishing"} => Pending(g)'
    BY <1>1, <1>3, <2>1, PendingKept DEF ReadInv
  <2> QED
    BY <1>1, <1>2, <1>3, <2>2 DEF ReadInv
<1>4. ASSUME NEW s \in Streams, Receive(s) \/ NextSnapshot(s) PROVE ReadInv'
  <2>1. UNCHANGED <<floor, snapshots, subscribers, generation, tasks>>
    BY <1>4 DEF Receive, NextSnapshot, state
  <2> QED
    BY <2>1, <1>3
<1>5. ASSUME NEW s \in Streams, Join(s) PROVE ReadInv'
  <2>1. CASE subscribers # 0
    <3>1. UNCHANGED <<floor, snapshots, generation, tasks>>
      BY <1>5, <2>1 DEF Join
    <3>2. \A g \in Generations : Active(g)' => Active(g) /\ floor' = floor
      BY <2>1, <3>1 DEF Active
    <3>3. \A g \in Generations : tasks'[g].at \in {"probing", "publishing"} => Pending(g)'
      BY <1>1, <3>1, <3>2, PendingKept DEF ReadInv
    <3> QED
      BY <1>1, <1>2, <3>1, <3>3 DEF ReadInv
  <2>2. CASE subscribers = 0
    <3>1. generation + 1 \in Generations /\ generation' = generation + 1
      BY <1>5, <2>2, BoundsAssumption DEF Join, TypeOK
    <3>2. /\ tasks' = [tasks EXCEPT ![generation + 1] =
                         MovedTo(tasks[generation + 1], "waiting")]
          /\ floor' = config[MonitoredFile] /\ UNCHANGED <<config, snapshots>>
      BY <1>5, <2>2 DEF Join
    <3>3. MovedTo(tasks[generation + 1], "waiting").at = "waiting"
      BY <3>1, TaskFields, Places DEF TypeOK
    <3>4. tasks'[generation + 1].at = "waiting"
      BY <3>1, <3>2, <3>3 DEF TypeOK
    <3>5. ASSUME NEW g \in Generations, tasks'[g].at \in {"probing", "publishing"}
          PROVE  Pending(g)'
      <4>1. g # generation + 1
        BY <3>4, <3>5
      <4>2. tasks'[g] = tasks[g]
        BY <3>1, <3>2, <4>1 DEF TypeOK
      <4>3. ~Active(g)'
        BY <3>1, <4>1 DEF Active
      <4>4. Pending(g)
        BY <3>5, <4>2 DEF ReadInv
      <4> QED
        BY <1>1, <3>2, <4>2, <4>3, <4>4, PendingKept
    <3> QED
      BY <1>1, <1>2, <3>2, <3>5 DEF ReadInv
  <2> QED
    BY <2>1, <2>2
<1>6. ASSUME NEW s \in Streams, DropSubscription(s) PROVE ReadInv'
  <2>1. \A g \in Generations : Kept(g)
    BY <1>6, AbortKeepsPlaces, Zenon
  <2>2. UNCHANGED <<floor, snapshots>>
    BY <1>6 DEF DropSubscription
  <2>3. \A g \in Generations : Active(g)' => Active(g) /\ floor' = floor
    <3>1. subscribers # 0
      BY <1>6, DropCounts
    <3>2. subscribers' # 0 => generation' = generation
      BY <1>6 DEF DropSubscription, LastSubscription
    <3> QED
      BY <2>2, <3>1, <3>2 DEF Active
  <2>4. \A g \in Generations : tasks'[g].at \in {"probing", "publishing"} => Pending(g)'
    BY <1>1, <2>1, <2>2, <2>3, PendingKept DEF ReadInv
  <2> QED
    BY <1>1, <1>2, <2>2, <2>4 DEF ReadInv
<1>7. ASSUME NEW g \in Generations, TaskStep(g) \/ IntervalElapsed(g), ~Publish(g)
      PROVE  ReadInv'
  <2>1. UNCHANGED <<floor, snapshots, subscribers, generation>>
    BY <1>7 DEF TaskStep, AcquireCollection, CheckActive, ReadConfiguration,
       FinishProbes, IntervalElapsed, Notified, CancelTask, state
  <2>2. \A h \in Generations : h # g => tasks'[h] = tasks[h]
    BY <1>7, TaskStepEffect
  <2>3. tasks'[g].at \in {"probing", "publishing"} => Pending(g)'
    BY <1>7, PendingMade
  <2>4. \A h \in Generations : Active(h)' => Active(h) /\ floor' = floor
    BY <2>1 DEF Active
  <2>5. ASSUME NEW h \in Generations, h # g, tasks'[h].at \in {"probing", "publishing"}
        PROVE  Pending(h)'
    <3>1. tasks'[h] = tasks[h] /\ Pending(h)
      BY <2>2, <2>5 DEF ReadInv
    <3> QED
      BY <1>1, <2>1, <2>4, <3>1, PendingKept
  <2> QED
    BY <1>1, <1>2, <2>1, <2>3, <2>5 DEF ReadInv
<1>8. ASSUME NEW g \in Generations, Publish(g) PROVE ReadInv'
  BY <1>8, PublishEffect DEF ReadInv
<1>9. ASSUME NEW h \in Handlers, SaveRegistration(h) \/ FindRefresh(h) PROVE ReadInv'
  <2>1. UNCHANGED <<floor, snapshots, subscribers, generation, tasks>>
    BY <1>9 DEF SaveRegistration, FindRefresh, state
  <2> QED
    BY <2>1, <1>3
<1>10. ASSUME NEW h \in Handlers, NotifyOne(h) PROVE ReadInv'
  <2>1. UNCHANGED <<floor, snapshots, subscribers, generation>>
    BY <1>10 DEF NotifyOne, state
  <2>2. \A g \in Generations : tasks[g] \in Task
    BY DEF TypeOK
  <2>3. tasks' = tasks \/ \E n \in Generations : tasks' = [tasks EXCEPT ![n] = Permitted(tasks[n])]
    BY <1>10 DEF NotifyOne, LiveInv
  <2>4. \A g \in Generations : Kept(g)
    <3>1. CASE tasks' = tasks
      BY <3>1
    <3>2. ASSUME NEW n \in Generations, tasks' = [tasks EXCEPT ![n] = Permitted(tasks[n])]
          PROVE  \A g \in Generations : Kept(g)
      <4>1. /\ Permitted(tasks[n]).at = tasks[n].at
            /\ Permitted(tasks[n]).snapshot = tasks[n].snapshot
        BY <2>2, TaskFields
      <4> QED
        BY <3>2, <4>1 DEF TypeOK
    <3> QED
      BY <2>3, <3>1, <3>2
  <2> QED
    BY <2>1, <2>4, <1>3
<1>11. ASSUME NEW f \in Files, RegisterFromCli(f) PROVE ReadInv'
  <2>1. UNCHANGED <<floor, snapshots, subscribers, generation, tasks>>
    BY <1>11 DEF RegisterFromCli, state
  <2> QED
    BY <2>1, <1>3
<1>12. ASSUME UNCHANGED vars PROVE ReadInv'
  <2>1. UNCHANGED <<floor, snapshots, subscribers, generation, tasks>>
    BY <1>12 DEF vars, state
  <2> QED
    BY <2>1, <1>3
<1>13. CASE Next
  BY <1>13, <1>4, <1>5, <1>6, <1>7, <1>8, <1>9, <1>10, <1>11 DEF Next, HandlerStep
<1> QED
  BY <1>12, <1>13

-----------------------------------------------------------------------------
(* What callers are given.                                                 *)

LEMMA SnapshotsGrow ==
  ASSUME TypeOK, MutexInv, ReadInv, [Next]_vars
  PROVE  snapshots.read <= snapshots'.read
<1>1. ASSUME NEW g \in Generations, Publish(g) PROVE snapshots.read <= snapshots'.read
  BY <1>1, PublishEffect
<1>2. CASE ~ \E g \in Generations : Publish(g)
  <2>1. snapshots' = snapshots
    BY <1>2 DEF Next, vars, Receive, Join, NextSnapshot, DropSubscription, TaskStep,
       AcquireCollection, CheckActive, ReadConfiguration, FinishProbes, IntervalElapsed,
       Notified, CancelTask, SaveRegistration, HandlerStep, FindRefresh, NotifyOne,
       RegisterFromCli
  <2> QED
    BY <2>1 DEF TypeOK, Snapshot
<1> QED
  BY <1>1, <1>2

\* What a step does to one stream: it is reset, it keeps what it was given, or
\* it is given the retained or the published snapshot.
LEMMA StreamStepEffect ==
  ASSUME TypeOK, [Next]_vars, NEW s \in Streams
  PROVE  \/ streams'[s] = Closed
         \/ /\ streams[s].at = "closed"
            /\ streams'[s].at = "joining"
            /\ streams'[s].view = NoDelivery
            /\ streams'[s].retained = Delivered(snapshots)
            /\ snapshots' = snapshots
         \/ /\ streams'[s].view = streams[s].view
            /\ streams'[s].retained = streams[s].retained
         \/ /\ streams[s].retained # NoDelivery
            /\ streams'[s].view = streams[s].retained
            /\ streams'[s].retained = NoDelivery
            /\ snapshots' = snapshots
         \/ /\ streams[s].retained = NoDelivery
            /\ streams'[s].view = Delivered(snapshots)
            /\ streams'[s].retained = NoDelivery
            /\ snapshots' = snapshots
<1>1. streams[s] \in Stream /\ Delivered(snapshots) \in Delivery
  BY ValueTypes DEF TypeOK
<1>2. CASE Receive(s)
  BY <1>2 DEF Receive, TypeOK
<1>3. CASE Join(s)
  <2>1. /\ MovedTo(streams[s], "open").view = streams[s].view
        /\ MovedTo(streams[s], "open").retained = streams[s].retained
    BY <1>1, StreamFields
  <2> QED
    BY <1>3, <2>1 DEF Join, TypeOK
<1>4. CASE NextSnapshot(s)
  <2> DEFINE first == TookRetained(streams[s])
             later == TookPublished(streams[s], Delivered(snapshots))
  <2>1. /\ first.view = streams[s].retained /\ first.retained = NoDelivery
        /\ later.view = Delivered(snapshots) /\ later.retained = streams[s].retained
    BY <1>1, StreamFields
  <2>2. /\ snapshots' = snapshots
        /\ \/ streams[s].retained # NoDelivery /\ streams' = [streams EXCEPT ![s] = first]
           \/ streams[s].retained = NoDelivery /\ streams' = [streams EXCEPT ![s] = later]
    BY <1>4 DEF NextSnapshot, TakesRetained
  <2> HIDE DEF first, later
  <2> QED
    BY <2>1, <2>2 DEF TypeOK
<1>5. CASE DropSubscription(s)
  BY <1>5 DEF DropSubscription, TypeOK
<1>6. CASE \E g \in Generations : Publish(g)
  <2>1. streams' = streams \/ streams' = [t \in Streams |-> Marked(streams[t])]
    BY <1>6 DEF Publish
  <2>2. /\ Marked(streams[s]).view = streams[s].view
        /\ Marked(streams[s]).retained = streams[s].retained
    BY <1>1, StreamFields
  <2> QED
    BY <2>1, <2>2
<1>7. CASE /\ ~(Receive(s) \/ Join(s) \/ NextSnapshot(s) \/ DropSubscription(s))
           /\ ~ \E g \in Generations : Publish(g)
  <2>1. \/ streams' = streams
        \/ \E r \in Streams : /\ Receive(r) \/ Join(r) \/ NextSnapshot(r) \/ DropSubscription(r)
                              /\ r # s
    BY <1>7 DEF Next, vars, TaskStep,
       AcquireCollection, CheckActive, ReadConfiguration, FinishProbes, IntervalElapsed,
       Notified, CancelTask, SaveRegistration, HandlerStep, FindRefresh, NotifyOne,
       RegisterFromCli
  <2>2. streams'[s] = streams[s]
    BY <2>1 DEF Receive, Join, NextSnapshot, DropSubscription, TypeOK
  <2> QED
    BY <2>2
<1> QED
  BY <1>2, <1>3, <1>4, <1>5, <1>6, <1>7

LEMMA ViewStep ==
  ASSUME TypeOK, MutexInv, ReadInv, ViewInv, [Next]_vars, TypeOK'
  PROVE  ViewInv'
<1> SUFFICES ASSUME NEW s \in Streams
             PROVE  /\ streams'[s].view.read <= snapshots'.read
                    /\ streams'[s].retained.read <= snapshots'.read
                    /\ streams'[s].retained # NoDelivery => streams'[s].view = NoDelivery
  BY DEF ViewInv
<1>1. /\ snapshots.read \in Nat /\ snapshots'.read \in Nat
      /\ streams[s].view.read \in Nat /\ streams[s].retained.read \in Nat
      /\ Delivered(snapshots).read = snapshots.read
      /\ NoDelivery.read = 0
      /\ Closed.view = NoDelivery /\ Closed.retained = NoDelivery
  BY DEF TypeOK, Snapshot, Stream, Delivery, Delivered, NoDelivery, NoSnapshot, Closed
<1>2. snapshots.read <= snapshots'.read
  BY SnapshotsGrow
<1>3. /\ streams[s].view.read <= snapshots.read
      /\ streams[s].retained.read <= snapshots.read
      /\ streams[s].retained # NoDelivery => streams[s].view = NoDelivery
  BY DEF ViewInv
<1> QED
  BY <1>1, <1>2, <1>3, StreamStepEffect

-----------------------------------------------------------------------------
LEMMA InductiveStep == IInv /\ [Next]_vars => IInv'
BY TypeStep, MutexStep, LiveStep, ReadStep, ViewStep DEF IInv

LEMMA Inductive == Spec => []IInv
BY InitInv, InductiveStep, PTL DEF Spec

\* However many tasks retired sessions leave behind, no two of them are ever
\* between taking the collection mutex and releasing it.
THEOREM CollectionsExclude == Spec => []OneCollection
<1>1. IInv => OneCollection
  BY DEF IInv, MutexInv, OneCollection
<1> QED
  BY <1>1, Inductive, PTL

\* While anybody watches the printers exactly one task that nobody aborted
\* lives, and a refresh finds its Notify.
THEOREM OnePollerLives == Spec => []LivePoller
<1>1. IInv => LivePoller
  BY DEF IInv, LiveInv
<1> QED
  BY <1>1, Inductive, PTL

\* No caller of Subscription::next is handed an older read than its last one.
THEOREM ViewsMonotonic == Spec => ViewsNeverGoBack
<1>1. IInv /\ [Next]_vars
        => [\A s \in Streams : streams[s].at = "open" /\ streams'[s].at = "open"
              => streams[s].view.read <= streams'[s].view.read]_streams
  <2> SUFFICES ASSUME IInv, [Next]_vars, NEW s \in Streams, streams'[s].at = "open"
               PROVE  streams[s].view.read <= streams'[s].view.read
    OBVIOUS
  <2>1. /\ streams[s].view.read \in Nat /\ streams[s].retained.read \in Nat
        /\ snapshots.read \in Nat /\ Delivered(snapshots).read = snapshots.read
        /\ NoDelivery.read = 0
    BY DEF IInv, TypeOK, Snapshot, Stream, Delivery, Delivered, NoDelivery, NoSnapshot
  <2>2. streams'[s] # Closed /\ streams'[s].at # "joining"
    BY DEF Closed
  <2>3. /\ streams[s].view.read <= snapshots.read
        /\ streams[s].retained # NoDelivery => streams[s].view = NoDelivery
    BY DEF IInv, ViewInv
  <2> QED
    BY <2>1, <2>2, <2>3, StreamStepEffect DEF IInv
<1> QED
  BY <1>1, Inductive, PTL DEF Spec, ViewsNeverGoBack

-----------------------------------------------------------------------------
(* The monitor implements the feed.                                        *)

LEMMA WatchedWhenSubscribed ==
  ASSUME TypeOK
  PROVE  subscribers = 0 <=> OpenStreams = {}
BY OpenStreamsFinite, FS_EmptySet DEF TypeOK

\* A step of the monitor that publishes nothing and opens or closes no stream
\* is, to the feed, a registration or nothing at all.
LEMMA QuietSteps ==
  ASSUME TypeOK,
         \/ \E s \in Streams : Receive(s) \/ NextSnapshot(s)
         \/ \E g \in Generations : (TaskStep(g) \/ IntervalElapsed(g)) /\ ~Publish(g)
         \/ \E h \in Handlers : SaveRegistration(h) \/ HandlerStep(h)
         \/ \E f \in Files : RegisterFromCli(f)
         \/ UNCHANGED vars
  PROVE  [Feed!FeedNext]_(Feed!feedVars)
<1>1. OpenStreams' = OpenStreams
  BY OtherStreamSteps
<1>2. UNCHANGED <<floor, snapshots>>
  BY DEF Receive, NextSnapshot, TaskStep, AcquireCollection, CheckActive,
     ReadConfiguration, FinishProbes, IntervalElapsed, Notified, CancelTask,
     SaveRegistration, HandlerStep, FindRefresh, NotifyOne, RegisterFromCli, vars
<1>3. \/ config' = config
      \/ \E f \in Files : config' = [config EXCEPT ![f] = config[f] + 1]
  BY FilesAssumption DEF Receive, NextSnapshot, TaskStep, AcquireCollection, CheckActive,
     ReadConfiguration, FinishProbes, IntervalElapsed, Notified, CancelTask,
     SaveRegistration, HandlerStep, FindRefresh, NotifyOne, RegisterFromCli, vars
<1>4. \/ config'[MonitoredFile] = config[MonitoredFile]
      \/ config'[MonitoredFile] = config[MonitoredFile] + 1
  BY <1>3, FilesAssumption DEF TypeOK
<1>5. CASE config'[MonitoredFile] = config[MonitoredFile]
  BY <1>1, <1>2, <1>5 DEF Feed!feedVars
<1>6. CASE config'[MonitoredFile] = config[MonitoredFile] + 1
  BY <1>1, <1>2, <1>6 DEF Feed!FeedNext, Feed!Register
<1> QED
  BY <1>4, <1>5, <1>6

LEMMA PublishChecks ==
  ASSUME TypeOK, MutexInv, ReadInv, NEW g \in Generations, Publish(g)
  PROVE  [Feed!FeedNext]_(Feed!feedVars)
<1> DEFINE read == tasks[g].snapshot.read
<1>1. OpenStreams' = OpenStreams
  BY OtherStreamSteps DEF TaskStep
<1>2. UNCHANGED <<config, floor>>
  BY PublishEffect
<1>3. CASE ~Active(g)
  BY <1>1, <1>2, <1>3, PublishEffect DEF Feed!feedVars
<1>4. CASE Active(g)
  <2>1. Pending(g)
    BY DEF Publish, ReadInv
  <2>2. /\ read \in Nat /\ floor \in Nat /\ config[MonitoredFile] \in Nat
        /\ snapshots.read \in Nat
    BY SnapshotTypes, FilesAssumption DEF TypeOK, Snapshot
  <2>3. read \in floor..config[MonitoredFile] /\ snapshots.read <= read
    BY <1>4, <2>1, <2>2 DEF Pending
  <2>4. OpenStreams # {}
    BY <1>4, WatchedWhenSubscribed DEF Active
  <2>5. snapshots' = tasks[g].snapshot
    BY <1>4, PublishEffect
  <2>6. \/ snapshots' = Listed(g, read)
        \/ snapshots' = Failed(g, read)
    BY <2>1, <2>5 DEF Pending
  <2>7. \/ /\ snapshots'.read = read /\ snapshots'.printers = read
           /\ snapshots'.warning = FALSE
        \/ /\ snapshots'.read = read /\ snapshots'.printers = snapshots.printers
           /\ snapshots'.warning = TRUE
    BY <2>6 DEF Listed, Failed
  <2> HIDE DEF read
  <2>8. Feed!Check(read)
    BY <1>1, <1>2, <2>3, <2>4, <2>7 DEF Feed!Check
  <2> QED
    BY <2>3, <2>8 DEF Feed!FeedNext
<1> QED
  BY <1>3, <1>4

LEMMA FeedStep ==
  ASSUME IInv, [Next]_vars
  PROVE  [Feed!FeedNext]_(Feed!feedVars)
<1> USE DEF IInv
<1>1. ASSUME NEW s \in Streams, Join(s) PROVE Feed!Open(s)
  <2>1. s \notin OpenStreams
    BY <1>1 DEF Join, OpenStreams
  <2>2. OpenStreams' = OpenStreams \cup {s}
    BY <1>1, JoinCounts
  <2>3. floor' = IF OpenStreams = {} THEN config[MonitoredFile] ELSE floor
    BY <1>1, WatchedWhenSubscribed DEF Join
  <2>4. UNCHANGED <<config, snapshots>>
    BY <1>1 DEF Join
  <2> QED
    BY <2>1, <2>2, <2>3, <2>4 DEF Feed!Open
<1>2. ASSUME NEW s \in Streams, DropSubscription(s) PROVE Feed!Close(s)
  <2>1. s \in OpenStreams
    BY <1>2 DEF DropSubscription, Subscribed, OpenStreams
  <2>2. OpenStreams' = OpenStreams \ {s}
    BY <1>2, DropCounts
  <2>3. UNCHANGED <<config, snapshots, floor>>
    BY <1>2 DEF DropSubscription
  <2> QED
    BY <2>1, <2>2, <2>3 DEF Feed!Close
<1>3. CASE \E s \in Streams : Join(s) \/ DropSubscription(s)
  BY <1>1, <1>2, <1>3 DEF Feed!FeedNext
<1>4. CASE \E g \in Generations : Publish(g)
  BY <1>4, PublishChecks
<1>5. CASE /\ ~ \E s \in Streams : Join(s) \/ DropSubscription(s)
           /\ ~ \E g \in Generations : Publish(g)
  BY <1>5, QuietSteps DEF Next
<1> QED
  BY <1>3, <1>4, <1>5

\* The monitor implements InventoryFeed: nothing is published unless somebody
\* watches, every published snapshot shows what the file held at some moment of
\* the present session, and a failed check keeps the rows shown before it.
THEOREM MonitorImplementsFeed == Spec => ImplementsFeed
<1>1. Init => Feed!FeedInit
  <2> SUFFICES ASSUME Init PROVE Feed!FeedInit
    OBVIOUS
  <2>1. OpenStreams = {}
    BY DEF Init, OpenStreams, Closed
  <2>2. /\ snapshots.read = 0 /\ snapshots.printers = 0 /\ snapshots.warning = FALSE
        /\ config[MonitoredFile] = 0 /\ floor = 0
    BY FilesAssumption DEF Init, NoSnapshot
  <2> QED
    BY <2>1, <2>2 DEF Feed!FeedInit, Feed!Nothing
<1>2. IInv /\ [Next]_vars => [Feed!FeedNext]_(Feed!feedVars)
  BY FeedStep
<1> QED
  BY <1>1, <1>2, Inductive, PTL DEF Spec, ImplementsFeed, Feed!FeedSpec

-----------------------------------------------------------------------------
(* USB printers: the inductive invariant.                                  *)

\* A table names the device its name was registered for, and a route of it.
IsTableOf(t, device) ==
  device \in Device /\ \E route \in Routes(device) : t.connection = UsbRoute(device, route)
TablesInv ==
  \A t \in UsbTables(tables) : t.name \in DOMAIN chosen /\ IsTableOf(t, chosen[t.name])

\* The command remembers the device whose identity it is about to save.
IsTarget(target) == target.device \in Device /\ target.route \in Routes(target.device)
IsRoute(c) ==
  \/ c.connection = Networked
  \/ c.device \in Device /\ \E route \in Routes(c.device) : c.connection = UsbRoute(c.device, route)
IsCommand(c) ==
  c = [ at |-> c.at, arguments |-> c.arguments, read |-> c.read, targets |-> c.targets,
        connection |-> c.connection, device |-> c.device ]
Asking == {"choosing", "addressing", "selecting", "naming"}
Sound(c) ==
  /\ c.at \in Asking => IsCommand(c)
  /\ c.at = "selecting" => \A target \in c.targets : IsTarget(target)
  /\ c.at \in {"naming", "saving"} => IsRoute(c)

UsbInv == TablesInv /\ Sound(adding)

-----------------------------------------------------------------------------
(* The command keeps device and connection together.                       *)

LEMMA NotAddingSound == Sound(NotAdding)
BY DEF Sound, NotAdding, Asking

\* Before a question it keeps all it has.
LEMMA WaitingKeeps ==
  ASSUME NEW c, IsCommand(c), NEW place
  PROVE  LET w == Waiting(c, place)
         IN  /\ IsCommand(w) /\ w.at = place /\ w.targets = c.targets
             /\ w.connection = c.connection /\ w.device = c.device
<1>1. PICK w : w = Waiting(c, place)
  OBVIOUS
<1>2. w = [ at |-> place, arguments |-> c.arguments, read |-> c.read, targets |-> c.targets,
            connection |-> c.connection, device |-> c.device ]
  BY <1>1 DEF Waiting, IsCommand
<1>3. IsCommand(w)
  BY <1>2 DEF IsCommand
<1> QED BY <1>1, <1>2, <1>3

\* It asks for a name, or saves, what it has.
LEMMA ResolveNameSound ==
  ASSUME NEW c, IsCommand(c), IsRoute(c)
  PROVE  Sound(ResolveName(c))
<1>1. Sound(Resolved(c, c.arguments.name))
  BY DEF Resolved, Sound, Asking, IsRoute
<1>2. Sound(Waiting(c, "naming"))
  BY WaitingKeeps DEF Sound, IsRoute
<1> QED BY <1>1, <1>2, NotAddingSound DEF ResolveName

LEMMA ForDeviceSound ==
  ASSUME NEW c, IsCommand(c), NEW target, IsTarget(target)
  PROVE  Sound(ForDevice(c, target))
<1> DEFINE route == UsbRoute(target.device, target.route)
           d == [c EXCEPT !.device = target.device, !.targets = {}, !.connection = route]
<1>1. PICK e : e = [c EXCEPT !.device = target.device]
  OBVIOUS
<1>2. e = [ at |-> c.at, arguments |-> c.arguments, read |-> c.read, targets |-> c.targets,
            connection |-> c.connection, device |-> target.device ]
  BY <1>1 DEF IsCommand
<1>3. PICK f : f = [e EXCEPT !.targets = {}]
  OBVIOUS
<1>4. f = [ at |-> c.at, arguments |-> c.arguments, read |-> c.read, targets |-> {},
            connection |-> c.connection, device |-> target.device ]
  BY <1>2, <1>3
<1>5. d = [f EXCEPT !.connection = route]
  BY <1>1, <1>3, Zenon
<1>6. d = [ at |-> c.at, arguments |-> c.arguments, read |-> c.read, targets |-> {},
            connection |-> route, device |-> target.device ]
  <2> HIDE DEF d, route
  <2> QED BY <1>4, <1>5
<1>7. IsCommand(d)
  BY <1>6 DEF IsCommand
<1>8. IsRoute(d)
  BY <1>6 DEF IsRoute, IsTarget
<1> QED BY <1>7, <1>8, ResolveNameSound DEF ForDevice

LEMMA ForHostSound ==
  ASSUME NEW c, IsCommand(c)
  PROVE  Sound(ForHost(c))
<1> DEFINE d == [c EXCEPT !.connection = Networked]
<1>1. d = [ at |-> c.at, arguments |-> c.arguments, read |-> c.read, targets |-> c.targets,
            connection |-> Networked, device |-> c.device ]
  BY DEF IsCommand
<1>2. IsCommand(d) /\ IsRoute(d)
  BY <1>1 DEF IsCommand, IsRoute
<1> QED BY <1>2, ResolveNameSound DEF ForHost

\* Every printer that is offered is a device that is plugged in.
LEMMA TargetsAreTargets ==
  ASSUME NEW saved, NEW target \in UsbAddTargets(saved)
  PROVE  IsTarget(target)
<1>1. PICK p \in Unconfigured(saved) :
        \E r \in {route \in Routes(p.device) : route.interface = p.interface} :
          target = [device |-> p.device, route |-> r, ambiguous |-> HasTwin(p, Unconfigured(saved))]
  BY DEF UsbAddTargets
<1>2. p.device \in Device
  BY DEF Unconfigured, PrintersOf, Plugged
<1> QED BY <1>1, <1>2 DEF IsTarget

LEMMA SelectTargetSound ==
  ASSUME NEW c, IsCommand(c), NEW targets, \A target \in targets : IsTarget(target)
  PROVE  Sound(SelectTarget(c, targets))
<1>1. Sound(Offered(c, targets))
  <2>1. PICK e : e = [c EXCEPT !.targets = targets]
    OBVIOUS
  <2>2. e = [ at |-> c.at, arguments |-> c.arguments, read |-> c.read, targets |-> targets,
              connection |-> c.connection, device |-> c.device ]
    BY <2>1 DEF IsCommand
  <2>3. IsCommand(e) /\ e.targets = targets
    BY <2>2 DEF IsCommand
  <2>4. Sound(Waiting(e, "selecting"))
    BY <2>3, WaitingKeeps DEF Sound
  <2> QED BY <2>1, <2>4, Zenon DEF Offered
<1>2. targets # {} => Sound(ForDevice(c, CHOOSE t \in targets : TRUE))
  BY ForDeviceSound
<1> QED BY <1>1, <1>2, NotAddingSound DEF SelectTarget

LEMMA ResolveSound ==
  ASSUME NEW c, IsCommand(c), NEW transport
  PROVE  Sound(Resolve(c, transport))
<1>1. Sound(ResolveUsb(c))
  <2>1. Sound(SelectTarget(c, UsbAddTargets(c.read)))
    BY SelectTargetSound, TargetsAreTargets
  <2>2. Sound(SelectTarget(c, Selected(UsbAddTargets(c.read), c.arguments.selector)))
    <3>1. Selected(UsbAddTargets(c.read), c.arguments.selector) \subseteq UsbAddTargets(c.read)
      BY DEF Selected
    <3> QED BY <3>1, SelectTargetSound, TargetsAreTargets
  <2> QED BY <2>1, <2>2, NotAddingSound DEF ResolveUsb
<1>2. Sound(ResolveNetwork(c))
  <2>1. Sound(Waiting(c, "addressing"))
    BY WaitingKeeps DEF Sound
  <2> QED BY <2>1, ForHostSound, NotAddingSound DEF ResolveNetwork
<1> QED BY <1>1, <1>2 DEF Resolve

LEMMA ExecuteSound ==
  ASSUME NEW arguments
  PROVE  Sound(Execute(arguments))
<1> DEFINE c == [ at |-> "begun", arguments |-> arguments, read |-> tables, targets |-> {},
                  connection |-> Networked, device |-> "none" ]
<1>1. IsCommand(c)
  BY DEF IsCommand
<1>2. Sound(Waiting(c, "choosing"))
  BY <1>1, WaitingKeeps DEF Sound
<1>3. Sound(Resolve(c, arguments.transport))
  BY <1>1, ResolveSound
<1> QED BY <1>2, <1>3, NotAddingSound DEF Execute

-----------------------------------------------------------------------------
(* Steps.                                                                  *)

\* A new name gets a table that its device matches; the old ones keep theirs.
LEMMA RegisteredKeepsTables ==
  ASSUME TablesInv, NEW name, NEW connection, NEW device,
         \/ connection = Networked
         \/ device \in Device /\ \E route \in Routes(device) : connection = UsbRoute(device, route),
         Registered(name, connection, device)
  PROVE  TablesInv'
<1>1. CASE IsTaken(name, tables)
  BY <1>1 DEF Registered, TablesInv, UsbTables, IsTableOf, Routes, UsbRoute
<1>2. CASE ~IsTaken(name, tables)
  <2> DEFINE new == TableOf(name, connection)
  <2>1. tables' = tables \union {new}
    BY <1>2 DEF Registered
  <2>2. CASE connection = Networked
    <3>1. new \notin UsbTables(tables')
      BY <2>2 DEF UsbTables, TableOf, Networked
    <3>2. chosen' = chosen
      BY <1>2, <2>2 DEF Registered
    <3> QED BY <2>1, <3>1, <3>2 DEF TablesInv, UsbTables, IsTableOf, Routes, UsbRoute
  <2>3. CASE connection # Networked
    <3>1. PICK route \in Routes(device) : connection = UsbRoute(device, route)
      BY <2>3
    <3>2. chosen' = [n \in DOMAIN chosen \union {name} |-> IF n = name THEN device ELSE chosen[n]]
      BY <1>2, <2>3 DEF Registered
    <3>3. IsTableOf(new, device)
      BY <2>3, <3>1 DEF IsTableOf, TableOf
    <3>4. \A t \in UsbTables(tables) : t.name # name
      BY <1>2 DEF IsTaken, UsbTables
    <3> SUFFICES ASSUME NEW t \in UsbTables(tables')
                 PROVE  t.name \in DOMAIN chosen' /\ IsTableOf(t, chosen'[t.name])
      BY DEF TablesInv, UsbTables, IsTableOf, Routes, UsbRoute
    <3>5. CASE t = new
      <4>1. t.name = name
        BY <3>5 DEF TableOf
      <4> QED BY <3>2, <3>3, <3>5, <4>1
    <3>6. CASE t \in UsbTables(tables)
      <4>1. t.name \in DOMAIN chosen /\ t.name # name
        BY <3>4, <3>6 DEF TablesInv
      <4>2. chosen'[t.name] = chosen[t.name]
        BY <3>2, <4>1
      <4> QED BY <3>2, <3>6, <4>1, <4>2 DEF TablesInv
    <3> QED BY <2>1, <3>5, <3>6 DEF UsbTables
  <2> QED BY <2>2, <2>3
<1> QED BY <1>1, <1>2

\* A step of the command that only asks keeps the tables.
LEMMA AddGoesOnInvariant ==
  ASSUME UsbInv, NEW c, Sound(c), AddGoesOn(c)
  PROVE  UsbInv'
BY DEF UsbInv, AddGoesOn, Sound, IsCommand, IsRoute, IsTarget, TablesInv, UsbTables, IsTableOf,
       Routes, Networked, UsbRoute

LEMMA AddingInvariant ==
  ASSUME UsbInv,
         \/ \E arguments \in Commands : BeginAdd(arguments)
         \/ DiscoverHost \/ ChooseTransport \/ EnterHost \/ ChooseUsbPrinter \/ EnterName \/ GiveUp
  PROVE  UsbInv'
<1>1. ASSUME NEW arguments \in Commands, BeginAdd(arguments) PROVE UsbInv'
  <2>1. Sound([at |-> "discovering", arguments |-> [arguments EXCEPT !.transport = "network"]])
    BY DEF Sound, Asking
  <2> QED BY <1>1, <2>1, ExecuteSound, NotAddingSound, AddGoesOnInvariant DEF BeginAdd
<1>2. CASE DiscoverHost
  BY <1>2, ExecuteSound, NotAddingSound, AddGoesOnInvariant DEF DiscoverHost
<1>3. CASE ChooseTransport
  <2>1. IsCommand(adding)
    BY <1>3 DEF ChooseTransport, UsbInv, Sound, Asking
  <2> QED BY <1>3, <2>1, ResolveSound, AddGoesOnInvariant DEF ChooseTransport
<1>4. CASE EnterHost
  <2>1. IsCommand(adding)
    BY <1>4 DEF EnterHost, UsbInv, Sound, Asking
  <2> QED BY <1>4, <2>1, ForHostSound, AddGoesOnInvariant DEF EnterHost
<1>5. CASE ChooseUsbPrinter
  <2>1. IsCommand(adding) /\ \A target \in adding.targets : IsTarget(target)
    BY <1>5 DEF ChooseUsbPrinter, UsbInv, Sound, Asking
  <2> QED BY <1>5, <2>1, ForDeviceSound, AddGoesOnInvariant DEF ChooseUsbPrinter
<1>6. CASE EnterName
  <2>1. PICK name \in ToSet(Aliases) : AddGoesOn(Resolved(adding, name))
    BY <1>6 DEF EnterName
  <2>2. IsRoute(adding)
    BY <1>6 DEF EnterName, UsbInv, Sound
  <2>3. Sound(Resolved(adding, name))
    BY <2>2 DEF Resolved, Sound, Asking, IsRoute
  <2> QED BY <2>1, <2>3, AddGoesOnInvariant
<1>7. CASE GiveUp
  BY <1>7, NotAddingSound, AddGoesOnInvariant DEF GiveUp
<1> QED BY <1>1, <1>2, <1>3, <1>4, <1>5, <1>6, <1>7

LEMMA NextInvariant == UsbInv /\ [UsbNext]_usbVars => UsbInv'
<1> SUFFICES ASSUME UsbInv, [UsbNext]_usbVars PROVE UsbInv'
  OBVIOUS
<1>1. ASSUME UNCHANGED <<tables, adding, chosen>> PROVE UsbInv'
  BY <1>1 DEF UsbInv, Sound, IsCommand, IsRoute, IsTarget, TablesInv, UsbTables, IsTableOf,
              Routes, Networked, UsbRoute
<1>2. CASE UNCHANGED usbVars
  BY <1>1, <1>2 DEF usbVars
<1>3. ASSUME NEW d \in Device, Unplug(d) \/ \E p \in Ports : Plug(d, p) PROVE UsbInv'
  BY <1>1, <1>3 DEF Unplug, Plug, Move
<1>4. CASE GrantUsbPermissions \/ BeginTransfer \/ EndTransfer
  BY <1>1, <1>4 DEF GrantUsbPermissions, BeginTransfer, EndTransfer
<1>5. CASE Save
  <2>1. TablesInv'
    <3>1. IsRoute(adding)
      BY <1>5 DEF Save, UsbInv, Sound
    <3> QED BY <1>5, <3>1, RegisteredKeepsTables DEF Save, IsRoute, UsbInv
  <2>2. Sound(adding')
    BY <1>5, NotAddingSound DEF Save
  <2> QED BY <2>1, <2>2 DEF UsbInv, Sound, IsCommand, IsRoute, IsTarget, Routes, Networked, UsbRoute
<1>6. ASSUME NEW name \in ToSet(Aliases), NEW d \in Device, AddFromPage(name, d) PROVE UsbInv'
  <2>1. PICK route \in Routes(d) : Registered(name, UsbRoute(d, route), d)
    BY <1>6 DEF AddFromPage
  <2>2. TablesInv'
    BY <2>1, RegisteredKeepsTables DEF UsbInv
  <2>3. adding' = adding
    BY <1>6 DEF AddFromPage
  <2> QED BY <2>2, <2>3 DEF UsbInv, Sound, IsCommand, IsRoute, IsTarget, Routes, Networked, UsbRoute
<1> QED BY <1>2, <1>3, <1>4, <1>5, <1>6, AddingInvariant DEF UsbNext

LEMMA InitInvariant == UsbInit => UsbInv
BY NotAddingSound DEF UsbInit, UsbInv, TablesInv, UsbTables

-----------------------------------------------------------------------------
(* The theorem.                                                            *)

LEMMA TablesMatch ==
  ASSUME NEW t, NEW device, IsTableOf(t, device)
  PROVE  device \in Device /\ IdentityMatches(device, t)
<1>1. PICK route \in Routes(device) : t.connection = UsbRoute(device, route)
  BY DEF IsTableOf
<1>2. /\ t.connection.model = IdentityOf[device].model
      /\ t.connection.serial = IdentityOf[device].serial
  BY <1>1 DEF UsbRoute
<1> QED BY <1>2 DEF IsTableOf, IdentityMatches

\* A job goes to one device, the only one that matches, and the device the name
\* was registered for matches.
LEMMA TransferReachesChosen ==
  ASSUME UsbInv, BeginTransfer
  PROVE  \/ transfer'.device = chosen[transfer'.name]
         \/ ports[chosen[transfer'.name]] = Unplugged
<1>1. PICK table \in UsbTables(tables) :
        \E d \in RequireUnique(Reachable(table)) \ denied :
          transfer' = [name |-> table.name, device |-> d]
  BY DEF BeginTransfer
<1>2. PICK d \in RequireUnique(Reachable(table)) \ denied :
        transfer' = [name |-> table.name, device |-> d]
  BY <1>1
<1> DEFINE ch == chosen[table.name]
<1>3. ch \in Device /\ IdentityMatches(ch, table)
  BY TablesMatch DEF UsbInv, TablesInv
<1>4. d \in Reachable(table) /\ Cardinality(Reachable(table)) = 1
  BY DEF RequireUnique
<1>5. IsFiniteSet(Reachable(table))
  BY DeviceAssumption, FS_Subset DEF Reachable, Plugged
<1>6. PICK x : Reachable(table) = {x}
  BY <1>4, <1>5, FS_Singleton
<1>7. ports[ch] # Unplugged => ch \in Reachable(table)
  BY <1>3 DEF Reachable, Plugged
<1> QED BY <1>2, <1>4, <1>6, <1>7

\* Jobs for a name reach no other device than the one it was registered for while
\* that one is plugged in: for any number of devices and names, and any order of
\* plugging, registering and printing.
THEOREM JobsReachTheirDevice == UsbSpec => JobsReachChosenDevice
<1>1. UsbInit => UsbInv
  BY InitInvariant
<1>2. UsbInv /\ [UsbNext]_usbVars => UsbInv'
  BY NextInvariant
<1>3. UsbInv /\ [UsbNext]_usbVars =>
        [transfer' # <<>> /\ transfer = <<>> =>
           \/ transfer'.device = chosen[transfer'.name]
           \/ ports[chosen[transfer'.name]] = Unplugged]_usbVars
  <2> SUFFICES ASSUME UsbInv, UsbNext, transfer' # <<>>, transfer = <<>>
               PROVE  \/ transfer'.device = chosen[transfer'.name]
                      \/ ports[chosen[transfer'.name]] = Unplugged
    BY DEF usbVars
  <2>1. BeginTransfer
    BY DEF UsbNext, Unplug, Plug, Move, GrantUsbPermissions, BeginAdd, DiscoverHost, ChooseTransport,
           EnterHost, ChooseUsbPrinter, EnterName, GiveUp, AddGoesOn, Save, AddFromPage, EndTransfer
  <2> QED BY <2>1, TransferReachesChosen
<1> QED BY <1>1, <1>2, <1>3, PTL DEF UsbSpec, JobsReachChosenDevice
-----------------------------------------------------------------------------
(* Taking turns.                                                           *)

LessThan == {pair \in Nat \X Nat : pair[1] < pair[2]}
LEMMA LeastNumber ==
  ASSUME NEW numbers \in SUBSET Nat, numbers # {}
  PROVE  \E n \in numbers : \A k \in numbers : n <= k
<1>1. IsWellFoundedOn(LessThan, Nat)
  BY NatLessThanWellFounded DEF OpToRel, LessThan
<1>2. PICK n \in numbers : \A k \in numbers : ~ (<<k, n>> \in LessThan)
  BY <1>1, WFMin
<1>3. \A k \in numbers : ~ (k < n)
  BY <1>2 DEF LessThan
<1> QED BY <1>3

\* Induction up to a number, for a property given as the set of numbers that have it.
LEMMA UpTo ==
  ASSUME NEW N \in Nat, NEW P, 0 \in P, \A n \in 1..N : n - 1 \in P => n \in P
  PROVE  \A n \in 0..N : n \in P
<1> DEFINE wrong == {n \in 0..N : n \notin P}
<1>1. CASE wrong = {}
  BY <1>1
<1>2. CASE wrong # {}
  <2>1. PICK n \in wrong : \A k \in wrong : n <= k
    <3>1. wrong \in SUBSET Nat
      OBVIOUS
    <3> HIDE DEF wrong
    <3> QED BY <1>2, <3>1, LeastNumber
  <2>2. n \in 1..N /\ n - 1 \in 0..N /\ n - 1 \notin wrong
    BY <2>1
  <2> QED BY <2>1, <2>2
<1> QED BY <1>1, <1>2

\* The first of a set is one of them that no other precedes.
LEMMA FirstIsFirst ==
  ASSUME NEW left, left # {}, NEW place, \A one \in left : place[one] \in Nat
  PROVE  /\ First(left, place) \in left
         /\ \A other \in left : place[First(left, place)] <= place[other]
<1> DEFINE places == {place[one] : one \in left}
<1>1. PICK n \in places : \A k \in places : n <= k
  <2>1. places \in SUBSET Nat /\ places # {}
    OBVIOUS
  <2> HIDE DEF places
  <2> QED BY <2>1, LeastNumber
<1>2. \E one \in left : \A other \in left : place[one] <= place[other]
  BY <1>1
<1> QED BY <1>2 DEF First

\* The turns of a loop: the state after each.
Turn(s, place, matching) == Claim(s, First(s.left, place), matching[First(s.left, place)])
Turns(after, place, matching) ==
  after = [n \in 0..Cardinality(DOMAIN matching) |->
             IF n = 0 THEN Untouched(DOMAIN matching) ELSE Turn(after[n - 1], place, matching)]
TheTurns(place, matching) == CHOOSE after : Turns(after, place, matching)

LEMMA InTurnTurns ==
  ASSUME NEW place, NEW matching
  PROVE  InTurn(matching, place) = TheTurns(place, matching)[Cardinality(DOMAIN matching)]
BY DEF InTurn, TheTurns, Turns, Turn

LEMMA TurnsExist ==
  ASSUME NEW place, NEW matching, Cardinality(DOMAIN matching) \in Nat
  PROVE  Turns(TheTurns(place, matching), place, matching)
<1> DEFINE N == Cardinality(DOMAIN matching)
           start == Untouched(DOMAIN matching)
           Good(g, n) == g = [m \in 0..n |-> IF m = 0 THEN start ELSE Turn(g[m - 1], place, matching)]
           P == {n \in 0..N : \E g : Good(g, n)}
<1>1. 0 \in P
  <2>1. PICK g : g = [m \in 0..0 |-> start]
    OBVIOUS
  <2>2. \A m \in 0..0 : m = 0
    OBVIOUS
  <2>3. g = [m \in 0..0 |-> IF m = 0 THEN start ELSE Turn(g[m - 1], place, matching)]
    <3> HIDE DEF start
    <3> QED BY <2>1, <2>2
  <2> QED BY <2>3
<1>2. ASSUME NEW n \in 1..N, n - 1 \in P PROVE n \in P
  <2>1. PICK g : Good(g, n - 1)
    BY <1>2
  <2> DEFINE h == [m \in 0..n |-> IF m = n THEN Turn(g[n - 1], place, matching) ELSE g[m]]
  <2> HIDE DEF start
  <2>2. ASSUME NEW m \in 0..n
        PROVE  h[m] = IF m = 0 THEN start ELSE Turn(h[m - 1], place, matching)
    <3>1. CASE m = 0
      <4>1. h[m] = g[m] /\ m \in 0..(n - 1)
        BY <3>1
      <4> HIDE DEF h
      <4> QED BY <2>1, <3>1, <4>1
    <3>2. CASE m # 0
      <4>1. m - 1 \in 0..n /\ m - 1 # n /\ h[m - 1] = g[m - 1]
        BY <3>2
      <4>2. CASE m = n
        <5>1. h[m] = Turn(g[m - 1], place, matching)
          BY <4>2
        <5> HIDE DEF h
        <5> QED BY <3>2, <4>1, <5>1
      <4>3. CASE m # n
        <5>1. h[m] = g[m] /\ m \in 0..(n - 1)
          BY <4>3
        <5> HIDE DEF h
        <5> QED BY <2>1, <3>2, <4>1, <5>1
      <4> QED BY <4>2, <4>3
    <3> QED BY <3>1, <3>2
  <2>3. h = [m \in 0..n |-> h[m]]
    OBVIOUS
  <2> HIDE DEF h
  <2>4. Good(h, n)
    BY <2>2, <2>3
  <2> QED BY <2>4
<1>3. N \in P
  <2> HIDE DEF P, N
  <2>1. N \in Nat
    BY DEF N
  <2> QED BY <1>1, <1>2, <2>1, UpTo
<1>4. \E g : Turns(g, place, matching)
  BY <1>3 DEF Turns
<1> QED BY <1>4 DEF TheTurns

\* Who precedes one of them, and what they claim.
Before(one, place, matching) == {other \in DOMAIN matching : place[other] < place[one]}
Claims(some, matching) == UNION {matching[one] : one \in some}
\* Places are numbers that tell those apart which take turns.
Placed(place, all) ==
  /\ \A one \in all : place[one] \in Nat
  /\ \A one, other \in all : place[one] = place[other] => one = other

\* After n turns those who had theirs precede the others, they claimed what
\* matches them, and one is shown if it found a table that was free.
TurnInv(s, n, place, matching) ==
  LET all == DOMAIN matching IN
  /\ s.left \subseteq all /\ Cardinality(s.left) = Cardinality(all) - n
  /\ \A one \in all \ s.left, other \in s.left : place[one] < place[other]
  /\ s.claimed = Claims(all \ s.left, matching)
  /\ \A x \in s.shown : x.one \in all \ s.left
  /\ \A one \in all \ s.left :
       (\E x \in s.shown : x.one = one)
         <=> ~(matching[one] \subseteq Claims(Before(one, place, matching), matching))

LEMMA UntouchedInv ==
  ASSUME NEW place, NEW matching, IsFiniteSet(DOMAIN matching)
  PROVE  TurnInv(Untouched(DOMAIN matching), 0, place, matching)
<1> DEFINE all == DOMAIN matching
<1>1. PICK s : s = Untouched(all)
  OBVIOUS
<1>2. s.left = all /\ s.claimed = {} /\ s.shown = {}
  BY <1>1 DEF Untouched
<1>3. Cardinality(all) \in Nat
  BY FS_CardinalityType
<1>4. Claims(all \ s.left, matching) = {}
  BY <1>2 DEF Claims
<1> QED BY <1>1, <1>2, <1>3, <1>4 DEF TurnInv

LEMMA TurnKeeps ==
  ASSUME NEW place, NEW matching, IsFiniteSet(DOMAIN matching), Placed(place, DOMAIN matching),
         NEW n \in 1..Cardinality(DOMAIN matching), NEW s, TurnInv(s, n - 1, place, matching)
  PROVE  TurnInv(Turn(s, place, matching), n, place, matching)
<1> DEFINE all == DOMAIN matching
<1>1. PICK one : one = First(s.left, place)
  OBVIOUS
<1>2. PICK t : t = Turn(s, place, matching)
  OBVIOUS
<1>3. PICK more : more = IF matching[one] \subseteq s.claimed THEN {}
                         ELSE {[one |-> one, table |-> FirstByName(matching[one] \ s.claimed)]}
  OBVIOUS
<1>4. t.left = s.left \ {one} /\ t.claimed = s.claimed \union matching[one] /\ t.shown = s.shown \union more
  BY <1>1, <1>2, <1>3 DEF Turn, Claim
<1>5. PICK card : card = Cardinality(all)
  OBVIOUS
<1>6. card \in Nat /\ n \in 1..card
  BY <1>5, FS_CardinalityType
<1>7. s.left \subseteq all /\ Cardinality(s.left) = card - (n - 1)
  BY <1>5 DEF TurnInv
<1>8. IsFiniteSet(s.left) /\ s.left # {}
  <2>1. IsFiniteSet(s.left)
    BY <1>7, FS_Subset
  <2> QED BY <2>1, <1>6, <1>7, FS_EmptySet
<1>9. one \in s.left /\ \A other \in s.left : place[one] <= place[other]
  BY <1>1, <1>7, <1>8, FirstIsFirst DEF Placed
<1>10. Cardinality(t.left) = card - n /\ t.left \subseteq all
  <2>1. PICK left : left = s.left
    OBVIOUS
  <2>2. Cardinality(left \ {one}) = Cardinality(left) - 1
    BY <1>8, <1>9, <2>1, FS_RemoveElement
  <2> QED BY <1>4, <1>6, <1>7, <2>1, <2>2
<1>11. all \ t.left = (all \ s.left) \union {one}
  BY <1>4, <1>7, <1>9
<1>12. \A other \in s.left \ {one} : place[one] < place[other]
  BY <1>7, <1>9 DEF Placed
<1>13. \A a \in all \ t.left, b \in t.left : place[a] < place[b]
  <2>1. \A a \in all \ s.left, b \in s.left : place[a] < place[b]
    BY DEF TurnInv
  <2> QED BY <1>4, <1>11, <1>12, <2>1
<1>14. Before(one, place, matching) = all \ s.left
  <2>1. \A a \in all \ s.left : place[a] < place[one]
    BY <1>9 DEF TurnInv
  <2>2. \A a \in s.left : ~(place[a] < place[one])
    BY <1>7, <1>9 DEF Placed
  <2> QED BY <1>7, <2>1, <2>2 DEF Before
<1>15. s.claimed = Claims(all \ s.left, matching)
  BY DEF TurnInv
<1>16. t.claimed = Claims(all \ t.left, matching)
  BY <1>4, <1>11, <1>15 DEF Claims
<1>17. \A x \in more : x.one = one
  BY <1>3
<1>18. \A x \in s.shown : x.one \in all \ s.left
  BY DEF TurnInv
<1>19. \A x \in t.shown : x.one \in all \ t.left
  BY <1>4, <1>11, <1>17, <1>18
<1>20. ASSUME NEW a \in all \ t.left
       PROVE  (\E x \in t.shown : x.one = a)
                <=> ~(matching[a] \subseteq Claims(Before(a, place, matching), matching))
  <2>1. CASE a = one
    <3>1. \A x \in s.shown : x.one # one
      BY <1>9, <1>18
    <3>2. (\E x \in more : x.one = one) <=> ~(matching[one] \subseteq s.claimed)
      BY <1>3
    <3> QED BY <1>4, <1>14, <1>15, <2>1, <3>1, <3>2
  <2>2. CASE a # one
    <3>1. a \in all \ s.left
      BY <1>11, <2>2
    <3>2. \A x \in more : x.one # a
      BY <1>17, <2>2
    <3>3. (\E x \in s.shown : x.one = a)
            <=> ~(matching[a] \subseteq Claims(Before(a, place, matching), matching))
      BY <3>1 DEF TurnInv
    <3> QED BY <1>4, <3>2, <3>3
  <2> QED BY <2>1, <2>2
<1> QED BY <1>2, <1>5, <1>10, <1>13, <1>16, <1>19, <1>20 DEF TurnInv

\* When all had their turn: whatever matches one of them is claimed, and those are
\* shown which no others that precede them leave without a table.
AllHadTheirTurn(s, place, matching) ==
  /\ s.claimed = Claims(DOMAIN matching, matching)
  /\ \A x \in s.shown : x.one \in DOMAIN matching
  /\ \A one \in DOMAIN matching :
       (\E x \in s.shown : x.one = one)
         <=> ~(matching[one] \subseteq Claims(Before(one, place, matching), matching))

LEMMA InTurnClaims ==
  ASSUME NEW place, NEW matching, IsFiniteSet(DOMAIN matching), Placed(place, DOMAIN matching)
  PROVE  AllHadTheirTurn(InTurn(matching, place), place, matching)
<1> DEFINE all == DOMAIN matching
<1>1. PICK N : N = Cardinality(all)
  OBVIOUS
<1>2. N \in Nat
  BY <1>1, FS_CardinalityType
<1>3. PICK after : after = TheTurns(place, matching)
  OBVIOUS
<1>4. Turns(after, place, matching)
  BY <1>1, <1>2, <1>3, TurnsExist
<1>5. /\ after[0] = Untouched(all)
      /\ \A n \in 1..N : after[n] = Turn(after[n - 1], place, matching)
  BY <1>1, <1>2, <1>4 DEF Turns
<1> DEFINE P == {n \in 0..N : TurnInv(after[n], n, place, matching)}
<1>6. 0 \in P
  BY <1>2, <1>5, UntouchedInv
<1>7. ASSUME NEW n \in 1..N, n - 1 \in P PROVE n \in P
  BY <1>1, <1>5, <1>7, TurnKeeps
<1>8. N \in P
  <2> HIDE DEF P
  <2> QED BY <1>2, <1>6, <1>7, UpTo
<1>9. PICK s : s = after[N]
  OBVIOUS
<1>10. TurnInv(s, N, place, matching)
  BY <1>8, <1>9
<1>11. s.left = {}
  <2>1. s.left \subseteq all /\ Cardinality(s.left) = 0
    BY <1>1, <1>2, <1>10 DEF TurnInv
  <2>2. IsFiniteSet(s.left)
    BY <2>1, FS_Subset
  <2> QED BY <2>1, <2>2, FS_EmptySet
<1>12. s = InTurn(matching, place)
  BY <1>1, <1>3, <1>9, InTurnTurns
<1>13. all \ s.left = all
  BY <1>11
<1>14. AllHadTheirTurn(s, place, matching)
  BY <1>10, <1>13 DEF TurnInv, AllHadTheirTurn
<1> QED BY <1>12, <1>14

-----------------------------------------------------------------------------
(* The ways to match.                                                      *)

\* A port holds one device.
PortsInv ==
  /\ ports \in [Device -> Nat]
  /\ \A d, e \in Device : ports[d] = ports[e] /\ ports[d] # Unplugged => d = e

LEMMA PortsInitially == UsbInit => PortsInv
BY DEF UsbInit, PortsInv, Unplugged

LEMMA PortsStep == PortsInv /\ [UsbNext]_usbVars => PortsInv'
<1> SUFFICES ASSUME PortsInv, [UsbNext]_usbVars PROVE PortsInv'
  OBVIOUS
<1>1. CASE UNCHANGED ports
  BY <1>1 DEF PortsInv
<1>2. ASSUME NEW d \in Device, Unplug(d) PROVE PortsInv'
  <2>1. ports' = [ports EXCEPT ![d] = 0]
    BY <1>2 DEF Unplug, Move, Unplugged
  <2> QED BY <2>1 DEF PortsInv, Unplugged
<1>3. ASSUME NEW d \in Device, NEW p \in Ports, Plug(d, p) PROVE PortsInv'
  <2>1. ports' = [ports EXCEPT ![d] = p] /\ \A e \in Device : ports[e] # p
    BY <1>3 DEF Plug, Move
  <2>2. p \in Nat
    BY PortsAssumption
  <2> QED BY <2>1, <2>2 DEF PortsInv
<1>4. CASE UNCHANGED usbVars
  BY <1>1, <1>4 DEF usbVars
<1>5. CASE \/ \E arguments \in Commands : BeginAdd(arguments)
           \/ DiscoverHost \/ ChooseTransport \/ EnterHost \/ ChooseUsbPrinter \/ EnterName \/ GiveUp
  BY <1>1, <1>5 DEF BeginAdd, DiscoverHost, ChooseTransport, EnterHost, ChooseUsbPrinter, EnterName,
                    GiveUp, AddGoesOn
<1>6. CASE GrantUsbPermissions \/ Save \/ BeginTransfer \/ EndTransfer
  BY <1>1, <1>6 DEF GrantUsbPermissions, Save, BeginTransfer, EndTransfer
<1>7. CASE \E name \in ToSet(Aliases), d \in Device : AddFromPage(name, d)
  BY <1>1, <1>7 DEF AddFromPage
<1> QED BY <1>2, <1>3, <1>4, <1>5, <1>6, <1>7 DEF UsbNext

LEMMA PrinterFields ==
  ASSUME NEW devices \in SUBSET Plugged, NEW p \in PrintersOf(devices)
  PROVE  /\ p.device \in devices /\ p.device \in Device /\ ports[p.device] # Unplugged
         /\ p.interface \in 0..(InterfaceNumbers - 1)
         /\ p = [device |-> p.device, interface |-> p.interface]
<1>1. PICK d \in devices : \E r \in Routes(d) : p = [device |-> d, interface |-> r.interface]
  BY DEF PrintersOf
<1>2. PICK r \in Routes(d) : p = [device |-> d, interface |-> r.interface]
  BY <1>1
<1>3. d \in Device /\ ports[d] # Unplugged
  BY DEF Plugged
<1>4. r.interface \in 0..(InterfaceNumbers - 1)
  BY <1>3, RoutesAssumption DEF Routes
<1> QED BY <1>2, <1>3, <1>4

\* A printer has a place of its own on the bus, and there are finitely many.
LEMMA PrintersArePlaced ==
  ASSUME PortsInv, NEW devices \in SUBSET Plugged
  PROVE  /\ Placed(UsbLocation(PrintersOf(devices)), PrintersOf(devices))
         /\ IsFiniteSet(PrintersOf(devices))
<1> DEFINE printers == PrintersOf(devices)
           numbers == 0..(InterfaceNumbers - 1)
           all == [device : Device, interface : numbers]
<1>1. \A p \in printers : /\ p.device \in devices /\ p.device \in Device /\ ports[p.device] # Unplugged
                          /\ p.interface \in numbers
                          /\ p = [device |-> p.device, interface |-> p.interface]
  BY PrinterFields
<1>2. ASSUME NEW p \in printers, NEW q \in printers,
             ports[p.device] * 256 + p.interface = ports[q.device] * 256 + q.interface
      PROVE  p = q
  <2>1. p.interface \in 0..255 /\ q.interface \in 0..255
    BY <1>1 DEF InterfaceNumbers
  <2>2. ports[p.device] \in Nat /\ ports[q.device] \in Nat
    BY <1>1 DEF PortsInv
  <2>3. ports[p.device] = ports[q.device] /\ p.interface = q.interface
    <3>1. PICK a, b \in Nat : a = ports[p.device] /\ b = ports[q.device]
      BY <2>2
    <3>2. PICK i, j \in 0..255 : i = p.interface /\ j = q.interface
      BY <2>1
    <3>3. a * 256 + i = b * 256 + j
      BY <1>2, <3>1, <3>2, Zenon
    <3>4. a = b /\ i = j
      BY <3>3
    <3> QED BY <3>1, <3>2, <3>4
  <2>4. p.device = q.device
    BY <1>1, <2>3 DEF PortsInv
  <2> QED BY <1>1, <2>3, <2>4
<1>3. \A p \in printers : ports[p.device] \in Nat /\ p.interface \in Nat
  BY <1>1 DEF PortsInv, InterfaceNumbers
<1>4. Placed(UsbLocation(printers), printers)
  <2>1. \A p \in printers : UsbLocation(printers)[p] = ports[p.device] * 256 + p.interface
    BY DEF UsbLocation, InterfaceNumbers
  <2>2. \A p \in printers : UsbLocation(printers)[p] \in Nat
    BY <1>3, <2>1
  <2> HIDE DEF printers
  <2>3. \A p, q \in printers : UsbLocation(printers)[p] = UsbLocation(printers)[q] => p = q
    BY <1>2, <2>1
  <2> QED BY <2>2, <2>3 DEF Placed
<1>5. IsFiniteSet(numbers)
  <2>1. PICK last : last = InterfaceNumbers - 1
    OBVIOUS
  <2>2. last \in Int /\ 0 \in Int
    BY <2>1 DEF InterfaceNumbers
  <2>3. IsFiniteSet(0..last)
    BY <2>2, FS_Interval
  <2> QED BY <2>1, <2>3
<1>6. IsFiniteSet(Device \X numbers)
  <2> HIDE DEF numbers
  <2> QED BY <1>5, DeviceAssumption, FS_Product
<1>7. IsFiniteSet(printers)
  <2> DEFINE pairs == Device \X numbers
             images == {[device |-> pair[1], interface |-> pair[2]] : pair \in pairs}
  <2>1. IsFiniteSet(images)
    <3> DEFINE f == [pair \in pairs |-> [device |-> pair[1], interface |-> pair[2]]]
    <3>1. f \in Surjection(pairs, images)
      BY DEF Surjection
    <3> HIDE DEF f, pairs, images
    <3> QED BY <1>6, <3>1, FS_Surjection DEF pairs
  <2>2. ASSUME NEW p \in printers PROVE p \in images
    <3>1. <<p.device, p.interface>> \in pairs
      BY <1>1, <2>2
    <3> QED BY <1>1, <2>2, <3>1
  <2> HIDE DEF images, printers
  <2> QED BY <2>1, <2>2, FS_Subset
<1> QED BY <1>4, <1>7

UsbMatching == [d \in Plugged |-> {t \in UsbTables(tables) : IdentityMatches(d, t)}]
PrinterMatching(printers) == [p \in printers |-> {t \in UsbTables(tables) : ConfigurationMatches(p, t)}]

\* What matches a device matches the one interface of it that the table names.
LEMMA InterfacesMatch ==
  ASSUME TablesInv, NEW devices \in SUBSET Device, NEW t \in UsbTables(tables)
  PROVE  /\ \A p \in PrintersOf(devices) :
              p.device \in devices /\ (ConfigurationMatches(p, t) => IdentityMatches(p.device, t))
         /\ \A d \in devices : IdentityMatches(d, t) =>
              \E p \in PrintersOf(devices) : p.device = d /\ ConfigurationMatches(p, t)
<1>1. \A p \in PrintersOf(devices) : p.device \in devices
  BY DEF PrintersOf
<1>2. \A p \in PrintersOf(devices) : ConfigurationMatches(p, t) => IdentityMatches(p.device, t)
  BY DEF ConfigurationMatches
<1>3. ASSUME NEW d \in devices, IdentityMatches(d, t)
      PROVE  \E p \in PrintersOf(devices) : p.device = d /\ ConfigurationMatches(p, t)
  <2>1. IsTableOf(t, chosen[t.name])
    BY DEF TablesInv
  <2>2. PICK e, r : e \in Device /\ e = chosen[t.name] /\ r \in Routes(e) /\ t.connection = UsbRoute(e, r)
    BY <2>1 DEF IsTableOf
  <2>3. /\ t.connection.model = IdentityOf[e].model
        /\ t.connection.interface = r.interface /\ t.connection.endpoint = r.endpoint
    BY <2>2 DEF UsbRoute
  <2>4. IdentityOf[d].model = IdentityOf[e].model
    BY <1>3, <2>3 DEF IdentityMatches
  <2>5. r \in Routes(d)
    BY <2>2, <2>4 DEF Routes
  <2>6. r = [interface |-> r.interface, endpoint |-> r.endpoint]
    BY <2>2, RoutesAssumption DEF Routes
  <2>7. PICK p : p = [device |-> d, interface |-> r.interface]
    OBVIOUS
  <2>8. p.device = d /\ p.interface = r.interface
    BY <2>7
  <2>9. p \in PrintersOf(devices)
    BY <2>5, <2>7 DEF PrintersOf
  <2>10. [interface |-> p.interface, endpoint |-> t.connection.endpoint] \in Routes(p.device)
    BY <2>3, <2>5, <2>6, <2>8
  <2>11. ConfigurationMatches(p, t)
    BY <1>3, <2>3, <2>8, <2>10 DEF ConfigurationMatches
  <2> QED BY <2>8, <2>9, <2>11
<1> QED BY <1>1, <1>2, <1>3

\* One of them is shown if a table matches it and none that precedes it.
FoundFree(one, place, matching) ==
  \E t \in matching[one] : \A other \in DOMAIN matching : place[other] < place[one] => t \notin matching[other]

LEMMA ShownFoundFree ==
  ASSUME NEW place, NEW matching, IsFiniteSet(DOMAIN matching), Placed(place, DOMAIN matching)
  PROVE  /\ \A t : t \in InTurn(matching, place).claimed <=> \E one \in DOMAIN matching : t \in matching[one]
         /\ \A x \in InTurn(matching, place).shown : x.one \in DOMAIN matching
         /\ \A one \in DOMAIN matching :
              (\E x \in InTurn(matching, place).shown : x.one = one) <=> FoundFree(one, place, matching)
<1>1. PICK s : s = InTurn(matching, place)
  OBVIOUS
<1>2. AllHadTheirTurn(s, place, matching)
  BY <1>1, InTurnClaims
<1>3. ASSUME NEW one \in DOMAIN matching
      PROVE  ~(matching[one] \subseteq Claims(Before(one, place, matching), matching))
               <=> FoundFree(one, place, matching)
  <2>1. \A t : t \in Claims(Before(one, place, matching), matching)
                 <=> \E other \in DOMAIN matching : place[other] < place[one] /\ t \in matching[other]
    BY DEF Claims, Before
  <2> QED BY <2>1 DEF FoundFree
<1>4. \A t : t \in s.claimed <=> \E one \in DOMAIN matching : t \in matching[one]
  BY <1>2 DEF AllHadTheirTurn, Claims
<1>5. /\ \A x \in s.shown : x.one \in DOMAIN matching
      /\ \A one \in DOMAIN matching : (\E x \in s.shown : x.one = one) <=> FoundFree(one, place, matching)
  BY <1>2, <1>3, Zenon DEF AllHadTheirTurn
<1> QED BY <1>1, <1>4, <1>5

\* What list claims and shows.
LEMMA MergedShows ==
  ASSUME PortsInv
  PROVE  /\ \A t : t \in Merged.claimed <=> t \in UsbTables(tables) /\ Reachable(t) # {}
         /\ \A x \in Merged.shown : x.one \in Plugged
         /\ \A d \in Plugged :
              (\E x \in Merged.shown : x.one = d)
                <=> \E t \in UsbTables(tables) :
                      /\ IdentityMatches(d, t)
                      /\ \A e \in Plugged : ports[e] < ports[d] => ~IdentityMatches(e, t)
<1>1. PICK matching : matching = UsbMatching
  OBVIOUS
<1>2. DOMAIN matching = Plugged
      /\ \A d \in Plugged : matching[d] = {t \in UsbTables(tables) : IdentityMatches(d, t)}
  BY <1>1 DEF UsbMatching
<1>3. Merged = InTurn(matching, ports)
  BY <1>1 DEF Merged, UsbMatching
<1>4. IsFiniteSet(DOMAIN matching)
  BY <1>2, DeviceAssumption, FS_Subset DEF Plugged
<1>5. Placed(ports, DOMAIN matching)
  BY <1>2 DEF Placed, PortsInv, Plugged
<1>6. \A d \in Plugged : FoundFree(d, ports, matching)
                <=> \E t \in UsbTables(tables) :
                      /\ IdentityMatches(d, t)
                      /\ \A e \in Plugged : ports[e] < ports[d] => ~IdentityMatches(e, t)
  BY <1>2 DEF FoundFree
<1>7. \A t : (\E d \in DOMAIN matching : t \in matching[d])
                <=> t \in UsbTables(tables) /\ Reachable(t) # {}
  BY <1>2 DEF Reachable
<1>8. /\ \A t : t \in Merged.claimed <=> \E one \in DOMAIN matching : t \in matching[one]
      /\ \A x \in Merged.shown : x.one \in DOMAIN matching
      /\ \A one \in DOMAIN matching :
           (\E x \in Merged.shown : x.one = one) <=> FoundFree(one, ports, matching)
  BY <1>3, <1>4, <1>5, ShownFoundFree, Zenon
<1> QED BY <1>2, <1>6, <1>7, <1>8, Zenon

\* What discover shows, of the devices it may open.
LEMMA ClassifiedShows ==
  ASSUME PortsInv, NEW printers, printers = PrintersOf(Plugged \ denied),
         NEW place, place = UsbLocation(printers)
  PROVE  /\ \A x \in Classified.shown : x.one \in printers
         /\ \A p \in printers :
              (\E x \in Classified.shown : x.one = p)
                <=> \E t \in UsbTables(tables) :
                      /\ ConfigurationMatches(p, t)
                      /\ \A q \in printers : place[q] < place[p] => ~ConfigurationMatches(q, t)
<1>1. PICK matching : matching = PrinterMatching(printers)
  OBVIOUS
<1>2. /\ DOMAIN matching = printers
      /\ \A p \in printers : matching[p] = {t \in UsbTables(tables) : ConfigurationMatches(p, t)}
  BY <1>1 DEF PrinterMatching
<1>3. Classified = InTurn(matching, place)
  BY <1>1 DEF Classified, PrinterMatching
<1>4. IsFiniteSet(DOMAIN matching) /\ Placed(place, DOMAIN matching)
  BY <1>2, PrintersArePlaced
<1>5. \A p \in printers : FoundFree(p, place, matching)
                <=> \E t \in UsbTables(tables) :
                      /\ ConfigurationMatches(p, t)
                      /\ \A q \in printers : place[q] < place[p] => ~ConfigurationMatches(q, t)
  BY <1>2 DEF FoundFree
<1>6. /\ \A x \in Classified.shown : x.one \in DOMAIN matching
      /\ \A one \in DOMAIN matching :
           (\E x \in Classified.shown : x.one = one) <=> FoundFree(one, place, matching)
  BY <1>3, <1>4, ShownFoundFree, Zenon
<1> QED BY <1>2, <1>5, <1>6, Zenon

\* discover shows an interface of the devices that list shows: the interface the
\* table names, which matches no device before, so no interface before.
LEMMA SameDevicesShown ==
  ASSUME PortsInv, TablesInv, Plugged \cap denied = {}
  PROVE  {s.one.device : s \in Classified.shown} = {s.one : s \in Merged.shown}
<1>1. PICK printers : printers = PrintersOf(Plugged)
  OBVIOUS
<1>2. PICK place : place = UsbLocation(printers)
  OBVIOUS
<1>3. PICK classified, merged : classified = Classified.shown /\ merged = Merged.shown
  OBVIOUS
<1>4. Plugged \ denied = Plugged
  OBVIOUS
<1>5. /\ \A x \in classified : x.one \in printers
      /\ \A p \in printers :
           (\E x \in classified : x.one = p)
             <=> \E t \in UsbTables(tables) :
                   /\ ConfigurationMatches(p, t)
                   /\ \A q \in printers : place[q] < place[p] => ~ConfigurationMatches(q, t)
  BY <1>1, <1>2, <1>3, <1>4, ClassifiedShows, Zenon
<1>6. /\ \A x \in merged : x.one \in Plugged
      /\ \A d \in Plugged :
           (\E x \in merged : x.one = d)
             <=> \E t \in UsbTables(tables) :
                   /\ IdentityMatches(d, t)
                   /\ \A e \in Plugged : ports[e] < ports[d] => ~IdentityMatches(e, t)
  BY <1>3, MergedShows, Zenon
<1>7. \A t \in UsbTables(tables) :
        /\ \A p \in printers :
             p.device \in Plugged /\ (ConfigurationMatches(p, t) => IdentityMatches(p.device, t))
        /\ \A d \in Plugged : IdentityMatches(d, t) =>
             \E p \in printers : p.device = d /\ ConfigurationMatches(p, t)
  BY <1>1, InterfacesMatch DEF Plugged
<1>8. \A p \in printers : p.device \in Plugged
  BY <1>1 DEF PrintersOf
<1>9. ASSUME NEW p \in printers, NEW q \in printers
      PROVE  /\ place[q] < place[p] => ports[q.device] <= ports[p.device]
             /\ ports[q.device] < ports[p.device] => place[q] < place[p]
  <2>1. PICK a, b \in Nat : a = ports[p.device] /\ b = ports[q.device]
    BY <1>8 DEF PortsInv, Plugged
  <2>2. p.interface \in 0..255 /\ q.interface \in 0..255
    BY <1>1, PrinterFields DEF InterfaceNumbers
  <2>3. PICK i, j \in 0..255 : i = p.interface /\ j = q.interface
    BY <2>2
  <2>4. place[p] = a * 256 + i /\ place[q] = b * 256 + j
    BY <1>2, <2>1, <2>3 DEF UsbLocation, InterfaceNumbers
  <2> QED BY <2>1, <2>3, <2>4
<1>10. ASSUME NEW x \in classified PROVE \E y \in merged : y.one = x.one.device
  <2>1. PICK p \in printers : p = x.one
    BY <1>5
  <2>2. PICK t \in UsbTables(tables) :
          /\ ConfigurationMatches(p, t)
          /\ \A q \in printers : place[q] < place[p] => ~ConfigurationMatches(q, t)
    BY <1>5, <2>1
  <2>3. p.device \in Plugged /\ IdentityMatches(p.device, t)
    BY <1>7, <2>2
  <2>4. ASSUME NEW e \in Plugged, ports[e] < ports[p.device] PROVE ~IdentityMatches(e, t)
    <3>1. SUFFICES ASSUME IdentityMatches(e, t) PROVE FALSE
      OBVIOUS
    <3>2. PICK q \in printers : q.device = e /\ ConfigurationMatches(q, t)
      BY <1>7, <3>1
    <3>3. place[q] < place[p]
      BY <1>9, <2>4, <3>2
    <3> QED BY <2>2, <3>2, <3>3
  <2> QED BY <1>6, <2>1, <2>3, <2>4
<1>11. ASSUME NEW y \in merged PROVE \E x \in classified : x.one.device = y.one
  <2>1. PICK d \in Plugged : d = y.one
    BY <1>6
  <2>2. PICK t \in UsbTables(tables) :
          /\ IdentityMatches(d, t)
          /\ \A e \in Plugged : ports[e] < ports[d] => ~IdentityMatches(e, t)
    BY <1>6, <2>1
  <2>3. PICK p \in printers : p.device = d /\ ConfigurationMatches(p, t)
    BY <1>7, <2>2
  <2>4. ASSUME NEW q \in printers, place[q] < place[p] PROVE ~ConfigurationMatches(q, t)
    <3>1. SUFFICES ASSUME ConfigurationMatches(q, t) PROVE FALSE
      OBVIOUS
    <3>2. q.device \in Plugged /\ IdentityMatches(q.device, t)
      BY <1>7, <3>1
    <3>3. ports[q.device] <= ports[d]
      BY <1>9, <2>3, <2>4
    <3>4. ~(ports[q.device] < ports[d])
      BY <2>2, <3>2
    <3>5. ports[q.device] = ports[d] /\ ports[d] # Unplugged /\ d \in Device /\ q.device \in Device
      BY <3>2, <3>3, <3>4 DEF PortsInv, Plugged
    <3>6. q.device = p.device
      BY <2>3, <3>5 DEF PortsInv
    <3>7. q.interface = p.interface
      BY <2>3, <3>1 DEF ConfigurationMatches
    <3>8. q = p
      BY <1>1, <3>6, <3>7, PrinterFields
    <3>9. PICK k : k = place[p]
      OBVIOUS
    <3>10. k \in Nat
      BY <1>1, <1>2, <3>9, PrintersArePlaced DEF Placed
    <3> QED BY <2>4, <3>8, <3>9, <3>10
  <2>5. PICK x \in classified : x.one = p
    BY <1>5, <2>3, <2>4
  <2> QED BY <2>1, <2>3, <2>5
<1>12. {s.one.device : s \in classified} = {s.one : s \in merged}
  BY <1>10, <1>11
<1> QED BY <1>3, <1>12

\* A table that matches no device has nobody to send a job to.
LEMMA UnavailableIsUnreachable ==
  ASSUME PortsInv, NEW t \in Unavailable
  PROVE  RequireUnique(Reachable(t)) = {}
<1>1. t \in UsbTables(tables) /\ t \notin Merged.claimed
  BY DEF Unavailable
<1>2. Reachable(t) = {}
  BY <1>1, MergedShows, Zenon
<1>3. Cardinality({}) = 0
  BY FS_EmptySet
<1> QED BY <1>2, <1>3 DEF RequireUnique

\* What add offers matches no table, and neither does a device like it.
LEMMA OfferedIsNew ==
  ASSUME PortsInv, NEW target \in UsbAddTargets(tables)
  PROVE  /\ \A s \in Classified.shown : s.one # [device |-> target.device, interface |-> target.route.interface]
         /\ (\E d \in Plugged \ {target.device} : IdentityOf[d] = IdentityOf[target.device])
              /\ IdentityOf[target.device].serial = NoSerial => target.ambiguous
<1>1. PICK p \in Unconfigured(tables) :
        \E r \in {route \in Routes(p.device) : route.interface = p.interface} :
          target = [device |-> p.device, route |-> r, ambiguous |-> HasTwin(p, Unconfigured(tables))]
  BY DEF UsbAddTargets
<1>2. PICK r \in {route \in Routes(p.device) : route.interface = p.interface} :
        target = [device |-> p.device, route |-> r, ambiguous |-> HasTwin(p, Unconfigured(tables))]
  BY <1>1
<1>3. p \in PrintersOf(Plugged) /\ \A t \in UsbTables(tables) : ~ConfigurationMatches(p, t)
  BY DEF Unconfigured
<1>4. /\ target.device = p.device /\ target.route.interface = p.interface
      /\ target.ambiguous = HasTwin(p, Unconfigured(tables))
  BY <1>2
<1>5. p = [device |-> target.device, interface |-> target.route.interface]
  BY <1>3, <1>4, PrinterFields
<1>6. \A s \in Classified.shown : s.one # p
  <2>1. PICK printers : printers = PrintersOf(Plugged \ denied)
    OBVIOUS
  <2>2. PICK place : place = UsbLocation(printers)
    OBVIOUS
  <2>3. /\ \A x \in Classified.shown : x.one \in printers
        /\ \A q \in printers :
             (\E x \in Classified.shown : x.one = q)
               <=> \E t \in UsbTables(tables) :
                     /\ ConfigurationMatches(q, t)
                     /\ \A other \in printers : place[other] < place[q] => ~ConfigurationMatches(other, t)
    BY <2>1, <2>2, ClassifiedShows, Zenon
  <2> QED BY <1>3, <2>3
<1>7. ASSUME NEW d \in Plugged \ {target.device}, IdentityOf[d] = IdentityOf[target.device],
             IdentityOf[target.device].serial = NoSerial
      PROVE  target.ambiguous
  <2>1. PICK other : other = [device |-> d, interface |-> p.interface]
    OBVIOUS
  <2>2. other.device = d /\ other.interface = p.interface /\ d # p.device
    BY <1>4, <2>1
  <2>3. Routes(d) = Routes(p.device)
    BY <1>4, <1>7 DEF Routes
  <2>4. other \in PrintersOf(Plugged)
    <3>1. r \in Routes(d) /\ r.interface = p.interface
      BY <1>2, <2>3
    <3> QED BY <2>1, <3>1 DEF PrintersOf
  <2>5. ASSUME NEW t \in UsbTables(tables), ConfigurationMatches(other, t) PROVE ConfigurationMatches(p, t)
    BY <1>4, <1>7, <2>2, <2>3, <2>5 DEF ConfigurationMatches, IdentityMatches
  <2>6. other \in Unconfigured(tables)
    BY <1>3, <2>4, <2>5 DEF Unconfigured
  <2>7. HasTwin(p, Unconfigured(tables))
    BY <1>4, <1>7, <2>2, <2>6 DEF HasTwin
  <2> QED BY <1>4, <2>7
<1> QED BY <1>5, <1>6, <1>7

\* The four ways to match a table with a device agree, for any devices, routes,
\* ports and tables, however they were plugged in and registered.
THEOREM WaysToMatchAgree == UsbSpec => []MatchersAgree
<1>1. UsbInit => UsbInv /\ PortsInv
  BY InitInvariant, PortsInitially
<1>2. UsbInv /\ PortsInv /\ [UsbNext]_usbVars => UsbInv' /\ PortsInv'
  BY NextInvariant, PortsStep
<1>3. UsbInv /\ PortsInv => MatchersAgree
  BY SameDevicesShown, UnavailableIsUnreachable, OfferedIsNew DEF UsbInv, MatchersAgree
<1> QED BY <1>1, <1>2, <1>3, PTL DEF UsbSpec
=============================================================================
