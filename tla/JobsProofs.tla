------------------------------ MODULE JobsProofs -----------------------------
(***************************************************************************)
(* The safety of RAW capture, with or without the idle timeout, and what   *)
(* the jobs page shows and fetches of it, for any finite set of            *)
(* connections and any number of chunks and jobs.                          *)
(***************************************************************************)
EXTENDS JobViewer, FiniteSetTheorems, TLAPS

-----------------------------------------------------------------------------
(* The capture (JobCapture).                                               *)

\* A connection is counted from the moment it begins a capture until it ends
\* it, and holds bytes only while it is counted; what it finalizes completed.
ConnectionInv(t) ==
  /\ t.at \in {"unopened", "beginning", "done"} => ~t.counted
  /\ t.at \in {"rendering", "storing", "failing", "ending"} => t.counted
  /\ t.taken <= t.sent
  /\ t.at \in {"unopened", "reading"} /\ ~t.counted => t.taken = t.sent
  /\ t.at \in {"rendering", "storing", "failing"} => t.job \in Jobs
  /\ t.at \in {"unopened", "beginning", "reading"} => t.job = NoJob
  /\ t.job # NoJob => t.taken = t.sent

PlaceInv == \A c \in Connections : ConnectionInv(connections[c])

\* CaptureTypeOK without the bound of receiving, which rests on StatusTellsTruth.
Types ==
  /\ connections \in [Connections -> ConnectionState]
  /\ completed \in Seq(Job)
  /\ current \in Jobs \cup {NoJob} /\ error \in Jobs \cup {NoJob}
  /\ generation \in Nat /\ jobs_processed \in Nat
  /\ receiving \in Nat
  /\ runtime_status \in JobRuntimeStatus

IInv == Types /\ PlaceInv /\ StatusTellsTruth /\ JobsAreWhole

-----------------------------------------------------------------------------
(* Connections and the jobs that completed.                                *)

LEMMA UnopenedConnection == Unopened \in ConnectionState /\ ConnectionInv(Unopened)
BY DEF Unopened, ConnectionState, ConnectionInv, Places, NoJob

\* One connection changes and keeps its invariant; jobs are never forgotten.
LEMMA ConnectionStep ==
  ASSUME NEW c \in Connections, NEW t \in ConnectionState,
         connections \in [Connections -> ConnectionState], PlaceInv,
         connections' = [connections EXCEPT ![c] = t],
         Jobs \subseteq Jobs', ConnectionInv(t)'
  PROVE  /\ connections' \in [Connections -> ConnectionState]
         /\ PlaceInv'
<1>1. connections' \in [Connections -> ConnectionState]
  OBVIOUS
<1>2. ASSUME NEW d \in Connections PROVE ConnectionInv(connections[d])'
  <2>1. CASE d = c
    BY <2>1, connections'[d] = t DEF ConnectionInv
  <2>2. CASE d # c
    <3>1. connections'[d] = connections[d]
      BY <2>2
    <3>2. ConnectionInv(connections[d])
      BY DEF PlaceInv
    <3> QED BY <3>1, <3>2 DEF ConnectionInv
  <2> QED BY <2>1, <2>2
<1> QED BY <1>1, <1>2 DEF PlaceInv

LEMMA WholeStep ==
  ASSUME NEW c \in Connections, NEW t \in ConnectionState,
         connections \in [Connections -> ConnectionState], JobsAreWhole,
         connections' = [connections EXCEPT ![c] = t],
         t.taken = connections[c].taken, completed' = completed
  PROVE  JobsAreWhole'
<1>1. Jobs' = Jobs
  BY DEF Jobs
<1>2. ASSUME NEW d \in Connections
      PROVE  connections'[d].taken = connections[d].taken /\ JobsOf(d)' = JobsOf(d)
  BY <1>1 DEF JobsOf
<1> QED BY <1>1, <1>2 DEF JobsAreWhole

LEMMA CountedFinite == IsFiniteSet(Counted) /\ Cardinality(Counted) \in Nat
<1>1. Counted \subseteq Connections
  BY DEF Counted
<1> QED BY <1>1, ConnectionsFinite, FS_Subset, FS_CardinalityType

LEMMA CountedStep ==
  ASSUME NEW c \in Connections, NEW t \in ConnectionState,
         connections \in [Connections -> ConnectionState],
         connections' = [connections EXCEPT ![c] = t],
         t.counted = connections[c].counted
  PROVE  Counted' = Counted
BY DEF Counted

\* A step that counts no capture and ends none.
LEMMA QuietStatus ==
  ASSUME StatusTellsTruth, Counted' = Counted,
         UNCHANGED <<generation, receiving, jobs_processed, runtime_status>>
  PROVE  StatusTellsTruth'
BY DEF StatusTellsTruth

-----------------------------------------------------------------------------
(* The steps.                                                              *)

LEMMA FieldTypes ==
  ASSUME NEW c \in Connections, IInv
  PROVE  /\ connections \in [Connections -> ConnectionState]
         /\ connections[c] \in ConnectionState
         /\ ConnectionInv(connections[c])
BY DEF IInv, Types, PlaceInv

\* A task moves on without touching the store, the count or the cut.
LEMMA QuietStep ==
  ASSUME NEW c \in Connections, NEW t \in ConnectionState, IInv,
         connections' = [connections EXCEPT ![c] = t],
         t.counted = connections[c].counted, t.taken = connections[c].taken,
         ConnectionInv(t),
         UNCHANGED <<store, completed>>
  PROVE  IInv'
<1>1. Jobs' = Jobs /\ ConnectionInv(t)'
  BY DEF Jobs, ConnectionInv
<1>2. connections' \in [Connections -> ConnectionState] /\ PlaceInv'
  BY <1>1, ConnectionStep, FieldTypes DEF IInv
<1>3. Types'
  BY <1>1, <1>2 DEF IInv, Types, store
<1>4. Counted' = Counted
  BY CountedStep, FieldTypes
<1>5. StatusTellsTruth'
  BY <1>4, QuietStatus DEF IInv, store
<1>6. JobsAreWhole'
  BY WholeStep, FieldTypes DEF IInv
<1> QED BY <1>2, <1>3, <1>5, <1>6 DEF IInv

LEMMA AcceptStep == ASSUME IInv, NEW c \in Connections, Accept(c) PROVE IInv'
<1>1. connections[c] \in ConnectionState /\ ConnectionInv(connections[c])
  BY FieldTypes
<1>2. PICK t \in ConnectionState : t = [connections[c] EXCEPT !.at = "reading"]
  BY <1>1 DEF ConnectionState, Places
<1>same. t.counted = connections[c].counted /\ t.taken = connections[c].taken
  BY <1>1, <1>2 DEF ConnectionState
<1>3. connections' = [connections EXCEPT ![c] = t]
  BY <1>2 DEF Accept, MovedTo
<1>4. ConnectionInv(t)
  BY <1>1, <1>2 DEF Accept, ConnectionInv, ConnectionState
<1>5. UNCHANGED <<store, completed>>
  BY DEF Accept
<1> QED BY <1>same, <1>3, <1>4, <1>5, QuietStep

LEMMA ReadChunkStep == ASSUME IInv, NEW c \in Connections, ReadChunk(c) PROVE IInv'
<1>1. connections[c] \in ConnectionState /\ ConnectionInv(connections[c])
  BY FieldTypes
<1> DEFINE place == IF FirstChunk(c) THEN "beginning" ELSE "reading"
           sent == connections[c].sent + 1
<1>place. place \in Places /\ sent \in Nat
  BY <1>1 DEF Places, ConnectionState
<1> HIDE DEF place, sent
<1>2. PICK t \in ConnectionState : t = [connections[c] EXCEPT !.sent = sent, !.at = place]
  BY <1>1, <1>place DEF ConnectionState
<1>same. t.counted = connections[c].counted /\ t.taken = connections[c].taken
  BY <1>1, <1>2 DEF ConnectionState
<1>3. connections' = [connections EXCEPT ![c] = t]
  BY <1>2 DEF ReadChunk, place, sent
<1>4. ConnectionInv(t)
  BY <1>1, <1>2 DEF ReadChunk, FirstChunk, place, sent, ConnectionInv, ConnectionState
<1>5. UNCHANGED <<store, completed>>
  BY DEF ReadChunk, FirstChunk
<1> QED BY <1>same, <1>3, <1>4, <1>5, QuietStep

LEMMA ReadErrorStep == ASSUME IInv, NEW c \in Connections, ReadError(c) PROVE IInv'
<1>1. connections[c] \in ConnectionState /\ ConnectionInv(connections[c])
  BY FieldTypes
<1>2. PICK t \in ConnectionState : t = [connections[c] EXCEPT !.at = IF connections[c].counted THEN "ending" ELSE "done"]
  BY <1>1 DEF ConnectionState, Places
<1>same. t.counted = connections[c].counted /\ t.taken = connections[c].taken
  BY <1>1, <1>2 DEF ConnectionState
<1>3. connections' = [connections EXCEPT ![c] = t]
  BY <1>2 DEF ReadError, MovedTo
<1>4. ConnectionInv(t)
  BY <1>1, <1>2 DEF ReadError, ConnectionInv, ConnectionState
<1>5. UNCHANGED <<store, completed>>
  BY DEF ReadError
<1> QED BY <1>same, <1>3, <1>4, <1>5, QuietStep

LEMMA RenderEndsStep == ASSUME IInv, NEW c \in Connections, RenderEnds(c) PROVE IInv'
<1>1. PICK outcome \in Outcomes : connections' = MovedTo(c, outcome)
  BY DEF RenderEnds
<1>2. connections[c] \in ConnectionState /\ ConnectionInv(connections[c])
  BY FieldTypes
<1>3. PICK t \in ConnectionState : t = [connections[c] EXCEPT !.at = outcome]
  BY <1>2 DEF ConnectionState, Places, Outcomes
<1>same. t.counted = connections[c].counted /\ t.taken = connections[c].taken
  BY <1>2, <1>3 DEF ConnectionState
<1>4. connections' = [connections EXCEPT ![c] = t]
  BY <1>1, <1>3 DEF MovedTo
<1>5. ConnectionInv(t)
  BY <1>2, <1>3 DEF RenderEnds, Outcomes, ConnectionInv, ConnectionState
<1>6. UNCHANGED <<store, completed>>
  BY DEF RenderEnds
<1> QED BY <1>same, <1>4, <1>5, <1>6, QuietStep

LEMMA StoreErrorStep == ASSUME IInv, NEW c \in Connections, StoreError(c) PROVE IInv'
<1>1. connections[c] \in ConnectionState /\ ConnectionInv(connections[c])
  BY FieldTypes
<1>2. PICK t \in ConnectionState : t = [connections[c] EXCEPT !.at = "ending"]
  BY <1>1 DEF ConnectionState, Places
<1>same. t.counted = connections[c].counted /\ t.taken = connections[c].taken
  BY <1>1, <1>2 DEF ConnectionState
<1>3. connections' = [connections EXCEPT ![c] = t]
  BY <1>2 DEF StoreError, MovedTo
<1>4. Jobs' = Jobs /\ ConnectionInv(t)'
  BY <1>1, <1>2 DEF StoreError, ConnectionInv, ConnectionState, Jobs
<1>5. connections[c].job \in Jobs
  BY <1>1 DEF StoreError, ConnectionInv
<1>6. connections' \in [Connections -> ConnectionState] /\ PlaceInv'
  BY <1>same, <1>3, <1>4, ConnectionStep, FieldTypes DEF IInv
<1>7. Types'
  BY <1>4, <1>5, <1>6 DEF IInv, Types, StoreError
<1>8. StatusTellsTruth'
  <2>1. Counted' = Counted
    BY <1>same, <1>3, CountedStep, FieldTypes
  <2> QED BY <2>1, QuietStatus DEF IInv, StoreError
<1>9. JobsAreWhole'
  BY <1>same, <1>3, WholeStep, FieldTypes DEF IInv, StoreError
<1> QED BY <1>6, <1>7, <1>8, <1>9 DEF IInv

LEMMA StoreJobStep == ASSUME IInv, NEW c \in Connections, StoreJob(c) PROVE IInv'
<1>1. connections[c] \in ConnectionState /\ ConnectionInv(connections[c])
  BY FieldTypes
<1>2. PICK t \in ConnectionState : t = [connections[c] EXCEPT !.at = "ending"]
  BY <1>1 DEF ConnectionState, Places
<1>same. t.counted = connections[c].counted /\ t.taken = connections[c].taken
  BY <1>1, <1>2 DEF ConnectionState
<1>3. connections' = [connections EXCEPT ![c] = t]
  BY <1>2 DEF StoreJob, MovedTo
<1>4. Jobs' = Jobs /\ ConnectionInv(t)'
  BY <1>1, <1>2 DEF StoreJob, ConnectionInv, ConnectionState, Jobs
<1>5. connections[c].job \in Jobs
  BY <1>1 DEF StoreJob, ConnectionInv
<1>6. connections' \in [Connections -> ConnectionState] /\ PlaceInv'
  BY <1>same, <1>3, <1>4, ConnectionStep, FieldTypes DEF IInv
<1>7. Types'
  BY <1>4, <1>5, <1>6 DEF IInv, Types, StoreJob, PublishRuntimeStatus, JobRuntimeStatus
<1>8. StatusTellsTruth'
  <2>1. Counted' = Counted
    BY <1>same, <1>3, CountedStep, FieldTypes
  <2>2. receiving > 0 <=> Counted # {}
    BY CountedFinite, FS_EmptySet DEF IInv, StatusTellsTruth
  <2>3. generation = jobs_processed
    BY DEF IInv, StatusTellsTruth
  <2> QED BY <2>1, <2>2, <2>3 DEF IInv, StoreJob, StatusTellsTruth, PublishRuntimeStatus
<1>9. JobsAreWhole'
  BY <1>same, <1>3, WholeStep, FieldTypes DEF IInv, StoreJob
<1> QED BY <1>6, <1>7, <1>8, <1>9 DEF IInv

\* The count follows the set of counted connections.
LEMMA BeginCaptureStep == ASSUME IInv, NEW c \in Connections, BeginCapture(c) PROVE IInv'
<1>1. connections[c] \in ConnectionState /\ ConnectionInv(connections[c])
  BY FieldTypes
<1>2. PICK t \in ConnectionState : t = [connections[c] EXCEPT !.at = "reading", !.counted = TRUE]
  BY <1>1 DEF ConnectionState, Places
<1>same. t.counted = TRUE /\ t.taken = connections[c].taken
  BY <1>1, <1>2 DEF ConnectionState
<1>3. connections' = [connections EXCEPT ![c] = t]
  BY <1>2 DEF BeginCapture
<1>4. Jobs' = Jobs /\ ConnectionInv(t)'
  BY <1>1, <1>2 DEF BeginCapture, ConnectionInv, ConnectionState, Jobs
<1>5. ~connections[c].counted
  BY <1>1 DEF BeginCapture, ConnectionInv
<1>6. connections' \in [Connections -> ConnectionState] /\ PlaceInv'
  BY <1>same, <1>3, <1>4, ConnectionStep, FieldTypes DEF IInv
<1>7. Types'
  BY <1>4, <1>6 DEF IInv, Types, BeginCapture, PublishRuntimeStatus, JobRuntimeStatus
<1>8. StatusTellsTruth'
  <2>1. Counted' = Counted \cup {c} /\ c \notin Counted
    BY <1>same, <1>3, <1>5, FieldTypes DEF Counted
  <2>2. Cardinality(Counted') = Cardinality(Counted) + 1
    BY <2>1, CountedFinite, FS_AddElement
  <2> QED BY <2>1, <2>2, CountedFinite
          DEF IInv, BeginCapture, StatusTellsTruth, PublishRuntimeStatus
<1>9. JobsAreWhole'
  BY <1>same, <1>3, WholeStep, FieldTypes DEF IInv, BeginCapture
<1> QED BY <1>6, <1>7, <1>8, <1>9 DEF IInv

LEMMA EndCaptureStep == ASSUME IInv, NEW c \in Connections, EndCapture(c) PROVE IInv'
<1> DEFINE place == IF TimedOut(c) THEN "reading" ELSE "done"
<1>1. connections[c] \in ConnectionState /\ ConnectionInv(connections[c])
  BY FieldTypes
<1>2. PICK t \in ConnectionState : t = [connections[c] EXCEPT !.at = place, !.counted = FALSE, !.job = NoJob]
  BY <1>1 DEF ConnectionState, Places, NoJob, TimedOut
<1>same. t.counted = FALSE /\ t.taken = connections[c].taken
  BY <1>1, <1>2 DEF ConnectionState
<1>3. connections' = [connections EXCEPT ![c] = t]
  BY <1>2 DEF EndCapture, NotCounted
<1>4. Jobs' = Jobs
  BY DEF EndCapture, Jobs
<1>5. connections[c].counted /\ ConnectionInv(t)'
  BY <1>1, <1>2, <1>4 DEF EndCapture, TimedOut, ConnectionInv, ConnectionState, NoJob, Jobs
<1>6. connections' \in [Connections -> ConnectionState] /\ PlaceInv'
  BY <1>same, <1>3, <1>4, <1>5, ConnectionStep, FieldTypes DEF IInv
<1>7. StatusTellsTruth' /\ receiving' \in Nat
  <2>1. Counted' = Counted \ {c} /\ c \in Counted
    BY <1>same, <1>3, <1>5, FieldTypes DEF Counted
  <2>2. Cardinality(Counted') = Cardinality(Counted) - 1 /\ Cardinality(Counted') \in Nat
    BY <2>1, CountedFinite, FS_RemoveElement, FS_CardinalityType
  <2>3. IsFiniteSet(Counted')
    BY <2>1, CountedFinite, FS_RemoveElement
  <2>4. receiving' = Cardinality(Counted')
    BY <2>2, <1>5, CountedFinite DEF IInv, EndCapture, StatusTellsTruth, OneLess
  <2>5. receiving' > 0 <=> Counted' # {}
    BY <2>2, <2>3, <2>4, FS_EmptySet
  <2> QED BY <2>2, <2>4, <2>5 DEF IInv, EndCapture, StatusTellsTruth, PublishRuntimeStatus
<1>8. Types'
  BY <1>4, <1>6, <1>7 DEF IInv, Types, EndCapture, PublishRuntimeStatus, JobRuntimeStatus
<1>9. JobsAreWhole'
  BY <1>same, <1>3, WholeStep, FieldTypes DEF IInv, EndCapture
<1> QED BY <1>6, <1>7, <1>8, <1>9 DEF IInv

-----------------------------------------------------------------------------
(* The cut of a connection's stream into jobs.                             *)

LEMMA Cut ==
  ASSUME IInv, NEW c \in Connections, NEW completion, Finalize(c, completion),
         completion \in {"closed", "timeout"}
  PROVE  LET n == Len(completed) + 1 IN
         /\ completed' \in Seq(Job)
         /\ n \notin Jobs /\ Jobs' = Jobs \cup {n}
         /\ \A i \in Jobs : i < n /\ completed'[i] = completed[i]
         /\ completed'[n].connection = c
         /\ completed'[n].from = connections[c].taken
         /\ completed'[n].to = connections[c].sent
         /\ JobsOf(c)' = JobsOf(c) \cup {n}
         /\ \A d \in Connections \ {c} : JobsOf(d)' = JobsOf(d)
<1> DEFINE n == Len(completed) + 1
           job == [connection |-> c, from |-> connections[c].taken,
                   to |-> connections[c].sent, completion |-> completion]
<1>1. job \in Job
  BY FieldTypes DEF Job, ConnectionState
<1>2. completed \in Seq(Job) /\ completed' = Append(completed, job)
  BY DEF IInv, Types, Finalize
<1>3. /\ job.connection = c
      /\ job.from = connections[c].taken
      /\ job.to = connections[c].sent
  OBVIOUS
<1> HIDE DEF job
<1>4. /\ completed' \in Seq(Job)
      /\ Len(completed) \in Nat /\ Len(completed') = n
      /\ \A i \in 1..Len(completed) : completed'[i] = completed[i]
      /\ completed'[n] = job
  BY <1>1, <1>2
<1>5. n \notin Jobs /\ Jobs' = Jobs \cup {n} /\ \A i \in Jobs : i < n /\ completed'[i] = completed[i]
  BY <1>4 DEF Jobs
<1> HIDE DEF n
<1>6. JobsOf(c)' = JobsOf(c) \cup {n} /\ \A d \in Connections \ {c} : JobsOf(d)' = JobsOf(d)
  BY <1>3, <1>4, <1>5 DEF JobsOf
<1> QED BY <1>3, <1>4, <1>5, <1>6 DEF n

LEMMA FinalizeWhole ==
  ASSUME IInv, NEW c \in Connections, NEW completion, Finalize(c, completion),
         completion \in {"closed", "timeout"}, ~BufferEmpty(c)
  PROVE  JobsAreWhole'
<1> DEFINE n == Len(completed) + 1
<1>1. /\ n \notin Jobs /\ Jobs' = Jobs \cup {n}
      /\ \A i \in Jobs : i < n /\ completed'[i] = completed[i]
      /\ completed'[n].from = connections[c].taken
      /\ completed'[n].to = connections[c].sent
      /\ JobsOf(c)' = JobsOf(c) \cup {n}
      /\ \A d \in Connections \ {c} : JobsOf(d)' = JobsOf(d)
  BY Cut
<1>2. /\ n \in Nat /\ Jobs \subseteq Nat
      /\ \A i \in Jobs : completed[i].from \in Nat /\ completed[i].to \in Nat
      /\ \A d \in Connections : JobsOf(d) \subseteq Jobs
  <2>1. completed \in Seq(Job) /\ n \in Nat
    BY DEF IInv, Types
  <2>2. \A i \in Jobs : completed[i] \in Job
    BY <2>1 DEF Jobs
  <2> QED BY <2>1, <2>2 DEF Jobs, JobsOf, Job
<1>3. /\ connections[c].taken \in Nat /\ connections[c].sent \in Nat
      /\ connections[c].taken < connections[c].sent
  BY FieldTypes DEF ConnectionInv, ConnectionState, BufferEmpty
<1>4. /\ connections'[c].taken = connections[c].sent
      /\ \A d \in Connections \ {c} : connections'[d] = connections[d]
  BY FieldTypes DEF Finalize, BufferTaken, ConnectionState
<1> HIDE DEF n
<1> SUFFICES ASSUME NEW d \in Connections
             PROVE  /\ \A j \in JobsOf(d)' :
                         /\ completed'[j].from < completed'[j].to
                         /\ \A i \in JobsOf(d)' : i < j => completed'[i].to <= completed'[j].from
                         /\ \/ \E i \in JobsOf(d)' : i < j /\ completed'[i].to = completed'[j].from
                            \/ completed'[j].from = 0 /\ \A i \in JobsOf(d)' : j <= i
                    /\ \/ JobsOf(d)' = {} /\ connections'[d].taken = 0
                       \/ \E last \in JobsOf(d)' :
                            /\ connections'[d].taken = completed'[last].to
                            /\ \A i \in JobsOf(d)' : i <= last
  BY DEF JobsAreWhole
<1>5. CASE d # c
  <2>1. JobsOf(d)' = JobsOf(d) /\ connections'[d] = connections[d]
    BY <1>1, <1>4, <1>5
  <2>2. \A i \in JobsOf(d) : completed'[i] = completed[i]
    BY <1>1, <1>2
  <2> QED BY <2>1, <2>2 DEF IInv, JobsAreWhole
<1>6. CASE d = c
  <2>1. /\ \A i \in JobsOf(c) : i \in Nat /\ i < n /\ completed'[i] = completed[i]
        /\ \A i \in JobsOf(c) : completed[i].from \in Nat /\ completed[i].to \in Nat
    BY <1>1, <1>2
  <2>2. /\ \A j \in JobsOf(c) :
             /\ completed[j].from < completed[j].to
             /\ \A i \in JobsOf(c) : i < j => completed[i].to <= completed[j].from
             /\ \/ \E i \in JobsOf(c) : i < j /\ completed[i].to = completed[j].from
                \/ completed[j].from = 0 /\ \A i \in JobsOf(c) : j <= i
        /\ \/ JobsOf(c) = {} /\ connections[c].taken = 0
           \/ \E last \in JobsOf(c) :
                /\ connections[c].taken = completed[last].to
                /\ \A i \in JobsOf(c) : i <= last
    BY DEF IInv, JobsAreWhole
  <2>3. \A i \in JobsOf(c) : completed[i].to <= connections[c].taken
    <3> SUFFICES ASSUME NEW i \in JobsOf(c), NEW last \in JobsOf(c),
                        connections[c].taken = completed[last].to, i <= last
                 PROVE  completed[i].to <= connections[c].taken
      BY <2>2
    <3>1. CASE i = last
      BY <3>1, <2>1
    <3>2. CASE i < last
      BY <3>2, <2>1, <2>2
    <3> QED BY <3>1, <3>2, <2>1
  <2>4. ASSUME NEW j \in JobsOf(c)
        PROVE  /\ completed'[j].from < completed'[j].to
               /\ \A i \in JobsOf(c)' : i < j => completed'[i].to <= completed'[j].from
               /\ \/ \E i \in JobsOf(c)' : i < j /\ completed'[i].to = completed'[j].from
                  \/ completed'[j].from = 0 /\ \A i \in JobsOf(c)' : j <= i
    BY <1>1, <1>2, <2>1, <2>2
  <2>5. /\ completed'[n].from < completed'[n].to
        /\ \A i \in JobsOf(c)' : i < n => completed'[i].to <= completed'[n].from
    BY <1>1, <1>2, <1>3, <2>1, <2>3
  <2>6. \/ \E i \in JobsOf(c)' : i < n /\ completed'[i].to = completed'[n].from
        \/ completed'[n].from = 0 /\ \A i \in JobsOf(c)' : n <= i
    BY <1>1, <1>2, <2>1, <2>2
  <2>7. \E last \in JobsOf(c)' : /\ connections'[c].taken = completed'[last].to
                                 /\ \A i \in JobsOf(c)' : i <= last
    BY <1>1, <1>2, <1>4, <2>1
  <2> QED BY <1>1, <1>6, <2>4, <2>5, <2>6, <2>7
<1> QED BY <1>5, <1>6

LEMMA FinalizeStep ==
  ASSUME IInv, NEW c \in Connections, NEW completion, Finalize(c, completion),
         completion \in {"closed", "timeout"}, ~BufferEmpty(c),
         connections[c].at = "reading"
  PROVE  IInv'
<1> DEFINE n == Len(completed) + 1
<1>1. connections[c] \in ConnectionState /\ ConnectionInv(connections[c])
  BY FieldTypes
<1>2. completed' \in Seq(Job) /\ Jobs' = Jobs \cup {n} /\ n \in Nat \ {NoJob}
  BY Cut DEF IInv, Types, NoJob
<1> HIDE DEF n
<1>3. PICK t \in ConnectionState : t = [connections[c] EXCEPT !.at = "rendering",
                                       !.taken = connections[c].sent, !.job = n]
  BY <1>1, <1>2 DEF ConnectionState, Places
<1>4. connections' = [connections EXCEPT ![c] = t]
  BY <1>3 DEF Finalize, BufferTaken, n
<1>5. t.counted = connections[c].counted /\ t.counted = TRUE
  BY <1>1, <1>3 DEF ConnectionState, ConnectionInv, BufferEmpty
<1>6. ConnectionInv(t)'
  BY <1>1, <1>2, <1>3, <1>5 DEF ConnectionState, ConnectionInv
<1>7. connections' \in [Connections -> ConnectionState] /\ PlaceInv'
  BY <1>2, <1>4, <1>6, ConnectionStep, FieldTypes DEF IInv
<1>8. Types'
  BY <1>2, <1>7 DEF IInv, Types, Finalize, store
<1>9. StatusTellsTruth'
  <2>1. Counted' = Counted
    BY <1>4, <1>5, CountedStep, FieldTypes
  <2> QED BY <2>1, QuietStatus DEF IInv, Finalize, store
<1> QED BY <1>7, <1>8, <1>9, FinalizeWhole DEF IInv

LEMMA EndOfStreamStep == ASSUME IInv, NEW c \in Connections, EndOfStream(c) PROVE IInv'
<1>1. CASE ~BufferEmpty(c) /\ Finalize(c, "closed")
  BY <1>1, FinalizeStep DEF EndOfStream
<1>2. CASE /\ BufferEmpty(c)
           /\ connections' = MovedTo(c, IF connections[c].counted THEN "ending" ELSE "done")
           /\ UNCHANGED <<store, completed>>
  <2>1. ReadError(c)
    BY <1>2 DEF EndOfStream, ReadError
  <2> QED BY <2>1, ReadErrorStep
<1> QED BY <1>1, <1>2 DEF EndOfStream

-----------------------------------------------------------------------------
(* The theorems.                                                           *)

LEMMA InitInvariant == CaptureInit => IInv
<1> SUFFICES ASSUME CaptureInit PROVE IInv
  OBVIOUS
<1>1. Jobs = {} /\ completed \in Seq(Job)
  BY DEF CaptureInit, Jobs
<1>2. Types
  BY <1>1, UnopenedConnection DEF CaptureInit, Types, JobRuntimeStatus
<1>3. PlaceInv
  BY UnopenedConnection DEF CaptureInit, PlaceInv
<1>4. StatusTellsTruth
  <2>1. Counted = {}
    BY DEF CaptureInit, Counted, Unopened
  <2> QED BY <2>1, FS_EmptySet DEF CaptureInit, StatusTellsTruth
<1>5. JobsAreWhole
  BY <1>1 DEF CaptureInit, JobsAreWhole, JobsOf, Unopened
<1> QED BY <1>2, <1>3, <1>4, <1>5 DEF IInv

LEMMA StepInvariant == IInv /\ [CaptureNext]_captureVars => IInv'
<1> SUFFICES ASSUME IInv, [CaptureNext]_captureVars PROVE IInv'
  OBVIOUS
<1>1. CASE UNCHANGED captureVars
  <2>1. UNCHANGED <<connections, current, error, generation, receiving, jobs_processed,
                    runtime_status, completed>>
    BY <1>1 DEF captureVars, store
  <2> QED BY <2>1 DEF IInv, Types, PlaceInv, ConnectionInv, StatusTellsTruth, Counted,
                      JobsAreWhole, JobsOf, Jobs
<1>2. ASSUME NEW c \in Connections, TaskStep(c) PROVE IInv'
  BY <1>2, BeginCaptureStep, RenderEndsStep, StoreJobStep, StoreErrorStep, EndCaptureStep
     DEF TaskStep
<1>3. ASSUME NEW c \in Connections, IdleElapsed(c) PROVE IInv'
  BY <1>3, FinalizeStep DEF IdleElapsed
<1>4. ASSUME NEW c \in Connections, ClientStep(c) PROVE IInv'
  BY <1>4, AcceptStep, ReadChunkStep, EndOfStreamStep, ReadErrorStep DEF ClientStep
<1> QED BY <1>1, <1>2, <1>3, <1>4 DEF CaptureNext

LEMMA Invariant == CaptureSpec => []IInv
BY InitInvariant, StepInvariant, PTL DEF CaptureSpec

\* The virtual printer's status counts exactly the captures begun and not
\* ended, whichever way each of them went, for any number of connections.
THEOREM StatusIsExact == CaptureSpec => []StatusTellsTruth
<1>1. IInv => StatusTellsTruth
  BY DEF IInv
<1> QED BY <1>1, Invariant, PTL

\* However the idle timeout cuts the streams, and however many chunks come, a
\* connection's jobs and its buffer partition what it sent up to any cut.
THEOREM BytesAreKept == CaptureSpec => []JobsAreWhole
<1>1. IInv => JobsAreWhole
  BY DEF IInv
<1> QED BY <1>1, Invariant, PTL

\* The variables have their types, and never more captures are counted than
\* there are connections.
THEOREM CaptureTypeCorrect == CaptureSpec => []CaptureTypeOK
<1>1. IInv => CaptureTypeOK
  <2> SUFFICES ASSUME IInv PROVE CaptureTypeOK
    OBVIOUS
  <2>1. Counted \subseteq Connections
    BY DEF Counted
  <2>2. Cardinality(Counted) <= Cardinality(Connections) /\ Cardinality(Connections) \in Nat
    BY <2>1, ConnectionsFinite, FS_Subset, FS_CardinalityType
  <2>3. receiving \in 0..Cardinality(Connections)
    BY <2>2, CountedFinite DEF IInv, StatusTellsTruth
  <2> QED BY <2>3 DEF IInv, Types, CaptureTypeOK
<1> QED BY <1>1, Invariant, PTL

-----------------------------------------------------------------------------
(* The page (JobViewer).                                                   *)

\* The store has a job once it has counted one.
StoredInv == current = NoJob <=> generation = 0

\* An id names one job: nothing refers to a later id than the store's, and
\* what refers to the store's id stands for the store's job.
NamesJob(id, job) ==
  /\ id <= generation
  /\ id = generation /\ id # 0 => job = current

ViewerTypes ==
  /\ page \in [polling : BOOLEAN, data : CurrentJobResponse]
  /\ answers \subseteq CurrentJobResponse
  /\ fetch \in Fetch

NamesInv ==
  /\ NamesJob(page.data.document.id, page.data.document.job)
  /\ \A next \in answers : NamesJob(next.document.id, next.document.job)
  /\ NamesJob(fetch.id, fetch.expected)

\* One poll at a time, whose answer is no older than what the page shows.
PollInv ==
  /\ ~page.polling => answers = {}
  /\ \A a, b \in answers : a = b
  /\ \A next \in answers : page.data.document.id <= next.document.id

VInv ==
  /\ IInv /\ StoredInv
  /\ ViewerTypes /\ NamesInv /\ PollInv
  /\ ResourcesMatchDocument

-----------------------------------------------------------------------------
LEMMA EmptyValues ==
  /\ NoDocument \in Document /\ NoDocument.id = 0
  /\ NoData \in CurrentJobResponse /\ NoData.document = NoDocument
  /\ NoFetch \in Fetch /\ NoFetch.id = 0 /\ NoFetch.got = NotFound
BY DEF NoDocument, Document, NoData, CurrentJobResponse, NoFetch, Fetch, NoJob, NotFound

\* What GET /api/jobs/current answers.
LEMMA Response ==
  ASSUME IInv, StoredInv
  PROVE  /\ CurrentResponse \in CurrentJobResponse
         /\ CurrentResponse.document.id = generation
         /\ NamesJob(CurrentResponse.document.id, CurrentResponse.document.job)
<1>1. generation \in Nat /\ current \in Nat /\ error \in Nat
  BY DEF IInv, Types, Jobs, NoJob
<1>2. CASE current = NoJob
  BY <1>1, <1>2, EmptyValues
     DEF CurrentResponse, CurrentJobResponse, StoredInv, NamesJob
<1>3. CASE current # NoJob
  <2>1. PICK document \in Document :
          document = [id |-> generation, job |-> current, input |-> receiving = 0]
    <3> DEFINE input == receiving = 0
    <3>1. input \in BOOLEAN
      OBVIOUS
    <3> HIDE DEF input
    <3>2. [id |-> generation, job |-> current, input |-> input] \in Document
      BY <1>1, <3>1 DEF Document
    <3> QED BY <3>2 DEF input
  <2>2. document.id = generation /\ document.job = current
    BY <2>1
  <2>3. CurrentResponse = [receiving |-> receiving > 0, error |-> error, document |-> document]
    BY <1>3, <2>1 DEF CurrentResponse
  <2> QED BY <1>1, <2>2, <2>3 DEF CurrentJobResponse, NamesJob
<1> QED BY <1>2, <1>3

\* A capture step stores nothing, or a job under an id never used before.
LEMMA CaptureGrows ==
  ASSUME IInv, StoredInv, CaptureNext
  PROVE  /\ generation \in Nat /\ generation' \in Nat
         /\ StoredInv'
         /\ \/ UNCHANGED <<generation, current>>
            \/ generation' = generation + 1
<1>1. generation \in Nat /\ IInv'
  BY StepInvariant DEF IInv, Types
<1>2. PICK c \in Connections : TaskStep(c) \/ IdleElapsed(c) \/ ClientStep(c)
  BY DEF CaptureNext
<1>3. CASE StoreJob(c)
  <2>1. connections[c].job \in Jobs
    BY <1>3, FieldTypes DEF StoreJob, ConnectionInv
  <2>2. current' # NoJob
    BY <1>3, <2>1 DEF StoreJob, Jobs, NoJob
  <2> QED BY <1>1, <1>3, <2>2 DEF StoreJob, StoredInv
<1>4. CASE ~StoreJob(c)
  <2>1. UNCHANGED <<generation, current>>
    BY <1>2, <1>4
       DEF TaskStep, ClientStep, BeginCapture, RenderEnds, StoreError, EndCapture,
           IdleElapsed, Finalize, Accept, ReadChunk, EndOfStream, ReadError, store
  <2> QED BY <1>1, <2>1 DEF StoredInv
<1> QED BY <1>3, <1>4

LEMMA NamesLast ==
  ASSUME NEW id \in Nat, NEW job, NamesJob(id, job), generation \in Nat,
         \/ UNCHANGED <<generation, current>>
         \/ generation' = generation + 1
  PROVE  NamesJob(id, job)'
BY DEF NamesJob

-----------------------------------------------------------------------------
(* The steps.                                                              *)

LEMMA PageFacts ==
  ASSUME VInv
  PROVE  /\ page.polling \in BOOLEAN /\ page.data \in CurrentJobResponse
         /\ page.data.document \in Document /\ page.data.document.id \in Nat
         /\ \A next \in answers : /\ next \in CurrentJobResponse
                                  /\ next.document \in Document
                                  /\ next.document.id \in Nat
         /\ fetch \in Fetch /\ fetch.id \in Nat
BY DEF VInv, ViewerTypes, CurrentJobResponse, Document, Fetch

\* A step of the page leaves the store alone.
LEMMA StoreKept ==
  ASSUME VInv, UNCHANGED captureVars
  PROVE  /\ IInv' /\ StoredInv' /\ UNCHANGED <<generation, current>>
         /\ \A id, job : NamesJob(id, job)' <=> NamesJob(id, job)
<1>1. IInv'
  BY StepInvariant DEF VInv
<1>2. UNCHANGED <<generation, current>>
  BY DEF captureVars, store
<1> QED BY <1>1, <1>2 DEF VInv, StoredInv, NamesJob

LEMMA CaptureViewerStep == ASSUME VInv, CaptureNext, UNCHANGED pageVars PROVE VInv'
<1>1. UNCHANGED <<page, answers, fetch>>
  BY DEF pageVars
<1>2. IInv' /\ StoredInv'
  BY StepInvariant, CaptureGrows DEF VInv
<1>3. NamesInv'
  <2>1. \A id \in Nat : \A job : NamesJob(id, job) => NamesJob(id, job)'
    BY CaptureGrows, NamesLast DEF VInv
  <2> QED BY <1>1, <2>1, PageFacts DEF VInv, NamesInv
<1> QED BY <1>1, <1>2, <1>3 DEF VInv, ViewerTypes, PollInv, ResourcesMatchDocument

LEMMA PollStep == ASSUME VInv, Poll PROVE VInv'
<1>1. /\ answers = {} /\ answers' = {CurrentResponse}
      /\ page' = [page EXCEPT !.polling = TRUE] /\ UNCHANGED fetch
  BY DEF Poll, PollSettled, VInv, PollInv
<1>2. /\ CurrentResponse \in CurrentJobResponse
      /\ CurrentResponse.document.id = generation
      /\ NamesJob(CurrentResponse.document.id, CurrentResponse.document.job)
  BY Response DEF VInv
<1>3. /\ page'.polling = TRUE /\ page'.data = page.data
      /\ page' \in [polling : BOOLEAN, data : CurrentJobResponse]
  BY <1>1 DEF VInv, ViewerTypes
<1>4. /\ IInv' /\ StoredInv'
      /\ \A id, job : NamesJob(id, job)' <=> NamesJob(id, job)
  BY StoreKept DEF Poll
<1>5. PICK answer \in CurrentJobResponse : answer = CurrentResponse
  BY <1>2
<1>6. ViewerTypes'
  BY <1>1, <1>3, <1>5 DEF VInv, ViewerTypes
<1>7. NamesInv'
  BY <1>1, <1>2, <1>3, <1>4, <1>5 DEF VInv, NamesInv
<1>8. PollInv'
  <2>1. page.data.document.id <= answer.document.id
    BY <1>2, <1>5 DEF VInv, NamesInv, NamesJob
  <2> QED BY <1>1, <1>3, <1>5, <2>1 DEF PollInv
<1> QED BY <1>1, <1>4, <1>6, <1>7, <1>8 DEF VInv, ResourcesMatchDocument

\* What the page shows after an answer: the document it had or the answer's.
LEMMA Merge ==
  ASSUME VInv, NEW next \in answers, NEW shown,
         shown = IF SameJob(next) THEN [next EXCEPT !.document = page.data.document] ELSE next
  PROVE  /\ shown \in CurrentJobResponse
         /\ page.data.document.id <= shown.document.id
         /\ shown.document \in {page.data.document, next.document}
<1>1. /\ next \in CurrentJobResponse /\ page.data.document \in Document
      /\ page.data.document.id \in Nat
      /\ page.data.document.id <= next.document.id
  BY PageFacts DEF VInv, PollInv
<1>2. CASE SameJob(next)
  BY <1>1, <1>2 DEF CurrentJobResponse
<1>3. CASE ~SameJob(next)
  BY <1>1, <1>3
<1> QED BY <1>2, <1>3

LEMMA ShowAnswerStep == ASSUME VInv, ShowAnswer PROVE VInv'
<1>1. PICK next \in answers :
        /\ page' = [polling |-> FALSE,
                    data |-> IF SameJob(next) THEN [next EXCEPT !.document = page.data.document]
                                              ELSE next]
        /\ answers' = answers \ {next}
        /\ UNCHANGED <<captureVars, fetch>>
  BY DEF ShowAnswer
<1>2. /\ answers' = {} /\ UNCHANGED fetch
      /\ page'.polling = FALSE
      /\ page' = [polling |-> FALSE, data |-> page'.data]
      /\ page'.data \in CurrentJobResponse
      /\ page'.data.document \in {page.data.document, next.document}
  BY <1>1, Merge DEF VInv, PollInv
<1>3. /\ IInv' /\ StoredInv'
      /\ \A id, job : NamesJob(id, job)' <=> NamesJob(id, job)
  BY <1>1, StoreKept
<1>4. ViewerTypes'
  BY <1>2 DEF VInv, ViewerTypes
<1>5. NamesInv'
  BY <1>2, <1>3 DEF VInv, NamesInv
<1> QED BY <1>2, <1>3, <1>4, <1>5 DEF VInv, PollInv, ResourcesMatchDocument

LEMMA PollFailsStep == ASSUME VInv, PollFails PROVE VInv'
<1>1. /\ answers' = {} /\ UNCHANGED <<captureVars, fetch>>
      /\ page' = [page EXCEPT !.polling = FALSE]
  BY DEF PollFails, VInv, PollInv
<1>2. page'.data = page.data /\ page' \in [polling : BOOLEAN, data : CurrentJobResponse]
  BY <1>1 DEF VInv, ViewerTypes
<1>3. /\ IInv' /\ StoredInv'
      /\ \A id, job : NamesJob(id, job)' <=> NamesJob(id, job)
  BY <1>1, StoreKept
<1> QED BY <1>1, <1>2, <1>3
        DEF VInv, ViewerTypes, NamesInv, PollInv, ResourcesMatchDocument

LEMMA RemountStep == ASSUME VInv, Remount PROVE VInv'
<1>1. /\ page' = [polling |-> FALSE, data |-> NoData]
      /\ answers' = {} /\ UNCHANGED <<captureVars, fetch>>
  BY DEF Remount
<1>2. /\ IInv' /\ StoredInv' /\ UNCHANGED generation
      /\ \A id, job : NamesJob(id, job)' <=> NamesJob(id, job)
  BY <1>1, StoreKept
<1>3. /\ ViewerTypes' /\ page'.polling = FALSE
      /\ page'.data.document.id = 0
  BY <1>1, EmptyValues DEF VInv, ViewerTypes
<1>4. NamesInv'
  <2>1. generation' \in Nat
    BY <1>2 DEF IInv, Types
  <2>2. NamesJob(page.data.document.id, page.data.document.job)'
    BY <1>3, <2>1 DEF NamesJob
  <2> QED BY <1>1, <1>2, <2>2 DEF VInv, NamesInv
<1> QED BY <1>1, <1>2, <1>3, <1>4 DEF VInv, PollInv, ResourcesMatchDocument

LEMMA RequestResourceStep == ASSUME VInv, RequestResource PROVE VInv'
<1>1. UNCHANGED <<captureVars, page, answers>>
  BY DEF RequestResource
<1>2. /\ IInv' /\ StoredInv'
      /\ \A id, job : NamesJob(id, job)' <=> NamesJob(id, job)
  BY <1>1, StoreKept
<1>3. /\ fetch' \in Fetch /\ fetch'.id = page.data.document.id
      /\ fetch'.expected = page.data.document.job /\ fetch'.got = NotFound
  BY PageFacts DEF RequestResource, Fetch, Document, NotFound
<1> QED BY <1>1, <1>2, <1>3
        DEF VInv, ViewerTypes, NamesInv, PollInv, ResourcesMatchDocument

\* A fetch answered is answered with the store's job, which its id names.
LEMMA ServeResourceStep == ASSUME VInv, ServeResource PROVE VInv'
<1>1. UNCHANGED <<captureVars, page, answers>>
  BY DEF ServeResource
<1>2. /\ IInv' /\ StoredInv'
      /\ \A id, job : NamesJob(id, job)' <=> NamesJob(id, job)
  BY <1>1, StoreKept
<1>3. current \in Nat
  BY DEF VInv, IInv, Types, Jobs, NoJob
<1>4. /\ fetch' \in Fetch /\ fetch'.id = fetch.id /\ fetch'.expected = fetch.expected
      /\ fetch'.got = IF CurrentJobIs(fetch.id) THEN current ELSE NotFound
  BY <1>3, PageFacts DEF ServeResource, Fetch, NotFound
<1>5. CurrentJobIs(fetch.id) => current = fetch.expected
  BY DEF CurrentJobIs, VInv, StoredInv, NamesInv, NamesJob
<1> QED BY <1>1, <1>2, <1>4, <1>5
        DEF VInv, ViewerTypes, NamesInv, PollInv, ResourcesMatchDocument

-----------------------------------------------------------------------------
(* The theorems.                                                           *)

LEMMA ViewerInitInvariant == ViewerInit => VInv
<1> SUFFICES ASSUME ViewerInit PROVE VInv
  OBVIOUS
<1>1. IInv /\ StoredInv /\ generation = 0
  BY InitInvariant DEF ViewerInit, CaptureInit, StoredInv
<1>2. /\ page.polling = FALSE /\ page.data = NoData /\ answers = {} /\ fetch = NoFetch
      /\ ViewerTypes
  BY EmptyValues DEF ViewerInit, ViewerTypes
<1>3. page.data.document.id = 0 /\ fetch.id = 0 /\ fetch.got = NotFound
  BY <1>2, EmptyValues
<1> QED BY <1>1, <1>2, <1>3 DEF VInv, NamesInv, NamesJob, PollInv, ResourcesMatchDocument

LEMMA ViewerStepInvariant == VInv /\ [ViewerNext]_viewerVars => VInv'
<1> SUFFICES ASSUME VInv, [ViewerNext]_viewerVars PROVE VInv'
  OBVIOUS
<1>1. CASE UNCHANGED viewerVars
  <2>1. UNCHANGED captureVars /\ UNCHANGED <<page, answers, fetch>>
    BY <1>1 DEF viewerVars, pageVars
  <2> QED BY <2>1, StoreKept
          DEF VInv, ViewerTypes, NamesInv, PollInv, ResourcesMatchDocument
<1>2. CASE CaptureNext /\ UNCHANGED pageVars
  BY <1>2, CaptureViewerStep
<1>3. CASE PageStep
  BY <1>3, PollStep, ShowAnswerStep, PollFailsStep, RemountStep, RequestResourceStep,
     ServeResourceStep DEF PageStep
<1> QED BY <1>1, <1>2, <1>3 DEF ViewerNext

LEMMA ViewerInvariant == ViewerSpec => []VInv
BY ViewerInitInvariant, ViewerStepInvariant, PTL DEF ViewerSpec

\* Whatever jobs arrive between a document and the fetch of one of its URLs,
\* the answer is that job's resource or not found.
THEOREM FetchesMatch == ViewerSpec => []ResourcesMatchDocument
<1>1. VInv => ResourcesMatchDocument
  BY DEF VInv
<1> QED BY <1>1, ViewerInvariant, PTL

\* A mounted page never goes back to an older job.
THEOREM ViewerMonotonic == ViewerSpec => ViewerNeverGoesBack
<1>1. VInv /\ [ViewerNext]_viewerVars
        => [page.data.document.id <= page'.data.document.id \/ page'.data = NoData]_page
  <2> SUFFICES ASSUME VInv, [ViewerNext]_viewerVars, page' # page
               PROVE  page.data.document.id <= page'.data.document.id \/ page'.data = NoData
    OBVIOUS
  <2>1. Poll \/ ShowAnswer \/ PollFails \/ Remount
    BY DEF ViewerNext, PageStep, RequestResource, ServeResource, viewerVars, pageVars
  <2>2. page.data.document.id \in Nat
    BY PageFacts
  <2>3. CASE Poll \/ PollFails
    BY <2>2, <2>3 DEF Poll, PollFails, VInv, ViewerTypes
  <2>4. CASE ShowAnswer
    <3>1. PICK next \in answers :
            page' = [polling |-> FALSE,
                     data |-> IF SameJob(next) THEN [next EXCEPT !.document = page.data.document]
                                               ELSE next]
      BY <2>4 DEF ShowAnswer
    <3>2. page'.data = IF SameJob(next) THEN [next EXCEPT !.document = page.data.document] ELSE next
      BY <3>1
    <3> QED BY <3>2, Merge
  <2>5. CASE Remount
    BY <2>5 DEF Remount
  <2> QED BY <2>1, <2>3, <2>4, <2>5
<1> QED BY <1>1, ViewerInvariant, PTL DEF ViewerSpec, ViewerNeverGoesBack
=============================================================================
