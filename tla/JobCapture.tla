----------------------------- MODULE JobCapture -----------------------------
(***************************************************************************)
(* The virtual printer of `escpost serve`: the tasks that capture RAW jobs *)
(* (features/capture/cli.rs) and the JobStore they fill                    *)
(* (web/job_store.rs).                                                     *)
(*                                                                         *)
(* A job is named by its place in the order in which jobs completed, and   *)
(* its bytes are the chunks of one connection from one cut to the next.    *)
(* One step is the code between two awaits: a read, a section under the    *)
(* store's write lock, or a rendering on the blocking pool.                *)
(***************************************************************************)
EXTENDS Naturals, Sequences, FiniteSets

CONSTANTS
  Connections,  \* the TCP connections the listener accepts
  IdleTimeout,  \* whether --idle-timeout is on
  MaxChunks     \* bound: chunks one connection sends

ASSUME ConnectionsFinite == IsFiniteSet(Connections)
ASSUME IdleTimeoutAssumption == IdleTimeout \in BOOLEAN
ASSUME MaxChunksAssumption == MaxChunks \in Nat

VARIABLES
  connections,  \* the capture_job task of each connection
  current,      \* jobs, completion and raw_input of JobStoreState: one job
  error,        \* the job whose rendering error the store shows
  generation, receiving, jobs_processed,  \* the counters of JobStoreState
  runtime_status,  \* the value of the watch channel
  completed     \* history: every job, in the order of completion

store == <<current, error, generation, receiving, jobs_processed, runtime_status>>
captureVars == <<connections, store, completed>>

-----------------------------------------------------------------------------
NoJob == 0
Jobs == 1..Len(completed)

Job == [connection : Connections, from : Nat, to : Nat,
        completion : {"closed", "timeout"}]

JobRuntimeStatus == [receiving : BOOLEAN, jobs_processed : Nat]

\* Where capture_job stands.
Places == {"unopened", "reading", "beginning", "rendering", "storing", "failing",
           "ending", "done"}

\* counted is the local `receiving`; the buffer holds the chunks from taken to
\* sent, and job is the one being finalized.
ConnectionState == [at : Places, counted : BOOLEAN, sent : Nat, taken : Nat, job : Nat]
Unopened == [at |-> "unopened", counted |-> FALSE, sent |-> 0, taken |-> 0, job |-> NoJob]

MovedTo(c, place) == [connections EXCEPT ![c].at = place]
BufferEmpty(c) == connections[c].taken = connections[c].sent

CaptureInit ==
  /\ connections = [c \in Connections |-> Unopened]
  /\ current = NoJob
  /\ error = NoJob
  /\ generation = 0
  /\ receiving = 0
  /\ jobs_processed = 0
  /\ runtime_status = [receiving |-> FALSE, jobs_processed |-> 0]
  /\ completed = <<>>

-----------------------------------------------------------------------------
(* The store.                                                              *)

\* publish_runtime_status, still under the write lock.
OnlyReceivingPublished ==
  runtime_status' = [runtime_status EXCEPT !.receiving = receiving' > 0]
PublishRuntimeStatus ==
  runtime_status' = [receiving |-> receiving' > 0, jobs_processed |-> jobs_processed']

\* saturating_sub(1)
OneLess(n) == IF n = 0 THEN 0 ELSE n - 1

-----------------------------------------------------------------------------
(* capture_job.                                                            *)

Accept(c) ==
  /\ connections[c].at = "unopened"
  /\ connections' = MovedTo(c, "reading")
  /\ UNCHANGED <<store, completed>>

\* A chunk joins the buffer; the first one of a job makes the task begin a capture.
FirstChunk(c) == ~connections[c].counted

ReadChunk(c) ==
  /\ connections[c].at = "reading"
  /\ connections[c].sent < MaxChunks
  /\ connections' = [connections EXCEPT
       ![c].sent = @ + 1,
       ![c].at = IF FirstChunk(c) THEN "beginning" ELSE "reading"]
  /\ UNCHANGED <<store, completed>>

BeginCapture(c) ==
  /\ connections[c].at = "beginning"
  /\ receiving' = receiving + 1
  /\ UNCHANGED <<current, error, generation, jobs_processed, completed>>
  /\ PublishRuntimeStatus
  /\ connections' = [connections EXCEPT ![c].at = "reading", ![c].counted = TRUE]

\* The buffer becomes a job, handed to the blocking pool: mem::take leaves an
\* empty buffer, where a copy would leave the job's bytes for the next one.
BufferCopied(c) == connections[c].taken
BufferTaken(c) == connections[c].sent

Finalize(c, completion) ==
  /\ completed' = Append(completed, [connection |-> c, from |-> connections[c].taken,
                                     to |-> connections[c].sent,
                                     completion |-> completion])
  /\ connections' = [connections EXCEPT ![c].at = "rendering",
                                        ![c].taken = BufferTaken(c),
                                        ![c].job = Len(completed) + 1]
  /\ UNCHANGED store

\* Silence for the idle interval completes what has arrived, if anything has.
IdleElapsed(c) ==
  /\ IdleTimeout
  /\ connections[c].at = "reading"
  /\ ~BufferEmpty(c)
  /\ Finalize(c, "timeout")

EndOfStream(c) ==
  /\ connections[c].at = "reading"
  /\ \/ ~BufferEmpty(c) /\ Finalize(c, "closed")
     \/ /\ BufferEmpty(c)
        /\ connections' = MovedTo(c, IF connections[c].counted THEN "ending" ELSE "done")
        /\ UNCHANGED <<store, completed>>

\* A read error drops the buffer with the task.
ReadError(c) ==
  /\ connections[c].at = "reading"
  /\ connections' = MovedTo(c, IF connections[c].counted THEN "ending" ELSE "done")
  /\ UNCHANGED <<store, completed>>

\* render_job returns the job, fails, or panics; a panic is logged and the task
\* goes on.
PanicsEndTask == {"storing", "failing", "done"}
Outcomes == {"storing", "failing", "ending"}

RenderEnds(c) ==
  /\ connections[c].at = "rendering"
  /\ \E outcome \in Outcomes : connections' = MovedTo(c, outcome)
  /\ UNCHANGED <<store, completed>>

\* replace_captured
StoreJob(c) ==
  /\ connections[c].at = "storing"
  /\ current' = connections[c].job
  /\ error' = NoJob
  /\ generation' = generation + 1
  /\ jobs_processed' = jobs_processed + 1
  /\ UNCHANGED receiving
  /\ PublishRuntimeStatus
  /\ connections' = MovedTo(c, "ending")
  /\ UNCHANGED completed

\* set_error, which announces nothing.
StoreError(c) ==
  /\ connections[c].at = "failing"
  /\ error' = connections[c].job
  /\ connections' = MovedTo(c, "ending")
  /\ UNCHANGED <<current, generation, receiving, jobs_processed, runtime_status, completed>>

\* A task whose job timed out reads on.
TimedOut(c) == connections[c].job \in Jobs /\ completed[connections[c].job].completion = "timeout"

\* The local `receiving` after the idle branch's end_capture.
StillCounted(c) == connections[c].counted
NotCounted(c) == FALSE

EndCapture(c) ==
  /\ connections[c].at = "ending"
  /\ receiving' = IF TimedOut(c) \/ connections[c].counted THEN OneLess(receiving)
                                                          ELSE receiving
  /\ UNCHANGED jobs_processed
  /\ PublishRuntimeStatus
  /\ connections' = [connections EXCEPT ![c].at = IF TimedOut(c) THEN "reading" ELSE "done",
                                        ![c].counted = NotCounted(c),
                                        ![c].job = NoJob]
  /\ UNCHANGED <<current, error, generation, completed>>

-----------------------------------------------------------------------------
\* What the task does by itself, and what the client or the network does to it.
TaskStep(c) ==
  \/ BeginCapture(c)
  \/ RenderEnds(c)
  \/ StoreJob(c)
  \/ StoreError(c)
  \/ EndCapture(c)

ClientStep(c) == Accept(c) \/ ReadChunk(c) \/ EndOfStream(c) \/ ReadError(c)

CaptureNext == \E c \in Connections : TaskStep(c) \/ IdleElapsed(c) \/ ClientStep(c)

CaptureSpec == CaptureInit /\ [][CaptureNext]_captureVars

\* The runtime polls every task that can move, a rendering returns, and the
\* idle timer of a silent connection fires.  Clients owe nothing.
CaptureFairness ==
  \A c \in Connections : WF_captureVars(TaskStep(c)) /\ WF_captureVars(IdleElapsed(c))

FairCaptureSpec == CaptureSpec /\ CaptureFairness

-----------------------------------------------------------------------------
(* Properties.                                                             *)

\* The variables have their types, no more captures are counted than there are
\* connections, and the store names jobs that completed.
CaptureTypeOK ==
  /\ connections \in [Connections -> ConnectionState]
  /\ completed \in Seq(Job)
  /\ current \in Jobs \cup {NoJob} /\ error \in Jobs \cup {NoJob}
  /\ generation \in Nat /\ jobs_processed \in Nat
  /\ receiving \in 0..Cardinality(Connections)
  /\ runtime_status \in JobRuntimeStatus

Counted == {c \in Connections : connections[c].counted}

\* The status the web app shows is exact whenever the store's lock is free:
\* `receiving` counts the captures begun and not ended, whichever way each of
\* them went, and the channel holds what the store does.
StatusTellsTruth ==
  /\ receiving = Cardinality(Counted)
  /\ jobs_processed = generation
  /\ runtime_status = [receiving |-> Counted # {}, jobs_processed |-> generation]

JobsOf(c) == {i \in Jobs : completed[i].connection = c}

\* No byte is in two jobs and none between two jobs is lost, though an idle
\* timeout may cut a connection's stream anywhere: a connection's jobs are not
\* empty, the first starts at its first chunk, each starts where the one before
\* it ended, and the buffer starts where the last one ended.
JobsAreWhole ==
  \A c \in Connections :
    /\ \A j \in JobsOf(c) :
         /\ completed[j].from < completed[j].to
         /\ \A i \in JobsOf(c) : i < j => completed[i].to <= completed[j].from
         /\ \/ \E i \in JobsOf(c) : i < j /\ completed[i].to = completed[j].from
            \/ completed[j].from = 0 /\ \A i \in JobsOf(c) : j <= i
    /\ \/ JobsOf(c) = {} /\ connections[c].taken = 0
       \/ \E last \in JobsOf(c) :
            /\ connections[c].taken = completed[last].to
            /\ \A i \in JobsOf(c) : i <= last

\* "The current viewer displays the most recently completed job"
\* (docs/CLI.md): a job never replaces one that completed after it.
LatestJobStays == [][current <= current']_current

\* The virtual printer does not show "receiving" for ever: with the idle
\* timeout on, every capture ends though its client keeps the connection open.
ReceptionEnds == runtime_status.receiving ~> ~runtime_status.receiving
=============================================================================
