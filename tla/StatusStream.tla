----------------------------- MODULE StatusStream ----------------------------
(***************************************************************************)
(* GET /api/status/events beside the virtual printer: the task of one open *)
(* event stream (web/status.rs), the browser's EventSource that holds it   *)
(* open (api/status-stream.ts), and Ctrl+C (web.rs).                       *)
(*                                                                         *)
(* The task and the client meet in a channel of one event.  A step of the  *)
(* task is the code between two awaits.                                    *)
(***************************************************************************)
EXTENDS JobCapture

VARIABLES
  stream,   \* the task's place, its event, and its watch receiver
  queue,    \* the channel to the response body
  client,   \* whether the browser holds the response, and what it shows
  stopping  \* whether the shutdown channel has said so

streamVars == <<stream, queue, client, stopping>>
statusVars == <<captureVars, streamVars>>

-----------------------------------------------------------------------------
NoStatus == [receiving |-> FALSE, jobs_processed |-> 0]

\* changed says whether the receiver has a value borrow_and_update has not seen.
Stream == [at : {"ended", "borrowing", "sending", "waiting"},
           changed : BOOLEAN, event : JobRuntimeStatus]
EndedStream == [at |-> "ended", changed |-> FALSE, event |-> NoStatus]

StreamInit ==
  /\ CaptureInit
  /\ stream = EndedStream
  /\ queue = <<>>
  /\ client = [open |-> FALSE, shown |-> NoStatus]
  /\ stopping = FALSE

\* subscribe_runtime_status and the spawn; one stream at a time.  An EventSource whose response
\* ended connects again, which a stopping server does not answer.
OpenStream ==
  /\ ~client.open /\ stream.at = "ended"
  /\ ~stopping
  /\ stream' = [at |-> "borrowing", changed |-> FALSE, event |-> NoStatus]
  /\ queue' = <<>>
  /\ client' = [client EXCEPT !.open = TRUE]
  /\ UNCHANGED <<captureVars, stopping>>

\* borrow_and_update
BorrowStatus ==
  /\ stream.at = "borrowing"
  /\ stream' = [at |-> "sending", changed |-> FALSE, event |-> runtime_status]
  /\ UNCHANGED <<captureVars, queue, client, stopping>>

\* What changed while the event waited for room stays unseen.
SeenBySend == FALSE
UnseenBySend == stream.changed

SendEvent ==
  /\ stream.at = "sending"
  /\ client.open
  /\ queue = <<>>
  /\ queue' = <<stream.event>>
  /\ stream' = [stream EXCEPT !.at = "waiting", !.changed = UnseenBySend]
  /\ UNCHANGED <<captureVars, client, stopping>>

\* changed() of the store's channel
StatusChanged ==
  /\ stream.at = "waiting"
  /\ stream.changed
  /\ stream' = [stream EXCEPT !.at = "borrowing"]
  /\ UNCHANGED <<captureVars, queue, client, stopping>>

\* Each await also watches the shutdown channel and the receiver of the events.
BreakLoop ==
  /\ stopping \/ ~client.open
  /\ stream.at \in {"sending", "waiting"}
  /\ stream' = EndedStream
  /\ UNCHANGED <<captureVars, queue, client, stopping>>

-----------------------------------------------------------------------------
(* The browser.                                                            *)

ReadEvent ==
  /\ client.open
  /\ queue # <<>>
  /\ client' = [client EXCEPT !.shown = Head(queue)]
  /\ queue' = <<>>
  /\ UNCHANGED <<captureVars, stream, stopping>>

\* The body ends after its last event; the page may also close it, or the
\* connection break, at any moment.
CloseResponse ==
  /\ client.open
  /\ client' = [client EXCEPT !.open = FALSE]
  /\ queue' = <<>>
  /\ UNCHANGED <<captureVars, stream, stopping>>

\* shutdown_signal
Interrupt ==
  /\ ~stopping
  /\ stopping' = TRUE
  /\ UNCHANGED <<captureVars, stream, queue, client>>

-----------------------------------------------------------------------------
StreamTask == BorrowStatus \/ SendEvent \/ StatusChanged \/ BreakLoop

\* send_if_modified marks the value unseen for every receiver.
Capture ==
  /\ CaptureNext
  /\ stream' = [stream EXCEPT
       !.changed = stream.at # "ended" /\ (@ \/ runtime_status' # runtime_status)]
  /\ UNCHANGED <<queue, client, stopping>>

StatusNext ==
  \/ Capture
  \/ StreamTask
  \/ OpenStream \/ ReadEvent \/ CloseResponse \/ Interrupt

StatusSpec == StreamInit /\ [][StatusNext]_statusVars

\* The runtime polls the stream's task; the browser owes nothing.
StreamFairness == WF_statusVars(StreamTask)

\* A browser that reads its events and connects again.
ReaderFairness == WF_statusVars(ReadEvent) /\ WF_statusVars(OpenStream)

-----------------------------------------------------------------------------
(* Properties.                                                             *)

\* When the status comes to rest, a browser that reads and stays connected
\* shows it: no change is lost between a send that had to wait and the wait
\* for the next change.  And whatever the browser does, even one that has
\* stopped reading, "the stream also ends when the server starts to stop"
\* (web/status.rs).
StatusStreamCatchesUp ==
  /\ ReaderFairness =>
       (<>[](client.open /\ ~stopping) /\ <>[][FALSE]_runtime_status
          => <>[](client.shown = runtime_status))
  /\ stopping ~> stream.at = "ended"
=============================================================================
