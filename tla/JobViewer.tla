------------------------------ MODULE JobViewer ------------------------------
(***************************************************************************)
(* The jobs page of the web app, beside the virtual printer: it polls      *)
(* GET /api/jobs/current (features/jobs/use-current-job.ts) and fetches    *)
(* the sheets and the input of a job by the job's id (web/jobs.rs).        *)
(*                                                                         *)
(* A request is answered at one moment, under the store's read lock, and   *)
(* its answer is delivered or lost later.                                  *)
(***************************************************************************)
EXTENDS JobCapture

VARIABLES
  page,     \* the resource of useCurrentJob and its polling
  answers,  \* answers of GET /api/jobs/current on their way to the page
  fetch     \* a request for a resource of the job the page shows

pageVars == <<page, answers, fetch>>
viewerVars == <<captureVars, pageVars>>

-----------------------------------------------------------------------------
\* The job document of CurrentJobResponse; id 0 stands for no job, and input
\* says whether it carries input_url.  The job is what its URLs stand for.
Document == [id : Nat, job : Nat, input : BOOLEAN]
NoDocument == [id |-> 0, job |-> NoJob, input |-> FALSE]

CurrentJobResponse == [receiving : BOOLEAN, error : Nat, document : Document]
NoData == [receiving |-> FALSE, error |-> NoJob, document |-> NoDocument]

CurrentResponse ==
  [receiving |-> receiving > 0, error |-> error,
   document |-> IF current = NoJob THEN NoDocument
                ELSE [id |-> generation, job |-> current, input |-> receiving = 0]]

\* A fetch by id: the job whose document named the URL and what came back.
Fetch == [id : Nat, expected : Nat, got : Nat]
NotFound == 0
NoFetch == [id |-> 0, expected |-> NoJob, got |-> NotFound]

ViewerInit ==
  /\ CaptureInit
  /\ page = [polling |-> FALSE, data |-> NoData]
  /\ answers = {}
  /\ fetch = NoFetch

-----------------------------------------------------------------------------
(* The jobs page.                                                          *)

\* The next poll is set up when the last one has settled.
PollOnEveryTick == TRUE
PollSettled == ~page.polling

\* The answer is the store's state at one moment between request and answer.
Poll ==
  /\ PollSettled
  /\ page' = [page EXCEPT !.polling = TRUE]
  /\ answers' = answers \cup {CurrentResponse}
  /\ UNCHANGED <<captureVars, fetch>>

\* setResource: an answer about the job already shown keeps the document it
\* has, in place of the new one.
AnyJobShown(next) == page.data.document # NoDocument
SameJob(next) ==
  page.data.document # NoDocument /\ page.data.document.id = next.document.id

ShowAnswer ==
  \E next \in answers :
    /\ page' = [polling |-> FALSE,
                data |-> IF SameJob(next) THEN [next EXCEPT !.document = page.data.document]
                                          ELSE next]
    /\ answers' = answers \ {next}
    /\ UNCHANGED <<captureVars, fetch>>

\* A failed request leaves the data shown.
PollFails ==
  \E next \in answers :
    /\ page' = [page EXCEPT !.polling = FALSE]
    /\ answers' = answers \ {next}
    /\ UNCHANGED <<captureVars, fetch>>

\* The page unmounts, which aborts its request, and mounts afresh.
Remount ==
  /\ page # [polling |-> FALSE, data |-> NoData]
  /\ page' = [polling |-> FALSE, data |-> NoData]
  /\ answers' = {}
  /\ UNCHANGED <<captureVars, fetch>>

\* The browser asks for a sheet, or for the input the page offers.
RequestResource ==
  /\ page.data.document # NoDocument
  /\ fetch.got = NotFound
  /\ fetch' = [id |-> page.data.document.id, expected |-> page.data.document.job,
               got |-> NotFound]
  /\ UNCHANGED <<captureVars, page, answers>>

\* current_job
AnyCurrentJob(id) == current # NoJob
CurrentJobIs(id) == generation = id /\ current # NoJob

ServeResource ==
  /\ fetch # NoFetch
  /\ fetch' = [fetch EXCEPT !.got = IF CurrentJobIs(fetch.id) THEN current ELSE NotFound]
  /\ UNCHANGED <<captureVars, page, answers>>

-----------------------------------------------------------------------------
PageStep ==
  \/ Poll \/ ShowAnswer \/ PollFails \/ Remount
  \/ RequestResource \/ ServeResource

ViewerNext ==
  \/ CaptureNext /\ UNCHANGED pageVars
  \/ PageStep

ViewerSpec == ViewerInit /\ [][ViewerNext]_viewerVars

\* The page's timer fires, and polls do not fail or get aborted for ever.
PageFairness == WF_viewerVars(Poll) /\ SF_viewerVars(ShowAnswer)

-----------------------------------------------------------------------------
(* Properties.                                                             *)

\* A page that stays mounted never goes back to an older job, whatever order
\* its answers come in.
ViewerNeverGoesBack ==
  [][page.data.document.id <= page'.data.document.id \/ page'.data = NoData]_page

\* When the store comes to rest a page whose polls are answered shows what it
\* holds: the last job's id, its error and whether a job is being received.
ViewerCatchesUp ==
  PageFairness =>
    (<>[][FALSE]_store =>
       []<>( /\ page.data.document.id = generation
             /\ page.data.error = error
             /\ page.data.receiving = (receiving > 0)))

\* A resource asked for by a document's URL is that job's or is not found: a
\* job stored between the document and the fetch never answers in its place.
ResourcesMatchDocument == fetch.got \in {NotFound, fetch.expected}
=============================================================================
