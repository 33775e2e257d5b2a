-------------------------------- MODULE MCJobs --------------------------------
(* What happens to the jobs of the virtual printer: they are captured, alone,  *)
(* under a page that polls or under an event stream that is opened and closed, *)
(* which share nothing but the store they read; or one is rendered, or one of  *)
(* its barcodes encoded, of which the store sees only the outcome.             *)
EXTENDS JobViewer, StatusStream, MCReceipts

VARIABLE part

receiptVars == <<interpreterVars, code128Vars, linearVars>>
captureAndReaders == <<captureVars, pageVars, streamVars>>
mcVars == <<part, captureAndReaders, receiptVars>>

\* Parts a behaviour is not of rest in one of their initial states.
NoRendering ==
  InterpreterInit /\ job = <<>> /\ profile = MCProfile
NoCode128 == tokens = <<>> /\ choices = <<>> /\ symbols = <<>>
NoBarcode == barcode = [system |-> "none", data |-> <<>>] /\ encoded = <<>>

MCInit ==
  /\ ViewerInit
  /\ StreamInit
  /\ part \in {"printer alone", "page", "stream", "rendering", "Code 128", "barcode"}
  /\ IF part = "rendering" THEN InterpreterInit ELSE NoRendering
  /\ IF part = "Code 128" THEN Code128Init ELSE NoCode128
  /\ IF part = "barcode" THEN LinearInit ELSE NoBarcode

\* Bound: under a reader each connection sends one chunk.
OneChunkEach == \A c \in Connections : connections'[c].sent <= 1

CaptureOrRead ==
  \/ part = "printer alone" /\ CaptureNext /\ UNCHANGED <<pageVars, streamVars>>
  \/ part = "page" /\ ViewerNext /\ OneChunkEach /\ UNCHANGED streamVars
  \/ part = "stream" /\ StatusNext /\ OneChunkEach /\ UNCHANGED pageVars

RenderOrEncode ==
  \/ part = "rendering" /\ InterpreterNext /\ UNCHANGED <<code128Vars, linearVars>>
  \/ part = "Code 128" /\ Code128Next /\ UNCHANGED <<interpreterVars, linearVars>>
  \/ part = "barcode" /\ EncodeLinear /\ UNCHANGED <<interpreterVars, code128Vars>>

MCNext ==
  /\ UNCHANGED part
  /\ \/ CaptureOrRead /\ UNCHANGED <<receiptVars>>
     \/ RenderOrEncode /\ UNCHANGED <<captureAndReaders>>

MCSpec == MCInit /\ [][MCNext]_mcVars /\ CaptureFairness /\ StreamFairness
=============================================================================
