----------------------------- MODULE MCPrinters -----------------------------
(* The server finds printers and prints to the registered ones: a behaviour is *)
(* of a discovery or of three print requests.                                  *)
EXTENDS MCDiscovery, PrintJobs, TLC

CONSTANTS requestA, requestB, requestC

\* Two requests for one name, one for a name that may be another of the same
\* printer, of another one, unusable, or not registered (yet).
MCPrinterOf == requestA :> "bar" @@ requestB :> "bar" @@ requestC :> "counter"

NoPrinting == PrintInit /\ registry = {}

PrintersInit ==
  \/ MCInit /\ NoPrinting
  \/ client = "printing" /\ NoPage /\ NoCommand /\ PrintInit

PrintersNext ==
  \/ MCNext /\ UNCHANGED printVars
  \/ client = "printing" /\ PrintNext /\ UNCHANGED mcVars

PrintersSpec ==
  PrintersInit /\ [][PrintersNext]_<<mcVars, printVars>> /\ Fairness /\ PrintFairness
=============================================================================
