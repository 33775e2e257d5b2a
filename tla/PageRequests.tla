---------------------------- MODULE PageRequests -----------------------------
(***************************************************************************)
(* The requests of a page: health, list and print, from the SDK over the   *)
(* relay to the extension worker, which finds the local server among its   *)
(* ports, remembers the port, and calls it.                                *)
(*                                                                         *)
(* Translated from sdks/javascript/src/transport.ts and from relay.ts,     *)
(* background.ts, messages.ts, daemon.ts and daemon-port.ts of the         *)
(* extension.  A step ends at an await.                                    *)
(***************************************************************************)
EXTENDS Naturals, Sequences, FiniteSets

CONSTANTS
  Requests,
  LastPort,     \* the ports the server may listen on are 1 .. LastPort
  MaxMoves,     \* bound: how often the server starts, stops or moves
  MaxLosses     \* bound: messages and answers that get lost, and timeouts

ASSUME RequestAssumption ==
  /\ IsFiniteSet(Requests)
  /\ LastPort \in Nat \ {0} /\ {MaxMoves, MaxLosses} \subseteq Nat

DaemonPorts == 1 .. LastPort
None == 0

VARIABLES
  op,         \* what each request asks for; fixed
  page,       \* SDK: "unsent", "pending", or what its promise settled with
  calls,      \* worker: where the handling of each request stands
  stored,     \* extension storage: the remembered port, or None
  writers,    \* DaemonPortStore.writeQueue, the head holds it
  listening,  \* on each port: "daemon", another server, or nothing
  printed,    \* how often the server accepted the bytes of each request
  moves, losses,
  calm        \* history: requests sent to a server that rests, with nobody else asking

requestVars ==
  <<op, page, calls, stored, writers, listening, printed, moves, losses, calm>>

Idle == [step |-> "idle", base |-> None, retried |-> FALSE, compared |-> None,
         next |-> "none", reply |-> "none"]

At(r, s) == calls[r].step = s
Go(r, s) == calls' = [calls EXCEPT ![r].step = s]
\* The handler returns `reply`: the relay passes it on to the page.
Replies(r, reply) == calls' = [calls EXCEPT ![r].step = "replying", ![r].reply = reply]
\* The step that comes after a turn in the write queue.
Writes(r, s, base, next) ==
  /\ calls' = [calls EXCEPT ![r].step = s, ![r].base = base, ![r].next = next]
  /\ writers' = Append(writers, r)

----------------------------------------------------------------------------
(* The SDK's PageTransport.                                                *)

UnderWay == {r \in Requests : calls[r].step # "idle"}
ServerRests == \E p \in DaemonPorts : listening[p] = "daemon"
Misleading == stored # None /\ listening[stored] = "other"

Send(r) ==
  /\ page[r] = "unsent"
  /\ page' = [page EXCEPT ![r] = "pending"]
  /\ Go(r, "posted")
  /\ calm' = IF UnderWay = {} /\ ServerRests /\ ~Misleading THEN calm \union {r} ELSE calm
  /\ UNCHANGED <<op, stored, writers, listening, printed, moves, losses>>

TimeOut(r) ==
  /\ page[r] = "pending" /\ losses < MaxLosses
  /\ page' = [page EXCEPT ![r] = "EXTENSION_UNAVAILABLE"]
  /\ losses' = losses + 1
  /\ UNCHANGED <<op, calls, stored, writers, listening, printed, moves, calm>>

\* receive: the first reply settles the promise, unless the timeout did.
Receive(r) ==
  /\ At(r, "replying")
  /\ page' = [page EXCEPT ![r] = IF @ = "pending" THEN calls[r].reply ELSE @]
  /\ calls' = [calls EXCEPT ![r] = Idle]
  /\ UNCHANGED <<op, stored, writers, listening, printed, moves, losses, calm>>

----------------------------------------------------------------------------
(* The relay and the worker's request handler.                             *)

\* forward: sendMessage fails when the worker cannot be reached.
Forward(r) ==
  /\ At(r, "posted")
  /\ \/ Go(r, "authorizing") /\ UNCHANGED losses
     \/ losses < MaxLosses /\ losses' = losses + 1 /\ Replies(r, "EXTENSION_UNAVAILABLE")
  /\ UNCHANGED <<op, page, stored, writers, listening, printed, moves, calm>>

\* handleRequest up to the operation: the origin is granted and the payload is
\* valid, or the request is refused.
Authorize(r) ==
  /\ At(r, "authorizing")
  /\ \/ Go(r, "reading")
     \/ \E refusal \in {"ORIGIN_NOT_GRANTED", "PROTOCOL_MISMATCH"} : Replies(r, refusal)
  /\ UNCHANGED <<op, page, stored, writers, listening, printed, moves, losses, calm>>

\* What the operation comes to when no server can be reached.
Unavailable(r) ==
  CASE op[r] = "health" -> "false" [] op[r] = "list" -> "DAEMON_UNAVAILABLE"
    [] op[r] = "print" -> "PRINT_FAILED"

----------------------------------------------------------------------------
(* DaemonClient: the base URL.                                             *)

\* ports.read(): the remembered port, or a scan of all of them.
ReadPort(r) ==
  /\ At(r, "reading")
  /\ calls' = [calls EXCEPT ![r].step = IF stored = None THEN "scanning" ELSE "calling",
                            ![r].base = IF stored = None THEN 1 ELSE stored]
  /\ UNCHANGED <<op, page, stored, writers, listening, printed, moves, losses, calm>>

\* discover: one /health after the other; the first server that is well is
\* remembered. health() asks for no more than that.
Probe(r) ==
  /\ At(r, "scanning")
  /\ LET b == calls[r].base IN
     \/ /\ listening[b] = "daemon"
        /\ Writes(r, "remembering", b, IF op[r] = "health" THEN "replying" ELSE "calling")
     \/ /\ listening[b] # "daemon" /\ b < LastPort
        /\ calls' = [calls EXCEPT ![r].base = b + 1]
        /\ UNCHANGED writers
     \/ /\ listening[b] # "daemon" /\ b = LastPort
        /\ Replies(r, Unavailable(r))
        /\ UNCHANGED writers
  /\ UNCHANGED <<op, page, stored, listening, printed, moves, losses, calm>>

\* remember, in its turn.
Remember(r) ==
  /\ At(r, "remembering") /\ Head(writers) = r
  /\ stored' = calls[r].base /\ writers' = Tail(writers)
  /\ calls' = [calls EXCEPT ![r].step = calls[r].next,
                            ![r].reply = IF calls[r].next = "replying" THEN "true" ELSE @]
  /\ UNCHANGED <<op, page, listening, printed, moves, losses, calm>>

Forgets(r) == calls[r].compared = calls[r].base

\* removeIfCurrent, in its turn: what is stored is read, and removed when it is the
\* port that failed; both under the queue.
CompareStored(r) ==
  /\ At(r, "invalidating") /\ Head(writers) = r
  /\ calls' = [calls EXCEPT ![r].step = "removing", ![r].compared = stored]
  /\ UNCHANGED <<op, page, stored, writers, listening, printed, moves, losses, calm>>

RemoveStored(r) ==
  /\ At(r, "removing")
  /\ stored' = IF Forgets(r) THEN None ELSE stored
  /\ writers' = Tail(writers)
  /\ calls' = [calls EXCEPT ![r].step = calls[r].next, ![r].compared = None,
                            ![r].base = IF calls[r].next = "scanning" THEN 1 ELSE @,
                            ![r].reply = IF calls[r].next = "replying" THEN Unavailable(r) ELSE @]
  /\ UNCHANGED <<op, page, listening, printed, moves, losses, calm>>

InvalidatesAndRepeats(r, next) ==
  Writes(r, "invalidating", calls[r].base, IF op[r] = "print" THEN "reading" ELSE next)
Invalidates(r, next) == Writes(r, "invalidating", calls[r].base, next)

----------------------------------------------------------------------------
(* DaemonClient: the calls.                                                *)

\* What a fetch comes to at port b: the answer of the server, the error status of
\* another one, or a transport error, which may hide an answer that got lost.
Ok(b) == listening[b] = "daemon"
Breaks(b) == listening[b] = "nothing"
Loses(b) == listening[b] = "daemon" /\ losses < MaxLosses

Lost(r, b) == losses' = IF Breaks(b) THEN losses ELSE losses + 1
Uncalm(r, b) == calm' = IF Breaks(b) THEN calm ELSE calm \ {r}

\* health() with a remembered port: an error status forgets the port, a transport
\* error also looks for another.
CallHealth(r) ==
  /\ At(r, "calling") /\ op[r] = "health"
  /\ LET b == calls[r].base IN
     \/ /\ Ok(b) /\ Replies(r, "true")
        /\ UNCHANGED <<writers, losses, calm>>
     \/ /\ listening[b] = "other" /\ Invalidates(r, "replying")
        /\ UNCHANGED <<losses, calm>>
     \/ /\ Breaks(b) \/ Loses(b)
        /\ Lost(r, b) /\ Uncalm(r, b) /\ Invalidates(r, "scanning")
  /\ UNCHANGED <<op, page, stored, listening, printed, moves>>

GivesUp(r) == "replying"
AfterBreak(r) == IF calls[r].retried THEN "replying" ELSE "reading"

\* get(): a transport error forgets the port and tries once more from the start;
\* an error status is final and keeps the port.
CallList(r) ==
  /\ At(r, "calling") /\ op[r] = "list"
  /\ LET b == calls[r].base IN
     \/ /\ Ok(b) /\ Replies(r, "ok")
        /\ UNCHANGED <<writers, losses, calm>>
     \/ /\ listening[b] = "other" /\ Replies(r, "DAEMON_UNAVAILABLE")
        /\ UNCHANGED <<writers, losses, calm>>
     \/ /\ Breaks(b) \/ Loses(b)
        /\ Lost(r, b) /\ Uncalm(r, b)
        /\ calls' = [calls EXCEPT ![r].step = "invalidating", ![r].retried = TRUE,
                       ![r].next = AfterBreak(r)]
        /\ writers' = Append(writers, r)
  /\ UNCHANGED <<op, page, stored, listening, printed, moves>>

\* print(): one POST. Unless the server names the printer unknown, whatever goes
\* wrong forgets the port and fails the print.
CallPrint(r) ==
  /\ At(r, "calling") /\ op[r] = "print"
  /\ LET b == calls[r].base
         accepted == [printed EXCEPT ![r] = @ + 1]
     IN \/ /\ Ok(b) /\ printed' = accepted /\ Replies(r, "ok")
           /\ UNCHANGED <<writers, losses>>
        \/ /\ Ok(b) /\ UNCHANGED <<printed, writers, losses>>
           /\ Replies(r, "PRINTER_NOT_FOUND")
        \/ /\ Invalidates(r, "replying") /\ UNCHANGED <<printed, losses>>
        \/ /\ Loses(b)
           /\ losses' = losses + 1
           /\ printed' = accepted /\ Invalidates(r, "replying")
  /\ UNCHANGED <<op, page, stored, listening, moves, calm>>

----------------------------------------------------------------------------
(* The server is started, stopped, or started on another port.             *)

Move ==
  /\ moves < MaxMoves
  /\ moves' = moves + 1
  /\ \E l \in [DaemonPorts -> {"daemon", "other", "nothing"}] :
       /\ l # listening /\ Cardinality({p \in DaemonPorts : l[p] = "daemon"}) <= 1
       /\ listening' = l
  /\ calm' = {}
  /\ UNCHANGED <<op, page, calls, stored, writers, printed, losses>>

InitRequests ==
  /\ op \in [Requests -> {"health", "list", "print"}]
  /\ page = [r \in Requests |-> "unsent"] /\ calls = [r \in Requests |-> Idle]
  /\ stored = None /\ writers = <<>>
  /\ listening = [p \in DaemonPorts |-> IF p = 1 THEN "daemon" ELSE "nothing"]
  /\ printed = [r \in Requests |-> 0]
  /\ moves = 0 /\ losses = 0 /\ calm = {}

RequestStep(r) ==
  \/ Send(r) \/ TimeOut(r) \/ Receive(r) \/ Forward(r) \/ Authorize(r)
  \/ ReadPort(r) \/ Probe(r) \/ Remember(r) \/ CompareStored(r) \/ RemoveStored(r)
  \/ CallHealth(r) \/ CallList(r) \/ CallPrint(r)
NextRequests == Move \/ \E r \in Requests : RequestStep(r)
RequestSpec == InitRequests /\ [][NextRequests]_requestVars

----------------------------------------------------------------------------
(* Properties.                                                             *)

\* Whatever is lost, moved or retried, a print reaches the server at most once; a
\* page that got a job id had it accepted, and one that was told the printer is
\* unknown did not.
PrintsAtMostOnce ==
  \A r \in Requests :
    /\ printed[r] <= 1
    /\ op[r] = "print" /\ page[r] = "ok" => printed[r] = 1
    /\ page[r] = "PRINTER_NOT_FOUND" => printed[r] = 0

\* A list or health request that nobody else disturbs finds a server that stays
\* where it is, however stale the remembered port was.
CalmRequestsSucceed ==
  \A r \in calm : page[r] \notin {"DAEMON_UNAVAILABLE", "false"}
=============================================================================
