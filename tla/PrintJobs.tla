------------------------------ MODULE PrintJobs ------------------------------
(***************************************************************************)
(* POST /api/print (features/printing): a request resolves a name to a     *)
(* target, waits for the lock of that name, and sends its bytes from a     *)
(* task that holds the lock, whether or not the caller is still there.     *)
(* The printers are those of PrinterRegistry, which grows meanwhile.       *)
(*                                                                         *)
(* One step is the code between two awaits.  A payload is MaxPieces pieces *)
(* that a transfer hands over one at a time.                               *)
(***************************************************************************)
EXTENDS PrinterRegistry, Naturals, Sequences, FiniteSets

CONSTANTS
  Request,
  PrinterOf,  \* the name each request gives
  Usb,        \* the connections over USB, which one transfer claims
  MaxPieces   \* bound: pieces of a payload

ASSUME ConnectionAssumption == Connection # {}
ASSUME PrinterOfAssumption == PrinterOf \in [Request -> Name]
ASSUME UsbAssumption == Usb \subseteq Registrable
ASSUME MaxPiecesAssumption == MaxPieces \in Nat

VARIABLES
  requests,      \* where each print_job, and the task it spawned, stands
  printer_locks, \* the lock of every name that was ever locked
  job_sequence,
  wire           \* external: what each printer was handed, in order

printVars == <<registry, requests, printer_locks, job_sequence, wire>>

-----------------------------------------------------------------------------
Free == "free"
ASSUME FreeAssumption == Free \notin Request

RequestPlaces == {"idle", "refused", "resolved", "queued", "left",
           "opening", "sending", "transferred", "broken"}
Transferring == {"opening", "sending"}
Ended == {"transferred", "broken"}

At(r, place) == requests[r].at = place
Moved(r, place) == [requests EXCEPT ![r].at = place]
Piece(r, number) == [request |-> r, number |-> number]
Pieces == [request : Request, number : 1..MaxPieces]

\* ticket is the place in the queue of the lock; caller is "gone" when the HTTP
\* connection closed before the answer; job holds the number of an answered id.
PrintInit ==
  /\ RegistryInit
  /\ requests \in [Request -> [at : {"idle"}, target : {CHOOSE c \in Connection : TRUE},
                               ticket : {0}, sent : {0}, caller : {"waiting"},
                               job : {<< >>}]]
  /\ printer_locks = << >>
  /\ job_sequence = 0
  /\ wire = [endpoint \in Registrable |-> <<>>]

-----------------------------------------------------------------------------
(* print_job up to the lock.                                               *)

\* resolve_target: the table of that name, with a transport and an endpoint that
\* can be printed to.
Targets(r) ==
  {table \in registry : table.name = PrinterOf[r] /\ table.connection \in Registrable}

ResolveTarget(r) ==
  /\ At(r, "idle")
  /\ \E table \in Targets(r) :
       requests' = [requests EXCEPT ![r].at = "resolved", ![r].target = table.connection]
  /\ UNCHANGED <<registry, printer_locks, job_sequence, wire>>

RefuseTarget(r) ==
  /\ At(r, "idle") /\ Targets(r) = {}
  /\ requests' = [requests EXCEPT ![r].at = "refused", ![r].caller = "answered"]
  /\ UNCHANGED <<registry, printer_locks, job_sequence, wire>>

\* printer_lock: one mutex per name, made on first use and kept.  A free mutex is
\* taken at once, and the transfer spawned with its guard; otherwise the request
\* queues behind those before it.
LockPerRequest(r) == r
LockOf(r) == PrinterOf[r]
LockState(name) ==
  IF name \in DOMAIN printer_locks THEN printer_locks[name] ELSE [holder |-> Free, tickets |-> 0]
WithLock(name, state) ==
  [other \in DOMAIN printer_locks \union {name} |->
    IF other = name THEN state ELSE printer_locks[other]]

Lock(r) ==
  LET lock == LockState(LockOf(r))
  IN  /\ At(r, "resolved")
      /\ printer_locks' = WithLock(LockOf(r),
           [holder |-> IF lock.holder = Free THEN r ELSE lock.holder,
            tickets |-> lock.tickets + 1])
      /\ requests' = [requests EXCEPT ![r].at = IF lock.holder = Free THEN "opening" ELSE "queued",
                                      ![r].ticket = lock.tickets + 1]
      /\ UNCHANGED <<registry, job_sequence, wire>>

\* A tokio mutex is handed to the request that queued first.
Waiting(r) ==
  {other \in Request \ {r} : At(other, "queued") /\ LockOf(other) = LockOf(r)}
Release(r) ==
  \E next \in Waiting(r) \union {Free} :
    /\ next = Free <=> Waiting(r) = {}
    /\ next # Free => \A other \in Waiting(r) : requests[next].ticket <= requests[other].ticket
    /\ printer_locks' = [printer_locks EXCEPT ![LockOf(r)].holder = next]
Holds(r) == printer_locks[LockOf(r)].holder = r

\* spawn_guarded_print, once the awaited lock was handed over.
Spawn(r) ==
  /\ At(r, "queued") /\ Holds(r)
  /\ requests' = Moved(r, "opening")
  /\ UNCHANGED <<registry, printer_locks, job_sequence, wire>>

-----------------------------------------------------------------------------
(* The spawned task: print, and the guard it drops when it ends.           *)

\* Claiming a USB interface fails while another transfer has it; connecting to a
\* network printer does not.
Claimed(target) ==
  target \in Usb /\ \E other \in Request : At(other, "sending") /\ requests[other].target = target

Open(r) ==
  /\ At(r, "opening") /\ ~Claimed(requests[r].target)
  /\ requests' = Moved(r, "sending")
  /\ UNCHANGED <<registry, printer_locks, job_sequence, wire>>

PiecesLeft(r) == requests[r].sent < MaxPieces

SendPiece(r) ==
  /\ At(r, "sending") /\ PiecesLeft(r)
  /\ requests' = [requests EXCEPT ![r].sent = @ + 1]
  /\ wire' = [wire EXCEPT ![requests[r].target] = Append(@, Piece(r, requests[r].sent + 1))]
  /\ UNCHANGED <<registry, printer_locks, job_sequence>>

\* flush, or shutdown
AnySent(r) == TRUE
AllSent(r) == requests[r].sent = MaxPieces

Complete(r) ==
  /\ At(r, "sending") /\ AllSent(r)
  /\ requests' = Moved(r, "transferred")
  /\ Release(r)
  /\ UNCHANGED <<registry, job_sequence, wire>>

\* An error, a timeout or a panic, at any point and even after the last piece.
KeepOnBreak(r) == UNCHANGED printer_locks
ReleaseOnBreak(r) == Release(r)

Break(r) ==
  /\ requests[r].at \in Transferring
  /\ requests' = Moved(r, "broken")
  /\ ReleaseOnBreak(r)
  /\ UNCHANGED <<registry, job_sequence, wire>>

-----------------------------------------------------------------------------
(* The caller.                                                             *)

Answer(r) ==
  /\ requests[r].at \in Ended /\ requests[r].caller = "waiting"
  /\ IF At(r, "transferred")
     THEN /\ job_sequence' = job_sequence + 1
          /\ requests' = [requests EXCEPT ![r].caller = "answered", ![r].job = <<job_sequence>>]
     ELSE /\ requests' = [requests EXCEPT ![r].caller = "answered"]
          /\ UNCHANGED job_sequence
  /\ UNCHANGED <<registry, printer_locks, wire>>

\* The HTTP connection closes: the handler is dropped at its await, and with it
\* its place in the queue or the lock it was just handed.  A spawned transfer
\* goes on, with its guard.
GuardDropped(r) == At(r, "queued") /\ Holds(r)
Dropped(r) == requests[r].at \in {"resolved", "queued"}

Disconnect(r) ==
  /\ requests[r].at # "idle" /\ requests[r].caller = "waiting"
  /\ requests' = [requests EXCEPT ![r].caller = "gone",
                                  ![r].at = IF Dropped(r) THEN "left" ELSE @]
  /\ IF GuardDropped(r) THEN Release(r) ELSE UNCHANGED printer_locks
  /\ UNCHANGED <<registry, job_sequence, wire>>

-----------------------------------------------------------------------------
RequestStep(r) ==
  \/ ResolveTarget(r) \/ RefuseTarget(r) \/ Lock(r) \/ Spawn(r) \/ Open(r) \/ SendPiece(r)
  \/ Complete(r) \/ Break(r) \/ Answer(r)

RegisterPrinter ==
  /\ RegistryNext
  /\ UNCHANGED <<requests, printer_locks, job_sequence, wire>>

PrintNext == RegisterPrinter \/ \E r \in Request : RequestStep(r) \/ Disconnect(r)

PrintSpec == PrintInit /\ [][PrintNext]_printVars

\* A connection attempt and a write end, at the latest with their timeouts.
PrintFairness == \A r \in Request : WF_printVars(RequestStep(r) /\ requests[r].at # "idle")
FairPrintSpec == PrintSpec /\ PrintFairness

-----------------------------------------------------------------------------
(* Properties.                                                             *)

\* The types of the variables; every id that was answered was counted.
PrintTypeOK ==
  /\ registry \subseteq Table /\ OnePerName(registry)
  /\ requests \in [Request -> [at : RequestPlaces, target : Connection, ticket : Nat,
                               sent : 0..MaxPieces, caller : {"waiting", "gone", "answered"},
                               job : Seq(Nat)]]
  /\ DOMAIN printer_locks \subseteq Name
  /\ \A name \in DOMAIN printer_locks :
       printer_locks[name] \in [holder : Request \union {Free}, tickets : Nat]
  /\ job_sequence \in Nat
  /\ wire \in [Registrable -> Seq(Pieces)]

\* http.rs:75: from the moment the lock of a name is taken until the transfer is
\* over, no other request has it, even if the caller goes away: at most one
\* transfer per name.
GuardCoversTransfer ==
  \A r \in Request : requests[r].at \in Transferring => Holds(r)

\* http.rs:125: what one transfer hands to a printer is not mixed with another
\* transfer's, as long as a single name denotes the printer or it is on USB.
Sole(endpoint) ==
  endpoint \in Usb \/
  \A one, other \in registry : one.connection = endpoint /\ other.connection = endpoint => one = other
Contiguous(pieces) ==
  \A i, k \in DOMAIN pieces : i < k /\ pieces[i].request = pieces[k].request =>
    /\ pieces[i].number < pieces[k].number
    /\ \A j \in i..k : pieces[j].request = pieces[i].request
JobsDoNotMix == \A endpoint \in Registrable : Sole(endpoint) => Contiguous(wire[endpoint])

\* http.rs:129: a job id is answered only for a payload handed over completely, in
\* order and once, to the printer of the name that was asked for, and to no other.
Positions(r, endpoint) == {i \in DOMAIN wire[endpoint] : wire[endpoint][i].request = r}
Numbers(r, endpoint) == {wire[endpoint][i].number : i \in Positions(r, endpoint)}
Ordered(r, endpoint) ==
  \A i, k \in Positions(r, endpoint) : i < k => wire[endpoint][i].number < wire[endpoint][k].number
AnsweredIsPrinted ==
  \A r \in Request : requests[r].job # << >> =>
    \A endpoint \in Registrable :
      IF [name |-> PrinterOf[r], connection |-> endpoint] \in registry
      THEN Numbers(r, endpoint) = 1..MaxPieces /\ Ordered(r, endpoint)
      ELSE Positions(r, endpoint) = {}

\* printing/mod.rs:93: the target resolved before the lock is still the printer of
\* that name when the transfer runs, however long it waited.
TargetStaysCurrent ==
  \A r \in Request : requests[r].at \in Transferring =>
    [name |-> PrinterOf[r], connection |-> requests[r].target] \in registry

\* http.rs:66: the table of locks, which nothing shrinks, holds names of printers
\* only; requests for other names do not grow it.
LocksArePrinters ==
  \A name \in DOMAIN printer_locks :
    \E table \in registry : table.name = name /\ table.connection \in Registrable

\* http.rs:91: a caller that waits for its turn and stays gets an answer, whatever
\* other transfers fail and other callers leave.
CallersAreAnswered ==
  \A r \in Request : At(r, "resolved") ~> requests[r].caller # "waiting"
=============================================================================
