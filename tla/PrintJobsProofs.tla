--------------------------- MODULE PrintJobsProofs ---------------------------
(***************************************************************************)
(* Theorems about PrintJobs, for any names, connections and requests.      *)
(***************************************************************************)
EXTENDS PrintJobs, TLAPS

-----------------------------------------------------------------------------
(* The inductive invariant.                                                *)

Awaiting == {"resolved", "queued"} \union Transferring
TargetTable(r) == [name |-> PrinterOf[r], connection |-> requests[r].target]

\* A lock is held by a request for its name that is transferring or about to.
HoldersInv ==
  /\ \A r \in Request : requests[r].at \in Transferring =>
       LockOf(r) \in DOMAIN printer_locks /\ Holds(r)
  /\ \A r \in Request : At(r, "queued") => LockOf(r) \in DOMAIN printer_locks
  /\ \A name \in DOMAIN printer_locks : \A r \in Request :
       printer_locks[name].holder = r =>
         LockOf(r) = name /\ requests[r].at \in {"queued"} \union Transferring

TargetsInv ==
  \A r \in Request : requests[r].at \in Awaiting =>
    TargetTable(r) \in registry /\ requests[r].target \in Registrable

PInv == PrintTypeOK /\ HoldersInv /\ TargetsInv /\ LocksArePrinters

-----------------------------------------------------------------------------
LEMMA Constants ==
  /\ PrinterOf \in [Request -> Name] /\ Usb \subseteq Registrable
  /\ Registrable \subseteq Connection /\ Connection # {} /\ Free \notin Request /\ MaxPieces \in Nat
BY PrinterOfAssumption, ConnectionAssumption, UsbAssumption, RegistrableAssumption, FreeAssumption, MaxPiecesAssumption

LEMMA InitInvariant == PrintInit => PInv
<1> SUFFICES ASSUME PrintInit PROVE PInv
  OBVIOUS
<1>1. registry \subseteq Table /\ OnePerName(registry)
  BY DEF PrintInit, RegistryInit
<1>2. DOMAIN printer_locks = {}
  BY DEF PrintInit
<1>3. requests \in [Request -> [at : RequestPlaces, target : Connection, ticket : Nat,
                                sent : 0..MaxPieces, caller : {"waiting", "gone", "answered"},
                                job : Seq(Nat)]]
  <2>1. (CHOOSE c \in Connection : TRUE) \in Connection /\ 0 \in 0..MaxPieces
    BY Constants
  <2>2. << >> \in Seq(Nat)
    OBVIOUS
  <2>3. PICK c : /\ c \in Connection
                 /\ requests \in [Request -> [at : {"idle"}, target : {c}, ticket : {0},
                                   sent : {0}, caller : {"waiting"}, job : {<< >>}]]
    BY <2>1 DEF PrintInit
  <2>4. \A r \in Request :
          requests[r] \in [at : RequestPlaces, target : Connection, ticket : Nat, sent : 0..MaxPieces,
                           caller : {"waiting", "gone", "answered"}, job : Seq(Nat)]
    <3> SUFFICES ASSUME NEW r \in Request
                 PROVE  requests[r] \in [at : RequestPlaces, target : Connection, ticket : Nat,
                          sent : 0..MaxPieces, caller : {"waiting", "gone", "answered"},
                          job : Seq(Nat)]
      OBVIOUS
    <3>1. requests[r] \in [at : {"idle"}, target : {c}, ticket : {0},
                           sent : {0}, caller : {"waiting"}, job : {<< >>}]
      BY <2>3
    <3>2. "idle" \in RequestPlaces
      BY DEF RequestPlaces
    <3>3. requests[r] = [at |-> "idle", target |-> c, ticket |-> 0, sent |-> 0,
                         caller |-> "waiting", job |-> << >>]
      BY <3>1
    <3> QED BY <2>1, <2>2, <2>3, <3>2, <3>3
  <2> QED BY <2>3, <2>4
<1>4. \A r \in Request : requests[r].at = "idle"
  BY DEF PrintInit
<1>5. wire \in [Registrable -> Seq(Pieces)] /\ job_sequence \in Nat
  BY DEF PrintInit
<1> QED BY <1>1, <1>2, <1>3, <1>4, <1>5
        DEF PInv, PrintTypeOK, HoldersInv, TargetsInv, LocksArePrinters, At, Transferring, Awaiting

-----------------------------------------------------------------------------
(* Steps.                                                                  *)

RequestRecord == [at : RequestPlaces, target : Connection, ticket : Nat, sent : 0..MaxPieces,
                  caller : {"waiting", "gone", "answered"}, job : Seq(Nat)]

LEMMA ReleaseLemma ==
  ASSUME PInv, NEW r \in Request, Release(r), LockOf(r) \in DOMAIN printer_locks, Holds(r)
  PROVE  /\ DOMAIN printer_locks' = DOMAIN printer_locks
         /\ \A name \in DOMAIN printer_locks :
              printer_locks'[name] \in [holder : Request \union {Free}, tickets : Nat]
         /\ \A name \in DOMAIN printer_locks : name # LockOf(r) =>
              printer_locks'[name] = printer_locks[name]
         /\ \/ printer_locks'[LockOf(r)].holder = Free
            \/ \E next \in Request \ {r} :
                 /\ printer_locks'[LockOf(r)].holder = next
                 /\ At(next, "queued") /\ LockOf(next) = LockOf(r)
<1>1. PICK next \in Waiting(r) \union {Free} :
        printer_locks' = [printer_locks EXCEPT ![LockOf(r)].holder = next]
  BY DEF Release
<1>2. next = Free \/ (next \in Request \ {r} /\ At(next, "queued") /\ LockOf(next) = LockOf(r))
  BY DEF Waiting
<1>3. \A name \in DOMAIN printer_locks :
        printer_locks[name] \in [holder : Request \union {Free}, tickets : Nat]
  BY DEF PInv, PrintTypeOK
<1>4. printer_locks'[LockOf(r)] = [printer_locks[LockOf(r)] EXCEPT !.holder = next]
  BY <1>1
<1>5. printer_locks'[LockOf(r)] \in [holder : Request \union {Free}, tickets : Nat]
  BY <1>2, <1>3, <1>4
<1>6. printer_locks'[LockOf(r)].holder = next
  BY <1>3, <1>4
<1>7. DOMAIN printer_locks' = DOMAIN printer_locks
  BY <1>1
<1>8. \A name \in DOMAIN printer_locks : name # LockOf(r) =>
        printer_locks'[name] = printer_locks[name]
  BY <1>1
<1> QED BY <1>2, <1>3, <1>5, <1>6, <1>7, <1>8

\* A step of one request that leaves the locks alone.
LEMMA QuietStep ==
  ASSUME PInv, NEW r \in Request,
         requests' \in [Request -> RequestRecord],
         \A other \in Request \ {r} : requests'[other] = requests[other],
         UNCHANGED <<registry, printer_locks>>,
         requests'[r].at \in Transferring =>
           requests[r].at \in Transferring \/ (At(r, "queued") /\ Holds(r)),
         requests'[r].at = "queued" => At(r, "queued"),
         LockOf(r) \in DOMAIN printer_locks /\ Holds(r) =>
           requests'[r].at \in {"queued"} \union Transferring,
         requests'[r].at \in Awaiting =>
           \/ requests[r].at \in Awaiting /\ requests'[r].target = requests[r].target
           \/ /\ [name |-> PrinterOf[r], connection |-> requests'[r].target] \in registry
              /\ requests'[r].target \in Registrable,
         job_sequence' \in Nat, wire' \in [Registrable -> Seq(Pieces)]
  PROVE  PInv'
<1>1. PrintTypeOK'
  BY DEF PInv, PrintTypeOK, RequestRecord, OnePerName
<1>2. HoldersInv'
  <2>1. ASSUME NEW o \in Request, requests'[o].at \in Transferring
        PROVE  LockOf(o) \in DOMAIN printer_locks /\ Holds(o)
    BY <2>1 DEF PInv, HoldersInv, At
  <2>2. ASSUME NEW o \in Request, requests'[o].at = "queued"
        PROVE  LockOf(o) \in DOMAIN printer_locks
    BY <2>2 DEF PInv, HoldersInv, At
  <2>3. ASSUME NEW name \in DOMAIN printer_locks, NEW o \in Request,
               printer_locks[name].holder = o
        PROVE  LockOf(o) = name /\ requests'[o].at \in {"queued"} \union Transferring
    BY <2>3 DEF PInv, HoldersInv, Holds
  <2> QED BY <2>1, <2>2, <2>3 DEF HoldersInv, Holds, LockOf, At
<1>3. TargetsInv'
  BY DEF PInv, TargetsInv, TargetTable
<1>4. LocksArePrinters'
  BY DEF PInv, LocksArePrinters
<1> QED BY <1>1, <1>2, <1>3, <1>4 DEF PInv

\* A request that holds its lock ends and hands it over.
LEMMA ReleaseStep ==
  ASSUME PInv, NEW r \in Request,
         requests' \in [Request -> RequestRecord],
         \A other \in Request \ {r} : requests'[other] = requests[other],
         requests'[r].at \in {"left", "transferred", "broken"},
         LockOf(r) \in DOMAIN printer_locks, Holds(r), Release(r),
         UNCHANGED <<registry, job_sequence, wire>>
  PROVE  PInv'
<1>1. /\ DOMAIN printer_locks' = DOMAIN printer_locks
      /\ \A name \in DOMAIN printer_locks :
           printer_locks'[name] \in [holder : Request \union {Free}, tickets : Nat]
      /\ \A name \in DOMAIN printer_locks : name # LockOf(r) =>
           printer_locks'[name] = printer_locks[name]
      /\ \/ printer_locks'[LockOf(r)].holder = Free
         \/ \E next \in Request \ {r} :
              /\ printer_locks'[LockOf(r)].holder = next
              /\ At(next, "queued") /\ LockOf(next) = LockOf(r)
  BY ReleaseLemma
<1>2. PrintTypeOK'
  BY <1>1 DEF PInv, PrintTypeOK, RequestRecord, OnePerName
<1>3. HoldersInv'
  <2>1. ASSUME NEW o \in Request, requests'[o].at \in Transferring
        PROVE  LockOf(o) \in DOMAIN printer_locks /\ printer_locks'[LockOf(o)].holder = o
    <3>1. o # r /\ requests[o].at \in Transferring
      BY <2>1 DEF Transferring
    <3>2. LockOf(o) \in DOMAIN printer_locks /\ Holds(o)
      BY <3>1 DEF PInv, HoldersInv
    <3>3. LockOf(o) # LockOf(r)
      BY <3>1, <3>2 DEF Holds
    <3> QED BY <3>2, <3>3, <1>1 DEF Holds
  <2>2. ASSUME NEW o \in Request, requests'[o].at = "queued"
        PROVE  LockOf(o) \in DOMAIN printer_locks
    BY <2>2 DEF PInv, HoldersInv, At
  <2>3. ASSUME NEW name \in DOMAIN printer_locks, NEW o \in Request,
               printer_locks'[name].holder = o
        PROVE  LockOf(o) = name /\ requests'[o].at \in {"queued"} \union Transferring
    <3>1. CASE name # LockOf(r)
      <4>1. printer_locks[name].holder = o
        BY <1>1, <2>3, <3>1
      <4>2. LockOf(o) = name /\ requests[o].at \in {"queued"} \union Transferring
        BY <4>1 DEF PInv, HoldersInv
      <4>3. o # r
        BY <4>2, <3>1
      <4> QED BY <4>2, <4>3
    <3>2. CASE name = LockOf(r)
      BY <1>1, <2>3, <3>2, Constants DEF At
    <3> QED BY <3>1, <3>2
  <2> QED BY <1>1, <2>1, <2>2, <2>3 DEF HoldersInv, Holds, LockOf, At
<1>4. TargetsInv'
  BY DEF PInv, TargetsInv, TargetTable, Awaiting, Transferring
<1>5. LocksArePrinters'
  BY <1>1 DEF PInv, LocksArePrinters
<1> QED BY <1>2, <1>3, <1>4, <1>5 DEF PInv

LEMMA RegisterStep == ASSUME PInv, RegisterPrinter PROVE PInv'
<1>1. PICK name \in Name, connection \in Registrable : Register(name, connection)
  BY DEF RegisterPrinter, RegistryNext
<1>2. /\ registry' = registry \union {[name |-> name, connection |-> connection]}
      /\ name \notin NamesOf(registry)
  BY <1>1 DEF Register
<1>3. UNCHANGED <<requests, printer_locks, job_sequence, wire>>
  BY DEF RegisterPrinter
<1>4. registry' \subseteq Table /\ OnePerName(registry')
  BY <1>2, Constants DEF PInv, PrintTypeOK, Table, OnePerName, NamesOf
<1>5. PrintTypeOK'
  BY <1>3, <1>4 DEF PInv, PrintTypeOK
<1>6. HoldersInv'
  BY <1>3 DEF PInv, HoldersInv, Holds, At
<1>7. TargetsInv'
  BY <1>2, <1>3 DEF PInv, TargetsInv, TargetTable
<1>8. LocksArePrinters'
  BY <1>2, <1>3 DEF PInv, LocksArePrinters
<1> QED BY <1>5, <1>6, <1>7, <1>8 DEF PInv

\* A request that is waiting for nothing does not hold a lock.
LEMMA HoldsOnlyWhenDue ==
  ASSUME PInv, NEW r \in Request, LockOf(r) \in DOMAIN printer_locks, Holds(r)
  PROVE  requests[r].at \in {"queued"} \union Transferring
BY DEF PInv, HoldersInv, Holds

LEMMA LockStep == ASSUME PInv, NEW r \in Request, Lock(r) PROVE PInv'
<1>1. PICK lock : lock = LockState(LockOf(r))
  OBVIOUS
<1>2. lock \in [holder : Request \union {Free}, tickets : Nat]
  BY <1>1 DEF LockState, PInv, PrintTypeOK
<1>3. PICK state \in [holder : Request \union {Free}, tickets : Nat], place \in {"opening", "queued"} :
        /\ printer_locks' = WithLock(LockOf(r), state)
        /\ state.holder = IF lock.holder = Free THEN r ELSE lock.holder
        /\ place = IF lock.holder = Free THEN "opening" ELSE "queued"
        /\ requests' = [requests EXCEPT ![r].at = place, ![r].ticket = lock.tickets + 1]
  <2>1. /\ printer_locks' = WithLock(LockOf(r),
             [holder |-> IF lock.holder = Free THEN r ELSE lock.holder,
              tickets |-> lock.tickets + 1])
        /\ requests' = [requests EXCEPT
             ![r].at = IF lock.holder = Free THEN "opening" ELSE "queued",
             ![r].ticket = lock.tickets + 1]
    BY <1>1 DEF Lock
  <2>2. [holder |-> IF lock.holder = Free THEN r ELSE lock.holder, tickets |-> lock.tickets + 1]
          \in [holder : Request \union {Free}, tickets : Nat]
    BY <1>2
  <2> QED BY <2>1, <2>2
<1>4. At(r, "resolved") /\ UNCHANGED <<registry, job_sequence, wire>>
  BY DEF Lock
<1>5. LockOf(r) \in Name
  BY Constants DEF LockOf
<1>6. /\ requests' \in [Request -> RequestRecord]
      /\ requests'[r].at = place /\ requests'[r].target = requests[r].target
      /\ \A other \in Request \ {r} : requests'[other] = requests[other]
  <2>1. requests \in [Request -> RequestRecord]
    BY DEF PInv, PrintTypeOK, RequestRecord
  <2>2. lock.tickets + 1 \in Nat /\ place \in RequestPlaces
    BY <1>2 DEF RequestPlaces
  <2>3. requests[r] \in RequestRecord
    BY <2>1
  <2>4. [requests[r] EXCEPT !.at = place, !.ticket = lock.tickets + 1] \in RequestRecord
    BY <2>2, <2>3 DEF RequestRecord
  <2>5. requests' = [requests EXCEPT ![r] =
                       [requests[r] EXCEPT !.at = place, !.ticket = lock.tickets + 1]]
    BY <1>3, <2>1
  <2>6. [requests[r] EXCEPT !.at = place, !.ticket = lock.tickets + 1].at = place
    BY <2>3 DEF RequestRecord
  <2>7. [requests[r] EXCEPT !.at = place, !.ticket = lock.tickets + 1].target = requests[r].target
    BY <2>3 DEF RequestRecord
  <2> QED BY <2>1, <2>4, <2>5, <2>6, <2>7
<1>7. /\ DOMAIN printer_locks' = DOMAIN printer_locks \union {LockOf(r)}
      /\ printer_locks'[LockOf(r)] = state
      /\ \A name \in DOMAIN printer_locks \ {LockOf(r)} : printer_locks'[name] = printer_locks[name]
  BY <1>3 DEF WithLock
<1>8. PrintTypeOK'
  BY <1>4, <1>5, <1>6, <1>7 DEF PInv, PrintTypeOK, RequestRecord, OnePerName
<1>9. HoldersInv'
  <2>1. ASSUME NEW o \in Request, requests'[o].at \in Transferring
        PROVE  LockOf(o) \in DOMAIN printer_locks' /\ printer_locks'[LockOf(o)].holder = o
    <3>1. CASE o = r
      BY <1>3, <1>6, <1>7, <2>1, <3>1 DEF Transferring
    <3>2. CASE o # r
      <4>1. LockOf(o) \in DOMAIN printer_locks /\ printer_locks[LockOf(o)].holder = o
        BY <1>6, <2>1, <3>2 DEF PInv, HoldersInv, Holds
      <4>2. LockOf(o) = LockOf(r) => lock.holder = o /\ o # Free
        BY <1>1, <4>1, Constants DEF LockState
      <4> QED BY <1>3, <1>7, <4>1, <4>2
    <3> QED BY <3>1, <3>2
  <2>2. ASSUME NEW o \in Request, requests'[o].at = "queued"
        PROVE  LockOf(o) \in DOMAIN printer_locks'
    BY <1>6, <1>7, <2>2 DEF PInv, HoldersInv, At
  <2>3. ASSUME NEW name \in DOMAIN printer_locks', NEW o \in Request,
               printer_locks'[name].holder = o
        PROVE  LockOf(o) = name /\ requests'[o].at \in {"queued"} \union Transferring
    <3>1. CASE name # LockOf(r)
      <4>1. name \in DOMAIN printer_locks /\ printer_locks[name].holder = o
        BY <1>7, <2>3, <3>1
      <4>2. LockOf(o) = name /\ requests[o].at \in {"queued"} \union Transferring
        BY <4>1 DEF PInv, HoldersInv
      <4> QED BY <1>6, <3>1, <4>2
    <3>2. CASE name = LockOf(r) /\ lock.holder = Free
      BY <1>3, <1>6, <1>7, <2>3, <3>2 DEF Transferring
    <3>3. CASE name = LockOf(r) /\ lock.holder # Free
      <4>1. LockOf(r) \in DOMAIN printer_locks /\ printer_locks[LockOf(r)].holder = o
        BY <1>1, <1>3, <1>7, <2>3, <3>3 DEF LockState
      <4>2. LockOf(o) = name /\ requests[o].at \in {"queued"} \union Transferring
        BY <3>3, <4>1 DEF PInv, HoldersInv
      <4>3. o # r
        BY <4>2, <1>4 DEF At, Transferring
      <4> QED BY <1>6, <4>2, <4>3
    <3> QED BY <3>1, <3>2, <3>3
  <2> QED BY <2>1, <2>2, <2>3 DEF HoldersInv, Holds, LockOf, At
<1>10. TargetsInv'
  BY <1>4, <1>6 DEF PInv, TargetsInv, TargetTable, Awaiting, At
<1>11. LocksArePrinters'
  <2>1. TargetTable(r) \in registry /\ requests[r].target \in Registrable
    BY <1>4 DEF PInv, TargetsInv, Awaiting, At
  <2> QED BY <1>4, <1>7, <2>1 DEF PInv, LocksArePrinters, TargetTable, LockOf
<1> QED BY <1>8, <1>9, <1>10, <1>11 DEF PInv

LEMMA Types == PInv => requests \in [Request -> RequestRecord]
BY DEF PInv, PrintTypeOK, RequestRecord

\* One request changes its place, its target, its caller or its answer.
LEMMA RequestChange ==
  ASSUME requests \in [Request -> RequestRecord], NEW r \in Request,
         NEW new \in RequestRecord, requests' = [requests EXCEPT ![r] = new]
  PROVE  /\ requests' \in [Request -> RequestRecord]
         /\ requests'[r] = new
         /\ \A other \in Request \ {r} : requests'[other] = requests[other]
OBVIOUS

LEMMA StepInvariant == ASSUME PInv, [PrintNext]_printVars PROVE PInv'
<1> DEFINE Sameness(r) == \A other \in Request \ {r} : requests'[other] = requests[other]
<1>0. requests \in [Request -> RequestRecord] /\ job_sequence \in Nat
      /\ wire \in [Registrable -> Seq(Pieces)]
  BY Types DEF PInv, PrintTypeOK
<1>1. ASSUME NEW r \in Request, ResolveTarget(r) PROVE PInv'
  <2>1. PICK table \in Targets(r) :
          requests' = [requests EXCEPT ![r].at = "resolved", ![r].target = table.connection]
    BY <1>1 DEF ResolveTarget
  <2>2. table \in registry /\ table \in Table /\ table.name = PrinterOf[r]
        /\ table.connection \in Registrable
    BY <2>1 DEF Targets, PInv, PrintTypeOK
  <2>3. table.connection \in Connection
        /\ table = [name |-> PrinterOf[r], connection |-> table.connection]
    BY <2>2, Constants DEF Table
  <2>4. /\ requests' \in [Request -> RequestRecord] /\ Sameness(r)
        /\ requests'[r].at = "resolved" /\ requests'[r].target = table.connection
    BY <1>0, <2>1, <2>3 DEF RequestRecord, RequestPlaces
  <2>5. At(r, "idle") /\ UNCHANGED <<registry, printer_locks, job_sequence, wire>>
    BY <1>1 DEF ResolveTarget
  <2>6. ~(LockOf(r) \in DOMAIN printer_locks /\ Holds(r))
    BY <2>5, HoldsOnlyWhenDue DEF At, Transferring
  <2> HIDE DEF Sameness
  <2> QED BY <1>0, <2>2, <2>3, <2>4, <2>5, <2>6, QuietStep DEF Transferring, Sameness
<1>2. ASSUME NEW r \in Request, RefuseTarget(r) PROVE PInv'
  <2>1. /\ requests' \in [Request -> RequestRecord] /\ Sameness(r)
        /\ requests'[r].at = "refused"
    BY <1>0, <1>2 DEF RefuseTarget, RequestRecord, RequestPlaces
  <2>2. At(r, "idle") /\ UNCHANGED <<registry, printer_locks, job_sequence, wire>>
    BY <1>2 DEF RefuseTarget
  <2>3. ~(LockOf(r) \in DOMAIN printer_locks /\ Holds(r))
    BY <2>2, HoldsOnlyWhenDue DEF At, Transferring
  <2> QED BY <1>0, <2>1, <2>2, <2>3, QuietStep DEF Transferring, Awaiting
<1>3. ASSUME NEW r \in Request, Lock(r) PROVE PInv'
  BY <1>3, LockStep
<1>4. ASSUME NEW r \in Request, Spawn(r) PROVE PInv'
  <2>1. /\ requests' \in [Request -> RequestRecord] /\ Sameness(r)
        /\ requests'[r].at = "opening" /\ requests'[r].target = requests[r].target
    BY <1>0, <1>4 DEF Spawn, Moved, RequestRecord, RequestPlaces
  <2>2. At(r, "queued") /\ Holds(r) /\ UNCHANGED <<registry, printer_locks, job_sequence, wire>>
    BY <1>4 DEF Spawn
  <2> QED BY <1>0, <2>1, <2>2, QuietStep DEF Transferring, Awaiting, At
<1>5. ASSUME NEW r \in Request, Open(r) PROVE PInv'
  <2>1. /\ requests' \in [Request -> RequestRecord] /\ Sameness(r)
        /\ requests'[r].at = "sending" /\ requests'[r].target = requests[r].target
    BY <1>0, <1>5 DEF Open, Moved, RequestRecord, RequestPlaces
  <2>2. At(r, "opening") /\ UNCHANGED <<registry, printer_locks, job_sequence, wire>>
    BY <1>5 DEF Open
  <2> QED BY <1>0, <2>1, <2>2, QuietStep DEF Transferring, Awaiting, At
<1>6. ASSUME NEW r \in Request, SendPiece(r) PROVE PInv'
  <2>1. requests[r].sent + 1 \in 1..MaxPieces /\ At(r, "sending")
    BY <1>0, <1>6, Constants DEF SendPiece, PiecesLeft, RequestRecord
  <2>2. /\ requests' \in [Request -> RequestRecord] /\ Sameness(r)
        /\ requests'[r].at = requests[r].at /\ requests'[r].target = requests[r].target
    <3>1. requests[r] \in RequestRecord
      BY <1>0
    <3>2. [requests[r] EXCEPT !.sent = @ + 1] \in RequestRecord
      <4>1. requests[r].sent + 1 \in 0..MaxPieces
        BY <2>1, Constants
      <4>2. PICK number \in 0..MaxPieces : number = requests[r].sent + 1
        BY <4>1
      <4>3. [requests[r] EXCEPT !.sent = number] \in RequestRecord
        BY <3>1 DEF RequestRecord
      <4> QED BY <4>2, <4>3
    <3>3. requests' = [requests EXCEPT ![r] = [requests[r] EXCEPT !.sent = @ + 1]]
      BY <1>0, <1>6 DEF SendPiece
    <3>4. /\ [requests[r] EXCEPT !.sent = @ + 1].at = requests[r].at
          /\ [requests[r] EXCEPT !.sent = @ + 1].target = requests[r].target
      BY <3>1 DEF RequestRecord
    <3> QED BY <1>0, <3>2, <3>3, <3>4, RequestChange
  <2>3. requests[r].target \in Registrable
    BY <2>1 DEF PInv, TargetsInv, Awaiting, Transferring, At
  <2>4. Piece(r, requests[r].sent + 1) \in Pieces
    BY <2>1 DEF Piece, Pieces
  <2>5. wire' \in [Registrable -> Seq(Pieces)]
    BY <1>0, <1>6, <2>3, <2>4 DEF SendPiece
  <2>6. UNCHANGED <<registry, printer_locks, job_sequence>>
    BY <1>6 DEF SendPiece
  <2> QED BY <1>0, <2>1, <2>2, <2>5, <2>6, QuietStep DEF Transferring, Awaiting, At
<1>7. ASSUME NEW r \in Request, Complete(r) \/ Break(r) PROVE PInv'
  <2>1. /\ requests' \in [Request -> RequestRecord] /\ Sameness(r)
        /\ requests'[r].at \in {"transferred", "broken"}
    <3>1. PICK place \in {"transferred", "broken"} : requests' = [requests EXCEPT ![r].at = place]
      BY <1>7 DEF Complete, Break, Moved
    <3> QED BY <1>0, <3>1 DEF RequestRecord, RequestPlaces
  <2>2. /\ requests[r].at \in Transferring /\ Release(r)
        /\ UNCHANGED <<registry, job_sequence, wire>>
    BY <1>7 DEF Complete, Break, Transferring, At, ReleaseOnBreak
  <2>3. LockOf(r) \in DOMAIN printer_locks /\ Holds(r)
    BY <2>2 DEF PInv, HoldersInv
  <2> QED BY <2>1, <2>2, <2>3, ReleaseStep
<1>8. ASSUME NEW r \in Request, Answer(r) PROVE PInv'
  <2>1. requests[r].at \in Ended /\ UNCHANGED <<registry, printer_locks, wire>>
    BY <1>8 DEF Answer
  <2>2. job_sequence' \in Nat
    BY <1>0, <1>8 DEF Answer
  <2>3. /\ requests' \in [Request -> RequestRecord] /\ Sameness(r)
        /\ requests'[r].at = requests[r].at
    <3>1. PICK number \in Seq(Nat) :
            requests' = [requests EXCEPT ![r].caller = "answered", ![r].job = number]
      <4>1. requests[r] \in RequestRecord /\ requests[r].job \in Seq(Nat) /\ <<job_sequence>> \in Seq(Nat)
        BY <1>0 DEF RequestRecord
      <4>2. CASE At(r, "transferred")
        BY <1>8, <4>1, <4>2 DEF Answer
      <4>3. CASE ~At(r, "transferred")
        <5>1. requests' = [requests EXCEPT ![r].caller = "answered"]
          BY <1>8, <4>3 DEF Answer
        <5>2. requests' = [requests EXCEPT ![r].caller = "answered", ![r].job = requests[r].job]
          BY <1>0, <4>1, <5>1 DEF RequestRecord
        <5> QED BY <4>1, <5>2
      <4> QED BY <4>2, <4>3
    <3> QED BY <1>0, <3>1 DEF RequestRecord
  <2>4. ~(LockOf(r) \in DOMAIN printer_locks /\ Holds(r))
    BY <2>1, HoldsOnlyWhenDue DEF Ended, Transferring
  <2> QED BY <1>0, <2>1, <2>2, <2>3, <2>4, QuietStep DEF Transferring, Awaiting, Ended
<1>9. ASSUME NEW r \in Request, Disconnect(r) PROVE PInv'
  <2>1. /\ requests' \in [Request -> RequestRecord] /\ Sameness(r)
        /\ requests'[r].at = IF Dropped(r) THEN "left" ELSE requests[r].at
        /\ requests'[r].target = requests[r].target
    <3>1. PICK place \in RequestPlaces :
            /\ place = IF Dropped(r) THEN "left" ELSE requests[r].at
            /\ requests' = [requests EXCEPT ![r].caller = "gone", ![r].at = place]
      BY <1>0, <1>9 DEF Disconnect, RequestRecord, RequestPlaces
    <3> QED BY <1>0, <3>1 DEF RequestRecord
  <2>2. UNCHANGED <<registry, job_sequence, wire>>
    BY <1>9 DEF Disconnect
  <2>3. CASE GuardDropped(r)
    <3>1. LockOf(r) \in DOMAIN printer_locks /\ Holds(r) /\ requests'[r].at = "left"
      BY <2>1, <2>3 DEF GuardDropped, Dropped, PInv, HoldersInv, At
    <3>2. Release(r)
      BY <1>9, <2>3 DEF Disconnect
    <3> QED BY <2>1, <2>2, <3>1, <3>2, ReleaseStep
  <2>4. CASE ~GuardDropped(r)
    <3>1. UNCHANGED printer_locks
      BY <1>9, <2>4 DEF Disconnect
    <3>2. LockOf(r) \in DOMAIN printer_locks /\ Holds(r) => requests[r].at \in Transferring
      BY <2>4, HoldsOnlyWhenDue DEF GuardDropped, At
    <3>3. requests[r].at \in Transferring => ~Dropped(r)
      BY DEF Transferring, Dropped
    <3> QED BY <1>0, <2>1, <2>2, <3>1, <3>2, <3>3, QuietStep
            DEF Transferring, Awaiting, Dropped, At
  <2> QED BY <2>3, <2>4
<1>10. CASE RegisterPrinter
  BY <1>10, RegisterStep
<1>11. CASE UNCHANGED printVars
  BY <1>11 DEF printVars, PInv, PrintTypeOK, HoldersInv, TargetsInv, LocksArePrinters, Holds, At,
     TargetTable, OnePerName
<1> QED BY <1>1, <1>2, <1>3, <1>4, <1>5, <1>6, <1>7, <1>8, <1>9, <1>10, <1>11
        DEF PrintNext, RequestStep

THEOREM PrintInvariant == PrintSpec => []PInv
BY InitInvariant, StepInvariant, PTL DEF PrintSpec

\* The state keeps its types, and every printer its name (printing/http.rs).
THEOREM PrintTypeCorrect == PrintSpec => []PrintTypeOK
BY PrintInvariant, PTL DEF PInv

\* A transfer holds the lock of its name for as long as it runs, whoever leaves.
THEOREM TransfersHoldTheLock == PrintSpec => []GuardCoversTransfer
<1>1. PInv => GuardCoversTransfer
  BY DEF PInv, HoldersInv, GuardCoversTransfer
<1> QED BY <1>1, PrintInvariant, PTL

\* The target resolved before the lock is still the registered one.
THEOREM TargetsAreCurrent == PrintSpec => []TargetStaysCurrent
<1>1. PInv => TargetStaysCurrent
  BY DEF PInv, TargetsInv, TargetStaysCurrent, TargetTable, Awaiting
<1> QED BY <1>1, PrintInvariant, PTL

\* The table of locks never outgrows the registered printers.
THEOREM LocksAreBounded == PrintSpec => []LocksArePrinters
<1>1. PInv => LocksArePrinters
  BY DEF PInv
<1> QED BY <1>1, PrintInvariant, PTL

-----------------------------------------------------------------------------
(* What the printers are handed.                                           *)

Started == {"sending"} \union Ended

LastIsSenders(endpoint) ==
  \A r \in Request :
    At(r, "sending") /\ requests[r].target = endpoint /\ requests[r].sent > 0 =>
      wire[endpoint] # << >> /\ wire[endpoint][Len(wire[endpoint])].request = r

\* A transfer counts its pieces; a USB printer has one at a time; on a printer
\* with a sole name, the last piece is that of the transfer under way.
WireInv ==
  /\ \A r \in Request : requests[r].at \notin Started => requests[r].sent = 0
  /\ \A endpoint \in Registrable : \A i \in DOMAIN wire[endpoint] :
       wire[endpoint][i].number <= requests[wire[endpoint][i].request].sent
  /\ \A one, other \in Request :
       /\ At(one, "sending") /\ At(other, "sending")
       /\ requests[one].target = requests[other].target /\ requests[one].target \in Usb
       => one = other
  /\ \A endpoint \in Registrable :
       Sole(endpoint) => Contiguous(wire[endpoint]) /\ LastIsSenders(endpoint)

LEMMA PieceOfRequest ==
  ASSUME PInv, NEW endpoint \in Registrable, NEW i \in DOMAIN wire[endpoint]
  PROVE  /\ wire[endpoint][i] \in Pieces
         /\ wire[endpoint][i].request \in Request /\ wire[endpoint][i].number \in 1..MaxPieces
<1>1. PICK pieces \in Seq(Pieces) : pieces = wire[endpoint]
  BY DEF PInv, PrintTypeOK
<1>2. pieces[i] \in Pieces
  BY <1>1
<1> QED BY <1>1, <1>2 DEF Pieces

LEMMA ContiguousAppend ==
  ASSUME NEW pieces \in Seq(Pieces), NEW piece \in Pieces, Contiguous(pieces),
         \A i \in DOMAIN pieces : pieces[i].request = piece.request =>
           /\ pieces[i].number < piece.number
           /\ pieces[Len(pieces)].request = piece.request
  PROVE  Contiguous(Append(pieces, piece))
<1> DEFINE longer == Append(pieces, piece)
<1>1. /\ DOMAIN pieces = 1..Len(pieces) /\ Len(pieces) \in Nat
      /\ DOMAIN longer = 1..(Len(pieces) + 1)
      /\ \A i \in 1..Len(pieces) : longer[i] = pieces[i]
      /\ longer[Len(pieces) + 1] = piece
  OBVIOUS
<1> HIDE DEF longer
<1> SUFFICES ASSUME NEW i \in DOMAIN longer, NEW k \in DOMAIN longer, i < k,
                    longer[i].request = longer[k].request
             PROVE  /\ longer[i].number < longer[k].number
                    /\ \A j \in i..k : longer[j].request = longer[i].request
  BY DEF Contiguous, longer
<1>2. CASE k <= Len(pieces)
  BY <1>1, <1>2 DEF Contiguous
<1>3. CASE k = Len(pieces) + 1
  <2>1. i \in 1..Len(pieces) /\ pieces[i].request = piece.request
    BY <1>1, <1>3
  <2>2. pieces[i].number < piece.number /\ pieces[Len(pieces)].request = piece.request
    BY <1>1, <2>1
  <2>3. ASSUME NEW j \in i..Len(pieces) PROVE pieces[j].request = pieces[i].request
    <3>1. CASE i = Len(pieces)
      BY <1>1, <2>1, <3>1
    <3>2. CASE i < Len(pieces)
      BY <1>1, <2>1, <2>2, <3>2 DEF Contiguous
    <3> QED BY <1>1, <2>1, <3>1, <3>2
  <2>4. \A j \in i..k : longer[j].request = longer[i].request
    BY <1>1, <1>3, <2>1, <2>3
  <2> QED BY <1>1, <1>3, <2>1, <2>2, <2>4
<1> QED BY <1>1, <1>2, <1>3

\* On a printer with a sole name, or on USB, one transfer runs at a time.
LEMMA OneSender ==
  ASSUME PInv, WireInv, NEW one \in Request, NEW other \in Request,
         At(one, "sending"), At(other, "sending"),
         requests[one].target = requests[other].target, Sole(requests[one].target)
  PROVE  one = other
<1>1. CASE requests[one].target \in Usb
  BY <1>1 DEF WireInv
<1>2. CASE requests[one].target \notin Usb
  <2>1. TargetTable(one) \in registry /\ TargetTable(other) \in registry
    BY DEF PInv, TargetsInv, Awaiting, Transferring, At
  <2>2. TargetTable(one) = TargetTable(other)
    BY <1>2, <2>1 DEF Sole, TargetTable
  <2>3. LockOf(one) = LockOf(other)
    BY <2>2 DEF TargetTable, LockOf
  <2>4. Holds(one) /\ Holds(other)
    BY DEF PInv, HoldersInv, Transferring, At
  <2> QED BY <2>3, <2>4 DEF Holds
<1> QED BY <1>1, <1>2

\* A step that hands over no piece.
LEMMA WireKept ==
  ASSUME PInv, WireInv, UNCHANGED wire, registry \subseteq registry',
         \A r \in Request : requests'[r].sent = requests[r].sent,
         \A r \in Request : requests'[r].at \notin Started => requests[r].at \notin Started,
         \A r \in Request : requests'[r].at = "sending" =>
           /\ requests'[r].target = requests[r].target
           /\ At(r, "sending") \/ (At(r, "opening") /\ ~Claimed(requests[r].target)),
         \A one, other \in Request :
           requests'[one] # requests[one] /\ requests'[other] # requests[other] => one = other
  PROVE  WireInv'
<1>1. \A r \in Request : requests'[r].at \notin Started => requests'[r].sent = 0
  BY DEF WireInv
<1>2. \A endpoint \in Registrable : \A i \in DOMAIN wire[endpoint] :
        wire[endpoint][i].number <= requests'[wire[endpoint][i].request].sent
  <2>1. ASSUME NEW endpoint \in Registrable, NEW i \in DOMAIN wire[endpoint]
        PROVE  wire[endpoint][i].request \in Request
    BY PieceOfRequest
  <2> QED BY <2>1 DEF WireInv
<1>3. ASSUME NEW one \in Request, NEW other \in Request,
             requests'[one].at = "sending", requests'[other].at = "sending",
             requests'[one].target = requests'[other].target, requests'[one].target \in Usb
      PROVE  one = other
  <2>1. CASE At(one, "sending") /\ At(other, "sending")
    BY <1>3, <2>1 DEF WireInv
  <2>2. CASE ~At(one, "sending") \/ ~At(other, "sending")
    BY <1>3, <2>2 DEF Claimed, At
  <2> QED BY <2>1, <2>2
<1>4. ASSUME NEW endpoint \in Registrable, Sole(endpoint)'
      PROVE  Contiguous(wire[endpoint]) /\ LastIsSenders(endpoint)'
  <2>1. Sole(endpoint)
    BY <1>4 DEF Sole
  <2>2. Contiguous(wire[endpoint]) /\ LastIsSenders(endpoint)
    BY <2>1 DEF WireInv
  <2>3. ASSUME NEW r \in Request, requests'[r].at = "sending", requests'[r].sent > 0,
               requests'[r].target = endpoint
        PROVE  wire[endpoint] # << >> /\ wire[endpoint][Len(wire[endpoint])].request = r
    <3>1. At(r, "sending")
      BY <2>3 DEF WireInv, At, Started, Ended
    <3> QED BY <2>2, <2>3, <3>1 DEF LastIsSenders
  <2> QED BY <2>2, <2>3 DEF LastIsSenders, At
<1> QED BY <1>1, <1>2, <1>3, <1>4 DEF WireInv, At

LEMMA SendStep == ASSUME PInv, WireInv, NEW r \in Request, SendPiece(r) PROVE WireInv'
<1> DEFINE endpoint == requests[r].target
           piece == Piece(r, requests[r].sent + 1)
<1>1. /\ At(r, "sending") /\ requests[r].sent < MaxPieces
      /\ UNCHANGED registry
      /\ wire' = [wire EXCEPT ![endpoint] = Append(@, piece)]
  BY DEF SendPiece, PiecesLeft
<1>2. endpoint \in Registrable
  BY <1>1 DEF PInv, TargetsInv, Awaiting, Transferring, At
<1>3. /\ requests \in [Request -> RequestRecord] /\ requests[r].sent \in Nat
      /\ requests[r].sent + 1 \in 1..MaxPieces
  BY <1>1, Types, Constants DEF RequestRecord
<1>4. /\ \A o \in Request : requests'[o].at = requests[o].at /\ requests'[o].target = requests[o].target
      /\ requests'[r].sent = requests[r].sent + 1
      /\ \A o \in Request \ {r} : requests'[o].sent = requests[o].sent
  BY <1>3 DEF SendPiece, RequestRecord
<1>5. wire[endpoint] \in Seq(Pieces) /\ piece \in Pieces
      /\ piece.request = r /\ piece.number = requests[r].sent + 1
  BY <1>2, <1>3 DEF PInv, PrintTypeOK, Piece, Pieces
<1>6. /\ wire'[endpoint] = Append(wire[endpoint], piece)
      /\ \A other \in Registrable \ {endpoint} : wire'[other] = wire[other]
  BY <1>1, <1>2 DEF PInv, PrintTypeOK
<1> HIDE DEF piece
<1>7. \A o \in Request : requests'[o].at \notin Started => requests'[o].sent = 0
  BY <1>1, <1>4 DEF WireInv, Started, At
<1>8. ASSUME NEW other \in Registrable, NEW i \in DOMAIN wire'[other]
      PROVE  wire'[other][i].number <= requests'[wire'[other][i].request].sent
  <2>1. CASE other = endpoint /\ i = Len(wire[endpoint]) + 1
    BY <1>3, <1>4, <1>5, <1>6, <2>1
  <2>2. CASE ~(other = endpoint /\ i = Len(wire[endpoint]) + 1)
    <3>1. i \in DOMAIN wire[other] /\ wire'[other][i] = wire[other][i]
      BY <1>5, <1>6, <1>8, <2>2
    <3>2. /\ wire[other][i].request \in Request /\ wire[other][i].number \in 1..MaxPieces
          /\ wire[other][i].number <= requests[wire[other][i].request].sent
      BY <3>1, PieceOfRequest DEF WireInv
    <3> QED BY <1>3, <1>4, <3>1, <3>2, Constants
  <2> QED BY <2>1, <2>2
<1>9. \A one, other \in Request :
        /\ requests'[one].at = "sending" /\ requests'[other].at = "sending"
        /\ requests'[one].target = requests'[other].target /\ requests'[one].target \in Usb
        => one = other
  BY <1>4 DEF WireInv, At
<1>10. ASSUME NEW other \in Registrable, Sole(other)
       PROVE  Contiguous(wire'[other]) /\ LastIsSenders(other)'
  <2>1. Contiguous(wire[other]) /\ LastIsSenders(other)
    BY <1>10 DEF WireInv
  <2>2. CASE other # endpoint
    BY <1>4, <1>6, <2>1, <2>2 DEF LastIsSenders, At
  <2>3. CASE other = endpoint
    <3>1. ASSUME NEW i \in DOMAIN wire[endpoint], wire[endpoint][i].request = piece.request
          PROVE  /\ wire[endpoint][i].number < piece.number
                 /\ wire[endpoint][Len(wire[endpoint])].request = piece.request
      <4>1. wire[endpoint][i].number \in 1..MaxPieces
            /\ wire[endpoint][i].number <= requests[r].sent
        BY <1>2, <1>5, <3>1, PieceOfRequest DEF WireInv
      <4>2. requests[r].sent > 0
        BY <1>3, <4>1, Constants
      <4>3. wire[endpoint][Len(wire[endpoint])].request = r
        BY <1>1, <2>1, <2>3, <4>2 DEF LastIsSenders
      <4> QED BY <1>3, <1>5, <4>1, <4>3, Constants
    <3>2. Contiguous(wire'[endpoint])
      BY <1>5, <1>6, <2>1, <2>3, <3>1, ContiguousAppend
    <3>3. ASSUME NEW o \in Request, requests'[o].at = "sending", requests'[o].target = endpoint
          PROVE  wire'[endpoint] # << >> /\ wire'[endpoint][Len(wire'[endpoint])].request = o
      <4>1. o = r
        BY <1>1, <1>4, <1>10, <2>3, <3>3, OneSender DEF At
      <4>2. /\ Len(wire'[endpoint]) = Len(wire[endpoint]) + 1
            /\ wire'[endpoint][Len(wire[endpoint]) + 1] = piece /\ wire'[endpoint] # << >>
        BY <1>5, <1>6
      <4> QED BY <1>5, <4>1, <4>2
    <3> QED BY <1>4, <2>3, <3>2, <3>3 DEF LastIsSenders, At
  <2> QED BY <2>2, <2>3
<1> HIDE DEF endpoint
<1> QED BY <1>1, <1>7, <1>8, <1>9, <1>10 DEF WireInv, At, Sole

LEMMA WireStep == ASSUME PInv, WireInv, [PrintNext]_printVars PROVE WireInv'
<1>0. requests \in [Request -> RequestRecord]
  BY Types
<1>1. ASSUME NEW r \in Request, SendPiece(r) PROVE WireInv'
  BY <1>1, SendStep
<1>2. ASSUME NEW r \in Request,
             ResolveTarget(r) \/ RefuseTarget(r) \/ Lock(r) \/ Spawn(r) \/ Open(r) \/ Complete(r)
               \/ Break(r) \/ Answer(r) \/ Disconnect(r)
      PROVE  WireInv'
  <2>1. UNCHANGED <<registry, wire>> /\ \A o \in Request \ {r} : requests'[o] = requests[o]
    BY <1>0, <1>2 DEF ResolveTarget, RefuseTarget, Lock, Spawn, Open, Complete, Break, Answer,
       Disconnect, Moved
  <2>2. /\ requests'[r].sent = requests[r].sent
        /\ requests'[r].at \notin Started => requests[r].at \notin Started
        /\ requests'[r].at = "sending" =>
             /\ requests'[r].target = requests[r].target
             /\ At(r, "sending") \/ (At(r, "opening") /\ ~Claimed(requests[r].target))
    <3>1. requests[r] \in RequestRecord
      BY <1>0
    <3>2. CASE ResolveTarget(r) \/ RefuseTarget(r)
      BY <1>0, <3>1, <3>2 DEF ResolveTarget, RefuseTarget, RequestRecord, Started, Ended, At
    <3>3. CASE Lock(r)
      BY <1>0, <3>1, <3>3 DEF Lock, RequestRecord, Started, Ended, At
    <3>4. CASE Spawn(r) \/ Open(r) \/ Complete(r) \/ Break(r)
      BY <1>0, <3>1, <3>4 DEF Spawn, Open, Complete, Break, Moved, RequestRecord, Started, Ended,
         Transferring, At
    <3>5. CASE Answer(r)
      BY <1>0, <3>1, <3>5 DEF Answer, RequestRecord, Started, Ended, At
    <3>6. CASE Disconnect(r)
      BY <1>0, <3>1, <3>6 DEF Disconnect, Dropped, RequestRecord, Started, Ended, At
    <3> QED BY <1>2, <3>2, <3>3, <3>4, <3>5, <3>6
  <2>3. /\ \A o \in Request : requests'[o].sent = requests[o].sent
        /\ \A o \in Request : requests'[o].at \notin Started => requests[o].at \notin Started
    BY <2>1, <2>2
  <2>4. \A o \in Request : requests'[o].at = "sending" =>
           /\ requests'[o].target = requests[o].target
           /\ At(o, "sending") \/ (At(o, "opening") /\ ~Claimed(requests[o].target))
    BY <2>1, <2>2 DEF At
  <2>5. \A one, other \in Request :
          requests'[one] # requests[one] /\ requests'[other] # requests[other] => one = other
    BY <2>1
  <2>6. UNCHANGED wire /\ registry \subseteq registry'
    BY <2>1
  <2> QED BY <2>3, <2>4, <2>5, <2>6, WireKept
<1>3. CASE RegisterPrinter
  <2>1. registry \subseteq registry' /\ UNCHANGED <<requests, wire>>
    BY <1>3 DEF RegisterPrinter, RegistryNext, Register
  <2> QED BY <2>1, WireKept DEF At
<1>4. CASE UNCHANGED printVars
  BY <1>4, WireKept DEF printVars, At
<1> QED BY <1>1, <1>2, <1>3, <1>4 DEF PrintNext, RequestStep

\* Jobs are not mixed on a printer that has one name, or is on USB.
THEOREM JobsAreNotMixed == PrintSpec => []JobsDoNotMix
<1>1. PrintInit => WireInv
  BY DEF PrintInit, WireInv, Contiguous, LastIsSenders, At
<1>2. WireInv => JobsDoNotMix
  BY DEF WireInv, JobsDoNotMix
<1> QED BY <1>1, <1>2, PrintInvariant, WireStep, PTL DEF PrintSpec

-----------------------------------------------------------------------------
(* What an answered job id means.                                          *)

\* Only a complete transfer is answered with an id, by a request whose target is
\* the printer of its name; a printer was handed the first pieces of a request that
\* was sent to it, each after the one before, and nothing of another request.
HandedInv ==
  /\ \A r \in Request : requests[r].job # << >> => At(r, "transferred")
  /\ \A r \in Request : At(r, "transferred") => requests[r].sent = MaxPieces
  /\ \A r \in Request : requests[r].at \in Started =>
       TargetTable(r) \in registry /\ requests[r].target \in Registrable
  /\ \A r \in Request, endpoint \in Registrable :
       /\ Numbers(r, endpoint) =
            IF endpoint = requests[r].target THEN 1..requests[r].sent ELSE {}
       /\ Ordered(r, endpoint)

LEMMA HandedStart == PrintInit => HandedInv
<1> SUFFICES ASSUME PrintInit PROVE HandedInv
  OBVIOUS
<1>1. ASSUME NEW r \in Request
      PROVE  /\ requests[r].at = "idle" /\ requests[r].sent = 0 /\ requests[r].job = << >>
  BY DEF PrintInit
<1>2. ASSUME NEW r \in Request, NEW endpoint \in Registrable
      PROVE  Positions(r, endpoint) = {} /\ Numbers(r, endpoint) = {} /\ 1..0 = {}
  BY DEF PrintInit, Positions, Numbers
<1> QED BY <1>1, <1>2 DEF HandedInv, At, Started, Ended, Ordered

LEMMA HandedKept ==
  ASSUME PInv, HandedInv, UNCHANGED wire, registry \subseteq registry',
         \A r \in Request :
           /\ requests'[r].sent = requests[r].sent
           /\ requests'[r].job # << >> => requests'[r].at = "transferred"
           /\ requests'[r].at = "transferred" => requests[r].sent = MaxPieces
           /\ requests'[r].at \in Started => requests[r].at \in Started \union {"opening"}
           /\ requests'[r].target # requests[r].target =>
                requests'[r].at \notin Started /\ requests[r].sent = 0
  PROVE  HandedInv'
<1>1. ASSUME NEW r \in Request, requests'[r].at \in Started
      PROVE  TargetTable(r)' \in registry' /\ requests'[r].target \in Registrable
  <2>1. requests'[r].target = requests[r].target
    BY <1>1
  <2>2. requests[r].at \in Started \union {"opening"}
    BY <1>1
  <2>3. TargetTable(r) \in registry /\ requests[r].target \in Registrable
    BY <2>2 DEF HandedInv, PInv, TargetsInv, Awaiting, Transferring
  <2> QED BY <2>1, <2>3 DEF TargetTable
<1>2. ASSUME NEW r \in Request, NEW endpoint \in Registrable
      PROVE  Numbers(r, endpoint)' =
               IF endpoint = requests'[r].target THEN 1..requests'[r].sent ELSE {}
  <2>1. Numbers(r, endpoint)' = Numbers(r, endpoint)
    BY DEF Numbers, Positions
  <2>2. requests[r].sent = 0 => 1..requests[r].sent = {}
    OBVIOUS
  <2> QED BY <2>1, <2>2 DEF HandedInv
<1>3. ASSUME NEW r \in Request, NEW endpoint \in Registrable
      PROVE  Ordered(r, endpoint)'
  BY DEF HandedInv, Ordered, Positions
<1> QED BY <1>1, <1>2, <1>3 DEF HandedInv, At

LEMMA HandedPiece == ASSUME PInv, HandedInv, NEW r \in Request, SendPiece(r) PROVE HandedInv'
<1>1. /\ At(r, "sending") /\ requests[r].sent < MaxPieces
      /\ UNCHANGED registry
      /\ wire' = [wire EXCEPT ![requests[r].target] = Append(@, Piece(r, requests[r].sent + 1))]
  BY DEF SendPiece, PiecesLeft
<1>2. PICK endpoint \in Registrable : endpoint = requests[r].target
  BY <1>1 DEF PInv, TargetsInv, Awaiting, Transferring, At
<1>3. /\ requests \in [Request -> RequestRecord] /\ requests[r].sent \in Nat
      /\ requests[r].sent + 1 \in 1..MaxPieces
  BY <1>1, Types, Constants DEF RequestRecord
<1>4. /\ \A o \in Request : /\ requests'[o].at = requests[o].at
                            /\ requests'[o].target = requests[o].target
                            /\ requests'[o].job = requests[o].job
      /\ requests'[r].sent = requests[r].sent + 1
      /\ \A o \in Request \ {r} : requests'[o].sent = requests[o].sent
  BY <1>3 DEF SendPiece, RequestRecord
<1>5. PICK piece \in Pieces, pieces \in Seq(Pieces) :
        /\ piece.request = r /\ piece.number = requests[r].sent + 1
        /\ piece = Piece(r, requests[r].sent + 1) /\ pieces = wire[endpoint]
  <2>1. wire[endpoint] \in Seq(Pieces)
    BY DEF PInv, PrintTypeOK
  <2>2. /\ Piece(r, requests[r].sent + 1) \in Pieces
        /\ Piece(r, requests[r].sent + 1).request = r
        /\ Piece(r, requests[r].sent + 1).number = requests[r].sent + 1
    BY <1>3 DEF Piece, Pieces
  <2> QED BY <2>1, <2>2
<1>6. /\ wire'[endpoint] = Append(pieces, piece)
      /\ \A other \in Registrable \ {endpoint} : wire'[other] = wire[other]
  BY <1>1, <1>2, <1>5 DEF PInv, PrintTypeOK
<1>7. /\ Len(pieces) \in Nat /\ DOMAIN pieces = 1..Len(pieces)
      /\ DOMAIN wire'[endpoint] = 1..(Len(pieces) + 1)
      /\ \A i \in 1..Len(pieces) : wire'[endpoint][i] = pieces[i]
      /\ wire'[endpoint][Len(pieces) + 1] = piece
  BY <1>5, <1>6
<1>8. ASSUME NEW o \in Request, NEW other \in Registrable, o # r \/ other # endpoint
      PROVE  /\ Positions(o, other)' = Positions(o, other)
             /\ \A i \in Positions(o, other) : wire'[other][i] = wire[other][i]
  <2>1. CASE other # endpoint
    BY <1>6, <2>1 DEF Positions
  <2>2. CASE other = endpoint /\ o # r
    BY <1>5, <1>7, <2>2 DEF Positions
  <2> QED BY <1>8, <2>1, <2>2
<1>9. /\ Positions(r, endpoint)' = Positions(r, endpoint) \union {Len(pieces) + 1}
      /\ \A i \in Positions(r, endpoint) :
           wire'[endpoint][i] = pieces[i] /\ i \in 1..Len(pieces)
  BY <1>5, <1>7 DEF Positions
<1>10. Numbers(r, endpoint) = 1..requests[r].sent /\ Ordered(r, endpoint)
  BY <1>2 DEF HandedInv
<1>11. Numbers(r, endpoint)' = 1..requests'[r].sent
  <2>1. Numbers(r, endpoint)' = {wire'[endpoint][i].number : i \in Positions(r, endpoint)'}
    BY <1>4 DEF Numbers
  <2>2. {wire'[endpoint][i].number : i \in Positions(r, endpoint)'}
          = Numbers(r, endpoint) \union {piece.number}
    BY <1>5, <1>7, <1>9 DEF Numbers
  <2>3. (1..requests[r].sent) \union {requests[r].sent + 1} = 1..(requests[r].sent + 1)
    BY <1>3
  <2> QED BY <1>4, <1>5, <1>10, <2>1, <2>2, <2>3
<1>12. Ordered(r, endpoint)'
  <2> SUFFICES ASSUME NEW i \in Positions(r, endpoint)', NEW k \in Positions(r, endpoint)', i < k
               PROVE  wire'[endpoint][i].number < wire'[endpoint][k].number
    BY <1>4 DEF Ordered
  <2>1. i \in Positions(r, endpoint)
    BY <1>7, <1>9
  <2>2. CASE k \in Positions(r, endpoint)
    BY <1>5, <1>9, <1>10, <2>1, <2>2 DEF Ordered
  <2>3. CASE k = Len(pieces) + 1
    <3>1. wire'[endpoint][i].number \in 1..requests[r].sent
      BY <1>5, <1>9, <1>10, <2>1 DEF Numbers
    <3> QED BY <1>3, <1>5, <1>7, <2>3, <3>1
  <2> QED BY <1>9, <2>2, <2>3
<1>13. ASSUME NEW o \in Request, NEW other \in Registrable
       PROVE  /\ Numbers(o, other)' =
                   IF other = requests'[o].target THEN 1..requests'[o].sent ELSE {}
              /\ Ordered(o, other)'
  <2>1. CASE o = r /\ other = endpoint
    <3>1. requests'[o].target = endpoint
      BY <1>2, <1>4, <2>1
    <3> QED BY <1>11, <1>12, <2>1, <3>1 DEF Numbers, Ordered, Positions
  <2>2. CASE o # r \/ other # endpoint
    <3>1. Numbers(o, other)' = Numbers(o, other)
      BY <1>8, <2>2 DEF Numbers
    <3>2. Ordered(o, other)'
      BY <1>8, <2>2 DEF Ordered, HandedInv
    <3>3. other = requests'[o].target => o # r
      BY <1>2, <1>4, <2>2
    <3> QED BY <1>4, <3>1, <3>2, <3>3 DEF HandedInv
  <2> QED BY <2>1, <2>2
<1>14. /\ \A o \in Request : requests'[o].job # << >> => requests'[o].at = "transferred"
       /\ \A o \in Request : requests'[o].at = "transferred" => requests'[o].sent = MaxPieces
  <2>1. requests[r].at # "transferred"
    BY <1>1 DEF At
  <2> QED BY <1>4, <2>1 DEF HandedInv, At
<1>15. \A o \in Request : requests'[o].at \in Started =>
         TargetTable(o)' \in registry' /\ requests'[o].target \in Registrable
  BY <1>1, <1>4 DEF HandedInv, TargetTable
<1> QED BY <1>13, <1>14, <1>15 DEF HandedInv, At

LEMMA HandedStep == ASSUME PInv, WireInv, HandedInv, [PrintNext]_printVars PROVE HandedInv'
<1>0. requests \in [Request -> RequestRecord]
  BY Types
<1>1. ASSUME NEW r \in Request, SendPiece(r) PROVE HandedInv'
  BY <1>1, HandedPiece
<1>2. ASSUME NEW r \in Request,
             ResolveTarget(r) \/ RefuseTarget(r) \/ Lock(r) \/ Spawn(r) \/ Open(r) \/ Complete(r)
               \/ Break(r) \/ Answer(r) \/ Disconnect(r)
      PROVE  HandedInv'
  <2>1. UNCHANGED <<registry, wire>> /\ \A o \in Request \ {r} : requests'[o] = requests[o]
    BY <1>0, <1>2 DEF ResolveTarget, RefuseTarget, Lock, Spawn, Open, Complete, Break, Answer,
       Disconnect, Moved
  <2>2. /\ requests'[r].sent = requests[r].sent
        /\ requests'[r].job # << >> => requests'[r].at = "transferred"
        /\ requests'[r].at = "transferred" => requests[r].sent = MaxPieces
        /\ requests'[r].at \in Started => requests[r].at \in Started \union {"opening"}
        /\ requests'[r].target # requests[r].target =>
             requests'[r].at \notin Started /\ requests[r].sent = 0
    <3>1. requests[r] \in RequestRecord /\ (requests[r].job # << >> => At(r, "transferred"))
          /\ (At(r, "transferred") => requests[r].sent = MaxPieces)
      BY <1>0 DEF HandedInv
    <3>2. CASE ResolveTarget(r) \/ RefuseTarget(r)
      <4>1. requests[r].sent = 0
        BY <3>2 DEF WireInv, ResolveTarget, RefuseTarget, Started, Ended, At
      <4> QED BY <1>0, <3>1, <3>2, <4>1
              DEF ResolveTarget, RefuseTarget, RequestRecord, Started, Ended, At
    <3>3. CASE Lock(r)
      BY <1>0, <3>1, <3>3 DEF Lock, RequestRecord, Started, Ended, At
    <3>4. CASE Spawn(r) \/ Open(r) \/ Complete(r) \/ Break(r)
      BY <1>0, <3>1, <3>4 DEF Spawn, Open, Complete, AllSent, Break, Moved, RequestRecord, Started,
         Ended, Transferring, At
    <3>5. CASE Answer(r)
      BY <1>0, <3>1, <3>5 DEF Answer, RequestRecord, Started, Ended, At
    <3>6. CASE Disconnect(r)
      BY <1>0, <3>1, <3>6 DEF Disconnect, Dropped, RequestRecord, Started, Ended, At
    <3> QED BY <1>2, <3>2, <3>3, <3>4, <3>5, <3>6
  <2>3. UNCHANGED wire /\ registry \subseteq registry'
    BY <2>1
  <2>4. \A o \in Request \ {r} :
          /\ requests'[o].job # << >> => requests'[o].at = "transferred"
          /\ requests'[o].at = "transferred" => requests[o].sent = MaxPieces
    BY <2>1 DEF HandedInv, At
  <2> QED BY <2>1, <2>2, <2>3, <2>4, HandedKept
<1>3. CASE RegisterPrinter \/ UNCHANGED printVars
  <2>1. registry \subseteq registry' /\ UNCHANGED <<requests, wire>>
    BY <1>3 DEF RegisterPrinter, RegistryNext, Register, printVars
  <2> QED BY <2>1, HandedKept DEF HandedInv, At
<1> QED BY <1>1, <1>2, <1>3 DEF PrintNext, RequestStep

\* A job id is answered only for a payload handed over completely, in order and
\* once, to the printer of the name that was asked for, and to no other.
THEOREM AnswersAreKept == PrintSpec => []AnsweredIsPrinted
<1>1. PrintInit => WireInv
  BY DEF PrintInit, WireInv, Contiguous, LastIsSenders, At
<1>2. PInv /\ HandedInv => AnsweredIsPrinted
  <2> SUFFICES ASSUME PInv, HandedInv, NEW r \in Request, requests[r].job # << >>,
                      NEW endpoint \in Registrable
               PROVE  IF [name |-> PrinterOf[r], connection |-> endpoint] \in registry
                      THEN Numbers(r, endpoint) = 1..MaxPieces /\ Ordered(r, endpoint)
                      ELSE Positions(r, endpoint) = {}
    BY DEF AnsweredIsPrinted
  <2>1. /\ requests[r].sent = MaxPieces /\ TargetTable(r) \in registry
    BY DEF HandedInv, Started, Ended, At
  <2>2. [name |-> PrinterOf[r], connection |-> endpoint] \in registry
          <=> endpoint = requests[r].target
    <3>1. ASSUME [name |-> PrinterOf[r], connection |-> endpoint] \in registry
          PROVE  endpoint = requests[r].target
      <4>1. [name |-> PrinterOf[r], connection |-> endpoint] = TargetTable(r)
        BY <2>1, <3>1 DEF PInv, PrintTypeOK, OnePerName, TargetTable
      <4> QED BY <4>1 DEF TargetTable
    <3> QED BY <2>1, <3>1 DEF TargetTable
  <2>3. Numbers(r, endpoint) = {} => Positions(r, endpoint) = {}
    BY DEF Numbers
  <2> QED BY <2>1, <2>2, <2>3 DEF HandedInv
<1> QED BY <1>1, <1>2, HandedStart, HandedStep, PrintInvariant, WireStep, PTL DEF PrintSpec
=============================================================================
