---------------------------- MODULE PrinterConfig ----------------------------
(***************************************************************************)
(* printers.toml as the processes that share it see it (configuration.rs): *)
(* registrations take an advisory lock, read, check, write a temporary     *)
(* file and rename it over the old one; readers take no lock.  One step is *)
(* one file operation.  A process may die between any two of them and is   *)
(* started again, with a process id that may have been used before.        *)
(*                                                                         *)
(* A document is the sequence of its tables, the unit in which it is       *)
(* written and read; formatting and comments stay where they are.          *)
(***************************************************************************)
EXTENDS Naturals, Sequences, FiniteSets, Functions

CONSTANTS
  Name, Connection, Registrable,
  Unrecognized,    \* connections of a transport that parse skips
  Malformed,       \* connections that make parse fail
  InitialDocuments,
  Process, ProcessId,
  Update,          \* the registrations
  ProcessOf,       \* the process each one runs in
  CommandLine,     \* those of `printers add`, which look at the file first
  Reader,          \* the calls of load
  MaxInterruptions, MaxFaults  \* bounds

Table == [name : Name, connection : Connection]
RegistrableTable == [name : Name, connection : Registrable]
Document == Seq(Table)

ASSUME ConnectionAssumption ==
  /\ Registrable \subseteq Connection /\ Unrecognized \subseteq Connection
  /\ Malformed \subseteq Connection
  /\ Registrable \cap (Unrecognized \union Malformed) = {}
ASSUME ProcessOfAssumption ==
  ProcessOf \in [Update -> Process] /\ CommandLine \subseteq Update
ASSUME ConfigBoundsAssumption == MaxInterruptions \in Nat /\ MaxFaults \in Nat

VARIABLES
  files,        \* the contents of every file ever created
  destination,  \* the file printers.toml names, or Missing
  temporaries,  \* the file each temporary name that exists names
  lock,         \* the registration that holds the advisory lock
  processes,    \* process id and TEMPORARY_FILE_SEQUENCE of each process
  updates, loads,
  interruptions, faults,  \* history: crashes and failed removals; I/O errors
  registered    \* history: the tables that were ever in printers.toml

fileVars == <<files, destination, temporaries>>
historyVars == <<interruptions, faults, registered>>
vars == <<fileVars, lock, processes, updates, loads, historyVars>>

-----------------------------------------------------------------------------
(* Documents.                                                              *)

Missing == 0
Unlocked == "unlocked"
ASSUME UnlockedAssumption == Unlocked \notin Update

Tables(document) == Range(document)
Taken(name, document) == \E table \in Tables(document) : table.name = name

\* PrinterConfiguration::parse, which refuses a table written twice, and printer
UniqueNames(document) ==
  \A i, j \in DOMAIN document : document[i].name = document[j].name => i = j
Parses(document) ==
  /\ UniqueNames(document)
  /\ \A table \in Tables(document) : table.connection \notin Malformed
Printers(name, document) ==
  IF Parses(document)
  THEN {table \in Tables(document) : table.name = name /\ table.connection \notin Unrecognized}
  ELSE {}

ASSUME InitialDocumentsAssumption ==
  \A document \in InitialDocuments :
    document \in Document /\ UniqueNames(document)
ContentOf(file) == IF file = Missing THEN <<>> ELSE files[file]
Current == ContentOf(destination)

-----------------------------------------------------------------------------
Places == {"idle", "locking", "reading", "creating", "writing", "removing",
           "returning", "done", "dead"}
Results == {"none", "added", "refused", "failed"}
Finished == {"done", "dead"}

\* The calls between lock() and the return, which releases it.
Locked == {"reading", "creating", "writing", "removing", "returning"}
WithTemporary == {"writing", "removing"}

TemporaryName == [pid : ProcessId, sequence : Nat]

At(u, place) == updates[u].at = place
Ends(u, place, result) ==
  updates' = [updates EXCEPT ![u].at = place, ![u].result = result]

\* The whole new text: the old one with the new table after it.
NewTableOnly(u) == <<updates[u].table>>
Replacement(u) == Append(updates[u].existing, updates[u].table)
Written(u) == files[updates[u].file]

ConfigInit ==
  /\ \/ files = <<>> /\ destination = Missing
     \/ \E document \in InitialDocuments : files = <<document>> /\ destination = 1
  /\ temporaries = << >>
  /\ lock = Unlocked
  /\ processes \in [Process -> [pid : ProcessId, sequence : {0}]]
  /\ updates \in [Update -> [at : {"idle"}, result : {"none"}, existing : {<<>>},
                             table : RegistrableTable, temporary : Range(processes),
                             file : {Missing}]]
  /\ loads \in [Reader -> [at : {"idle"}, name : Name, file : {Missing}, text : {<<>>},
                           configured : {{}}]]
  /\ interruptions = 0 /\ faults = 0
  /\ registered = Tables(Current)

-----------------------------------------------------------------------------
(* A registration: add_printer_table inside mutate_configuration.          *)

\* `printers add` loads the file before it asks for a name, and stops at one it
\* cannot parse or at a name that is configured.  What it saw is not used again.
StoppedEarly(u) ==
  /\ u \in CommandLine
  /\ ~Parses(Current) \/ Printers(updates[u].table.name, Current) # {}

Begin(u) ==
  /\ At(u, "idle")
  /\ IF StoppedEarly(u) THEN Ends(u, "done", "refused") ELSE Ends(u, "locking", "none")
  /\ UNCHANGED <<fileVars, lock, processes, loads, historyVars>>

LockIgnored == TRUE
LockFree == lock = Unlocked

TakeLock(u) ==
  /\ At(u, "locking") /\ LockFree
  /\ lock' = u
  /\ updates' = [updates EXCEPT ![u].at = "reading"]
  /\ UNCHANGED <<fileVars, processes, loads, historyVars>>

\* The file is read under the lock, parsed, and searched for the name: any table
\* of that name counts, of whatever transport.
PrinterTaken(name, document) == Printers(name, document) # {}
RefusedIfConfigured(u) == ~Parses(Current) \/ PrinterTaken(updates[u].table.name, Current)
Refused(u) == ~Parses(Current) \/ Taken(updates[u].table.name, Current)

ReadExisting(u) ==
  /\ At(u, "reading")
  /\ updates' = [updates EXCEPT
       ![u].existing = Current,
       ![u].at = IF Refused(u) THEN "returning" ELSE "creating",
       ![u].result = IF Refused(u) THEN "refused" ELSE "none"]
  /\ UNCHANGED <<fileVars, lock, processes, loads, historyVars>>

\* create_new under a name made of the process id and the counter: a name left
\* by an earlier process with the same id fails the registration.
NextTemporary(u) == processes[ProcessOf[u]]
CountTemporary(u) ==
  processes' = [processes EXCEPT ![ProcessOf[u]].sequence = @ + 1]

Create(u) ==
  /\ At(u, "creating")
  /\ CountTemporary(u)
  /\ NextTemporary(u) \notin DOMAIN temporaries
  /\ files' = Append(files, <<>>)
  /\ temporaries' = [name \in DOMAIN temporaries \union {NextTemporary(u)} |->
       IF name = NextTemporary(u) THEN Len(files) + 1 ELSE temporaries[name]]
  /\ updates' = [updates EXCEPT ![u].at = "writing", ![u].temporary = NextTemporary(u),
                                ![u].file = Len(files) + 1]
  /\ UNCHANGED <<destination, lock, loads, historyVars>>

NameTaken(u) ==
  /\ At(u, "creating")
  /\ CountTemporary(u)
  /\ NextTemporary(u) \in DOMAIN temporaries
  /\ updates' = [updates EXCEPT ![u].at = "removing", ![u].result = "failed",
                                ![u].temporary = NextTemporary(u)]
  /\ UNCHANGED <<fileVars, lock, loads, interruptions, faults, registered>>

AnyLength(u) == TRUE
Complete(u) == Len(Written(u)) = Len(Replacement(u))

WriteTable(u) ==
  /\ At(u, "writing")
  /\ Len(Written(u)) < Len(Replacement(u))
  /\ files' = [files EXCEPT
       ![updates[u].file] = Append(@, Replacement(u)[Len(@) + 1])]
  /\ UNCHANGED <<destination, temporaries, lock, processes, updates, loads, historyVars>>

\* After write_all and sync_all: the permissions, then the rename.
Publish(u) ==
  /\ At(u, "writing") /\ Complete(u)
  /\ updates[u].temporary \in DOMAIN temporaries
  /\ destination' = temporaries[updates[u].temporary]
  /\ temporaries' = Restrict(temporaries, DOMAIN temporaries \ {updates[u].temporary})
  /\ Ends(u, "returning", "added")
  /\ registered' = registered \union Tables(Written(u))
  /\ UNCHANGED <<files, lock, processes, loads, interruptions, faults>>

\* Any call of mutate_configuration or write_atomically may fail; from create_new
\* on, the failure also removes the temporary.  One that fails to open the lock
\* file holds no lock.
OnFailure(u) ==
  CASE At(u, "locking") -> "done"
    [] At(u, "reading") -> "returning"
    [] OTHER -> "removing"

Fail(u) ==
  /\ updates[u].at \in {"locking", "reading", "creating", "writing"}
  /\ faults < MaxFaults
  /\ faults' = faults + 1
  /\ IF At(u, "creating")
     THEN /\ CountTemporary(u)
          /\ updates' = [updates EXCEPT ![u].at = OnFailure(u), ![u].result = "failed",
                                        ![u].temporary = NextTemporary(u)]
     ELSE /\ Ends(u, OnFailure(u), "failed")
          /\ UNCHANGED processes
  /\ UNCHANGED <<fileVars, lock, loads, interruptions, registered>>

\* remove_file; its own failure is ignored.
RemoveTemporary(u) ==
  /\ At(u, "removing")
  /\ updates' = [updates EXCEPT ![u].at = "returning"]
  /\ \/ /\ temporaries' = Restrict(temporaries, DOMAIN temporaries \ {updates[u].temporary})
        /\ UNCHANGED interruptions
     \/ /\ interruptions < MaxInterruptions
        /\ interruptions' = interruptions + 1
        /\ UNCHANGED temporaries
  /\ UNCHANGED <<files, destination, lock, processes, loads, faults,
                 registered>>

\* The lock file is closed when mutate_configuration returns, whatever it returns.
UnlocksOnSuccess(u) == IF updates[u].result = "added" THEN Unlocked ELSE lock
Unlocks(u) == Unlocked

Return(u) ==
  /\ At(u, "returning")
  /\ lock' = Unlocks(u)
  /\ updates' = [updates EXCEPT ![u].at = "done"]
  /\ UNCHANGED <<fileVars, processes, loads, historyVars>>

\* A process dies with its registrations; the system releases its lock, and the
\* temporary of a write under way stays.  The next process counts from 0 again.
Crash(p) ==
  /\ interruptions < MaxInterruptions
  /\ interruptions' = interruptions + 1
  /\ updates' = [u \in Update |->
       IF ProcessOf[u] = p /\ updates[u].at \notin {"idle", "done"}
       THEN [updates[u] EXCEPT !.at = "dead"] ELSE updates[u]]
  /\ lock' = IF lock # Unlocked /\ ProcessOf[lock] = p THEN Unlocked ELSE lock
  /\ \E pid \in ProcessId : processes' = [processes EXCEPT ![p] = [pid |-> pid, sequence |-> 0]]
  /\ UNCHANGED <<fileVars, loads, faults, registered>>

-----------------------------------------------------------------------------
(* load, and the name looked up in what it returns: an open file stays the *)
(* same file while another takes its name.                                 *)

Loaded(text, file) == IF Len(text) = Len(ContentOf(file)) THEN "done" ELSE "reading"
Registered(name) ==
  {table \in registered : table.name = name /\ table.connection \notin Unrecognized}

OpenFile(r) ==
  /\ loads[r].at = "idle"
  /\ loads' = [loads EXCEPT
       ![r].configured = IF Parses(Current) THEN Registered(loads[r].name) ELSE {},
       ![r].file = destination,
       ![r].at = Loaded(<<>>, destination)]
  /\ UNCHANGED <<fileVars, lock, processes, updates, historyVars>>

ReadTable(r) ==
  LET load == loads[r]
      text == Append(load.text, files[load.file][Len(load.text) + 1])
  IN  /\ load.at = "reading"
      /\ loads' = [loads EXCEPT ![r].text = text, ![r].at = Loaded(text, load.file)]
      /\ UNCHANGED <<fileVars, lock, processes, updates, historyVars>>

-----------------------------------------------------------------------------
UpdateStep(u) ==
  \/ TakeLock(u) \/ ReadExisting(u) \/ Create(u) \/ NameTaken(u) \/ WriteTable(u)
  \/ Publish(u) \/ Fail(u) \/ RemoveTemporary(u) \/ Return(u)

ConfigNext ==
  \/ \E u \in Update : Begin(u) \/ UpdateStep(u)
  \/ \E p \in Process : Crash(p)
  \/ \E r \in Reader : OpenFile(r) \/ ReadTable(r)

ConfigSpec == ConfigInit /\ [][ConfigNext]_vars

\* File operations return; the lock goes to a waiting registration once free.
FairConfigSpec == ConfigSpec /\ \A u \in Update : WF_vars(UpdateStep(u))

-----------------------------------------------------------------------------
(* Properties.                                                             *)

\* The types of the variables; a registration has a result exactly when it has
\* nothing left to do but clean up and return.
ConfigTypeOK ==
  /\ files \in Seq(Document)
  /\ destination \in 0..Len(files)
  /\ DOMAIN temporaries \subseteq TemporaryName
  /\ Range(temporaries) \subseteq DOMAIN files
  /\ lock \in Update \union {Unlocked}
  /\ processes \in [Process -> TemporaryName]
  /\ updates \in [Update -> [at : Places, result : Results, existing : Document,
                             table : RegistrableTable, temporary : TemporaryName,
                             file : 0..Len(files)]]
  /\ loads \in [Reader -> [at : {"idle", "reading", "done"}, name : Name,
                           file : 0..Len(files), text : Document,
                           configured : SUBSET Table]]
  /\ \A u \in Update : updates[u].at \in {"removing", "returning", "done"} =>
                         updates[u].result # "none"
  /\ interruptions \in 0..MaxInterruptions /\ faults \in 0..MaxFaults
  /\ registered \subseteq Table

\* configuration.rs: the temporary a registration writes and publishes is a file
\* of its own: no other registration, and no crash before it, has the same name
\* or the same file, and nobody reads or removes it meanwhile.
WriterOwnsTemporary ==
  \A u \in Update : At(u, "writing") =>
    /\ updates[u].temporary \in DOMAIN temporaries
    /\ updates[u].file # destination
    /\ \A name \in DOMAIN temporaries :
         temporaries[name] = updates[u].file <=> name = updates[u].temporary
    /\ \A other \in Update \ {u} : updates[other].at \in WithTemporary =>
         updates[other].temporary # updates[u].temporary

\* add/http.rs answers 201 and `printers add` reports success only for a table
\* that is in the file, and no later registration takes it out again.
AddedIsStored ==
  \A u \in Update : updates[u].result = "added" => updates[u].table \in Tables(Current)

\* configuration.rs:268: a registration never makes a file that loads into one
\* that does not, for instance by writing a name that is there already.
FileStaysLoadable == [][Parses(Current) => Parses(Current)']_vars

\* configuration.rs:150: a reader without the lock sees a complete document: a
\* printer that was configured when it opened the file is found, unchanged.
ConfiguredIsFound ==
  \A r \in Reader : loads[r].at = "done" /\ loads[r].configured # {} =>
    Printers(loads[r].name, loads[r].text) = loads[r].configured

\* ARCHITECTURE.md:262: registrations from any number of processes change the
\* file as PrinterRegistry says: one new name at a time, nothing lost.
Registry == INSTANCE PrinterRegistry WITH registry <- Tables(Current)
ImplementsRegistry == Registry!RegistrySpec

\* configuration.rs:302: a registration that asked for the lock returns or dies
\* with its process, whatever other registrations fail or crash.
RegistrationEnds ==
  \A u \in Update : At(u, "locking") ~> updates[u].at \in Finished
=============================================================================
