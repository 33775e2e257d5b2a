------------------------- MODULE PrinterConfigProofs -------------------------
(***************************************************************************)
(* Theorems about PrinterConfig, for any number of processes, reused       *)
(* process ids, registrations, readers, crashes and faults.                *)
(***************************************************************************)
EXTENDS PrinterConfig, TLAPS

-----------------------------------------------------------------------------
(* The inductive invariant.                                                *)

UpdateRecord(count) ==
  [at : Places, result : Results, existing : Document, table : RegistrableTable,
   temporary : TemporaryName, file : 0..count]
LoadRecord(count) ==
  [at : {"idle", "reading", "done"}, name : Name, file : 0..count, text : Document,
   configured : SUBSET Table]

FileTypes ==
  /\ files \in Seq(Document) /\ destination \in 0..Len(files)
  /\ DOMAIN temporaries \subseteq TemporaryName
  /\ \A name \in DOMAIN temporaries : temporaries[name] \in 1..Len(files)
  /\ registered \subseteq Table
TaskTypes ==
  /\ lock \in Update \union {Unlocked}
  /\ processes \in [Process -> TemporaryName]
  /\ updates \in [Update -> UpdateRecord(Len(files))]
  /\ loads \in [Reader -> LoadRecord(Len(files))]

\* Exactly the registration that has the lock is between lock() and its return.
LockInv == \A u \in Update : updates[u].at \in Locked <=> lock = u

\* Temporary names name different files, none of them printers.toml.
TemporaryInv ==
  /\ \A name \in DOMAIN temporaries : temporaries[name] # destination
  /\ \A one, other \in DOMAIN temporaries : temporaries[one] = temporaries[other] => one = other

\* What a registration read under the lock is still the file's text.
IsFresh(update) ==
  /\ update.existing = Current
  /\ Parses(Current) /\ ~Taken(update.table.name, Current)

IsPrefix(text, document) ==
  Len(text) <= Len(document) /\ \A i \in 1..Len(text) : text[i] = document[i]

\* A writer's file is its own, and holds a first part of the new text.
IsWriting(update) ==
  /\ update.temporary \in DOMAIN temporaries
  /\ temporaries[update.temporary] = update.file
  /\ IsPrefix(files[update.file], Append(update.existing, update.table))

WriterInv ==
  \A u \in Update :
    /\ updates[u].at \in {"creating", "writing"} => IsFresh(updates[u])
    /\ At(u, "writing") => IsWriting(updates[u])

\* A reader has a first part of a file that nobody writes any more.
IsReading(load) ==
  /\ \A u \in Update : At(u, "writing") => updates[u].file # load.file
  /\ IsPrefix(load.text, ContentOf(load.file))
  /\ load.at = "reading" => Len(load.text) < Len(ContentOf(load.file))
  /\ load.at = "done" => Len(load.text) = Len(ContentOf(load.file))
  /\ load.configured # {} => load.configured = Printers(load.name, ContentOf(load.file))

ReaderInv ==
  \A r \in Reader :
    IF loads[r].at = "idle" THEN loads[r].text = <<>> ELSE IsReading(loads[r])

CInv ==
  /\ FileTypes /\ TaskTypes /\ LockInv /\ TemporaryInv /\ WriterInv /\ ReaderInv
  /\ AddedIsStored /\ registered = Tables(Current)

-----------------------------------------------------------------------------
LEMMA Constants ==
  /\ ProcessOf \in [Update -> Process] /\ Unlocked \notin Update
  /\ Registrable \subseteq Connection /\ Registrable \cap (Unrecognized \union Malformed) = {}
BY ProcessOfAssumption, UnlockedAssumption, ConnectionAssumption

LEMMA TablesTyped == ASSUME NEW document \in Document PROVE Tables(document) \subseteq Table
BY DEF Tables, Range, Document

LEMMA InitInvariant == ConfigInit => CInv
<1> SUFFICES ASSUME ConfigInit PROVE CInv
  OBVIOUS
<1>1. files \in Seq(Document) /\ destination \in 0..Len(files)
  <2>1. CASE files = <<>> /\ destination = Missing
    BY <2>1 DEF Missing
  <2>2. CASE \E document \in InitialDocuments : files = <<document>> /\ destination = 1
    <3>1. PICK document \in InitialDocuments : files = <<document>> /\ destination = 1
      BY <2>2
    <3>2. document \in Document
      BY InitialDocumentsAssumption
    <3> QED BY <3>1, <3>2
  <2> QED BY <2>1, <2>2 DEF ConfigInit
<1>2. Current \in Document
  BY <1>1 DEF Current, ContentOf, Missing, Document
<1>3. registered = Tables(Current) /\ registered \subseteq Table
  BY <1>2, TablesTyped DEF ConfigInit
<1>4. DOMAIN temporaries = {} /\ lock = Unlocked
  BY DEF ConfigInit
<1>5. processes \in [Process -> TemporaryName]
  BY DEF ConfigInit, TemporaryName
<1>6. ASSUME NEW u \in Update
      PROVE  /\ updates[u] \in UpdateRecord(Len(files))
             /\ updates[u].at = "idle" /\ updates[u].result = "none"
  <2>1. updates[u] \in [at : {"idle"}, result : {"none"}, existing : {<<>>},
                        table : RegistrableTable, temporary : Range(processes), file : {Missing}]
    BY DEF ConfigInit
  <2>2. Range(processes) \subseteq TemporaryName /\ <<>> \in Document /\ Missing \in 0..Len(files)
    BY <1>1, <1>5 DEF Range, Document, Missing
  <2>3. "idle" \in Places /\ "none" \in Results
    BY DEF Places, Results
  <2>4. /\ updates[u].at = "idle" /\ updates[u].result = "none" /\ updates[u].existing = <<>>
        /\ updates[u].table \in RegistrableTable /\ updates[u].temporary \in TemporaryName
        /\ updates[u].file = Missing
    BY <2>1, <2>2
  <2>5. updates[u] = [at |-> updates[u].at, result |-> updates[u].result,
                      existing |-> updates[u].existing, table |-> updates[u].table,
                      temporary |-> updates[u].temporary, file |-> updates[u].file]
    BY <2>1
  <2> QED BY <2>2, <2>3, <2>4, <2>5 DEF UpdateRecord
<1>7. ASSUME NEW r \in Reader
      PROVE  /\ loads[r] \in LoadRecord(Len(files))
             /\ loads[r].at = "idle" /\ loads[r].text = <<>>
  <2>1. loads[r] \in [at : {"idle"}, name : Name, file : {Missing}, text : {<<>>},
                      configured : {{}}]
    BY DEF ConfigInit
  <2>2. <<>> \in Document /\ Missing \in 0..Len(files)
    BY <1>1 DEF Document, Missing
  <2>3. loads[r] = [at |-> "idle", name |-> loads[r].name, file |-> Missing, text |-> <<>>,
                    configured |-> {}] /\ loads[r].name \in Name
    BY <2>1
  <2> QED BY <2>2, <2>3 DEF LoadRecord
<1>8. /\ updates \in [Update -> UpdateRecord(Len(files))]
      /\ loads \in [Reader -> LoadRecord(Len(files))]
  BY <1>6, <1>7 DEF ConfigInit
<1>9. FileTypes /\ TaskTypes
  BY <1>1, <1>3, <1>4, <1>5, <1>8 DEF FileTypes, TaskTypes
<1> QED BY <1>3, <1>4, <1>6, <1>7, <1>9, Constants
        DEF CInv, LockInv, TemporaryInv, WriterInv, ReaderInv, AddedIsStored, Locked, At

-----------------------------------------------------------------------------
(* Steps that leave every file as it is.                                   *)

LEMMA FilesUntouched ==
  ASSUME CInv, UNCHANGED <<files, destination, registered, loads>>,
         DOMAIN temporaries' \subseteq DOMAIN temporaries,
         \A name \in DOMAIN temporaries' : temporaries'[name] = temporaries[name],
         processes' \in [Process -> TemporaryName],
         updates' \in [Update -> UpdateRecord(Len(files))],
         lock' \in Update \union {Unlocked}, LockInv',
         \A u \in Update : updates'[u].at = "writing" =>
           updates'[u] = updates[u] /\ updates[u].temporary \in DOMAIN temporaries',
         \A u \in Update : updates'[u].at = "creating" =>
           updates'[u] = updates[u] \/ IsFresh(updates'[u]),
         \A u \in Update : updates'[u].result = "added" =>
           updates[u].result = "added" /\ updates'[u].table = updates[u].table
  PROVE  CInv'
<1>1. Current' = Current /\ \A file : ContentOf(file)' = ContentOf(file)
  BY DEF Current, ContentOf
<1>2. FileTypes' /\ TaskTypes'
  BY DEF CInv, FileTypes, TaskTypes
<1>3. TemporaryInv'
  BY DEF CInv, TemporaryInv
<1>4. WriterInv'
  <2>1. ASSUME NEW u \in Update, updates'[u].at \in {"creating", "writing"}
        PROVE  IsFresh(updates'[u])
    BY <2>1 DEF CInv, WriterInv
  <2>2. ASSUME NEW u \in Update, updates'[u].at = "writing"
        PROVE  /\ updates'[u].temporary \in DOMAIN temporaries'
               /\ temporaries'[updates'[u].temporary] = updates'[u].file
               /\ IsPrefix(files[updates'[u].file],
                           Append(updates'[u].existing, updates'[u].table))
    BY <2>2 DEF CInv, WriterInv, IsWriting, At
  <2> QED BY <1>1, <2>1, <2>2 DEF WriterInv, IsFresh, IsWriting, At
<1>5. ReaderInv'
  <2>1. ASSUME NEW u \in Update, updates'[u].at = "writing"
        PROVE  At(u, "writing") /\ updates'[u].file = updates[u].file
    BY <2>1 DEF At
  <2> QED BY <1>1, <2>1 DEF CInv, ReaderInv, IsReading, At
<1>6. AddedIsStored'
  BY <1>1 DEF CInv, AddedIsStored
<1> QED BY <1>1, <1>2, <1>3, <1>4, <1>5, <1>6 DEF CInv

LEMMA UpdateTypes ==
  ASSUME CInv, NEW u \in Update
  PROVE  /\ updates \in [Update -> UpdateRecord(Len(files))]
         /\ updates[u] \in UpdateRecord(Len(files))
         /\ updates[u].at \in Places /\ updates[u].table \in RegistrableTable
         /\ updates[u].file \in 0..Len(files) /\ updates[u].existing \in Document
         /\ processes \in [Process -> TemporaryName] /\ processes[ProcessOf[u]] \in TemporaryName
BY Constants DEF CInv, TaskTypes, UpdateRecord

LEMMA CurrentTyped == ASSUME CInv PROVE Current \in Document
<1>1. files \in Seq(Document) /\ destination \in 0..Len(files)
  BY DEF CInv, FileTypes
<1>2. CASE destination = Missing
  <2>1. << >> \in Document
    BY DEF Document
  <2> QED BY <1>2, <2>1 DEF Current, ContentOf
<1>3. CASE destination # Missing
  <2>1. destination \in 1..Len(files)
    BY <1>1, <1>3 DEF Missing
  <2>2. files[destination] \in Document
    BY <1>1, <2>1
  <2> QED BY <1>3, <2>2 DEF Current, ContentOf
<1> QED BY <1>2, <1>3

\* The registration of a step is the only one that changes.
LEMMA OnlyOne ==
  ASSUME CInv, NEW u \in Update, NEW new \in UpdateRecord(Len(files)),
         updates' = [updates EXCEPT ![u] = new]
  PROVE  /\ updates' \in [Update -> UpdateRecord(Len(files))]
         /\ updates'[u] = new
         /\ \A other \in Update \ {u} : updates'[other] = updates[other]
BY UpdateTypes

LEMMA CountTyped ==
  ASSUME CInv, NEW u \in Update, CountTemporary(u)
  PROVE  processes' \in [Process -> TemporaryName]
<1>1. processes[ProcessOf[u]] \in TemporaryName /\ processes \in [Process -> TemporaryName]
  BY UpdateTypes
<1>2. [processes[ProcessOf[u]] EXCEPT !.sequence = @ + 1] \in TemporaryName
  BY <1>1 DEF TemporaryName
<1>3. processes' = [processes EXCEPT ![ProcessOf[u]] =
                      [processes[ProcessOf[u]] EXCEPT !.sequence = @ + 1]]
  BY <1>1 DEF CountTemporary
<1> QED BY <1>1, <1>2, <1>3

\* A registration that changes its place but neither starts to write nor adds.
LEMMA PlaceStep ==
  ASSUME CInv, NEW u \in Update, NEW new \in UpdateRecord(Len(files)),
         updates' = [updates EXCEPT ![u] = new],
         UNCHANGED <<files, destination, registered, loads>>,
         DOMAIN temporaries' \subseteq DOMAIN temporaries,
         \A name \in DOMAIN temporaries' : temporaries'[name] = temporaries[name],
         processes' \in [Process -> TemporaryName],
         \/ new.at \in Locked /\ lock' = u /\ lock \in {u, Unlocked}
         \/ new.at \notin Locked /\ lock' = Unlocked /\ lock = u
         \/ new.at \notin Locked /\ updates[u].at \notin Locked /\ UNCHANGED lock,
         new.at # "writing",
         new.at = "creating" => IsFresh(new),
         new.result = "added" => updates[u].result = "added" /\ new.table = updates[u].table,
         updates[u].at \in Locked \/ UNCHANGED temporaries
  PROVE  CInv'
<1>1. /\ updates' \in [Update -> UpdateRecord(Len(files))] /\ updates'[u] = new
      /\ \A other \in Update \ {u} : updates'[other] = updates[other]
  BY OnlyOne
<1>2. LockInv /\ lock \in Update \union {Unlocked}
  BY DEF CInv, TaskTypes
<1>3. LockInv'
  BY <1>1, <1>2, Constants DEF LockInv
<1>4. ASSUME NEW o \in Update, updates'[o].at = "writing"
      PROVE  updates'[o] = updates[o] /\ updates[o].temporary \in DOMAIN temporaries'
  <2>1. o # u /\ updates'[o] = updates[o]
    BY <1>1, <1>4
  <2>2. At(o, "writing") /\ lock = o
    BY <1>2, <1>4, <2>1 DEF LockInv, Locked, At
  <2>3. updates[u].at \notin Locked
    BY <1>2, <2>1, <2>2 DEF LockInv
  <2> QED BY <2>1, <2>2, <2>3 DEF CInv, WriterInv, IsWriting
<1> QED BY <1>1, <1>2, <1>3, <1>4, FilesUntouched

\* The steps that change no file: one registration moves.
LEMMA MoveStep ==
  ASSUME CInv, NEW u \in Update, NEW place \in Places \ {"creating", "writing"},
         NEW result \in Results, NEW temporary \in TemporaryName,
         updates' = [updates EXCEPT ![u] =
           [updates[u] EXCEPT !.at = place, !.result = result, !.temporary = temporary]],
         UNCHANGED <<files, destination, registered, loads>>,
         DOMAIN temporaries' \subseteq DOMAIN temporaries,
         \A name \in DOMAIN temporaries' : temporaries'[name] = temporaries[name],
         processes' \in [Process -> TemporaryName],
         \/ place \in Locked /\ lock' = u /\ lock \in {u, Unlocked}
         \/ place \notin Locked /\ lock' = Unlocked /\ lock = u
         \/ place \notin Locked /\ updates[u].at \notin Locked /\ UNCHANGED lock,
         result = "added" => updates[u].result = "added",
         updates[u].at \in Locked \/ UNCHANGED temporaries
  PROVE  CInv'
<1>1. PICK new \in UpdateRecord(Len(files)) :
        /\ new = [updates[u] EXCEPT !.at = place, !.result = result, !.temporary = temporary]
        /\ new.at = place /\ new.result = result /\ new.table = updates[u].table
  <2>1. updates[u] \in UpdateRecord(Len(files))
    BY UpdateTypes
  <2>2. PICK new :
          new = [updates[u] EXCEPT !.at = place, !.result = result, !.temporary = temporary]
    OBVIOUS
  <2>3. /\ new \in UpdateRecord(Len(files))
        /\ new.at = place /\ new.result = result /\ new.table = updates[u].table
    BY <2>1, <2>2 DEF UpdateRecord
  <2> QED BY <2>2, <2>3, Zenon
<1>2. updates' = [updates EXCEPT ![u] = new]
  BY <1>1
<1> QED BY <1>1, <1>2, PlaceStep

LEMMA Refilled ==
  ASSUME CInv, NEW u \in Update
  PROVE  /\ [updates EXCEPT ![u] = updates[u]] = updates
         /\ updates[u].result \in Results /\ updates[u].temporary \in TemporaryName
         /\ [updates[u] EXCEPT !.result = updates[u].result] = updates[u]
         /\ [updates[u] EXCEPT !.temporary = updates[u].temporary] = updates[u]
<1>1. updates[u] \in UpdateRecord(Len(files)) /\ updates \in [Update -> UpdateRecord(Len(files))]
  BY UpdateTypes
<1> QED BY <1>1 DEF UpdateRecord

\* The three ways in which the actions write a move.
LEMMA Moves ==
  ASSUME CInv, NEW u \in Update, NEW place
  PROVE  /\ [updates EXCEPT ![u].at = place] =
              [updates EXCEPT ![u] = [updates[u] EXCEPT !.at = place,
                 !.result = updates[u].result, !.temporary = updates[u].temporary]]
         /\ \A result : [updates EXCEPT ![u].at = place, ![u].result = result] =
              [updates EXCEPT ![u] = [updates[u] EXCEPT !.at = place,
                 !.result = result, !.temporary = updates[u].temporary]]
         /\ \A result, temporary :
              [updates EXCEPT ![u].at = place, ![u].result = result, ![u].temporary = temporary] =
              [updates EXCEPT ![u] = [updates[u] EXCEPT !.at = place,
                 !.result = result, !.temporary = temporary]]
<1>1. updates[u] \in UpdateRecord(Len(files)) /\ updates \in [Update -> UpdateRecord(Len(files))]
  BY UpdateTypes
<1> QED BY <1>1 DEF UpdateRecord

LEMMA BeginStep == ASSUME CInv, NEW u \in Update, Begin(u) PROVE CInv'
<1>1. PICK place \in {"done", "locking"}, result \in {"refused", "none"} :
        updates' = [updates EXCEPT ![u].at = place, ![u].result = result]
  BY DEF Begin, Ends
<1>2. updates' = [updates EXCEPT ![u] = [updates[u] EXCEPT !.at = place,
                    !.result = result, !.temporary = updates[u].temporary]]
  <2>1. [updates EXCEPT ![u].at = place, ![u].result = result] =
          [updates EXCEPT ![u] = [updates[u] EXCEPT !.at = place,
             !.result = result, !.temporary = updates[u].temporary]]
    BY Moves, Zenon
  <2> QED BY <1>1, <2>1, Zenon
<1>3. UNCHANGED <<fileVars, lock, processes, loads, historyVars>> /\ At(u, "idle")
  BY DEF Begin
<1>4. place \in Places \ {"creating", "writing"} /\ result \in Results /\ place \notin Locked
  BY DEF Places, Results, Locked
<1> QED BY <1>2, <1>3, <1>4, Refilled, MoveStep, UpdateTypes
        DEF fileVars, historyVars, At, Locked

LEMMA TakeLockStep == ASSUME CInv, NEW u \in Update, TakeLock(u) PROVE CInv'
<1>1. updates' = [updates EXCEPT ![u] = [updates[u] EXCEPT !.at = "reading",
                    !.result = updates[u].result, !.temporary = updates[u].temporary]]
  BY Moves DEF TakeLock
<1>2. UNCHANGED <<fileVars, processes, loads, historyVars>> /\ lock = Unlocked /\ lock' = u
  BY DEF TakeLock, LockFree
<1>3. "reading" \in Places \ {"creating", "writing"} /\ "reading" \in Locked
  BY DEF Places, Locked
<1> QED BY <1>1, <1>2, <1>3, Refilled, MoveStep, UpdateTypes DEF fileVars, historyVars

LEMMA NameTakenStep == ASSUME CInv, NEW u \in Update, NameTaken(u) PROVE CInv'
<1>1. updates' = [updates EXCEPT ![u] = [updates[u] EXCEPT !.at = "removing",
                    !.result = "failed", !.temporary = NextTemporary(u)]]
  BY Moves DEF NameTaken
<1>2. UNCHANGED <<fileVars, lock, loads, registered>> /\ At(u, "creating")
  BY DEF NameTaken
<1>3. /\ "removing" \in Places \ {"creating", "writing"} /\ "removing" \in Locked
      /\ "failed" \in Results /\ "creating" \in Locked
  BY DEF Places, Locked, Results
<1>4. lock = u
  BY <1>2, <1>3 DEF CInv, LockInv, At
<1>5. NextTemporary(u) \in TemporaryName
  BY UpdateTypes DEF NextTemporary
<1>6. processes' \in [Process -> TemporaryName]
  BY CountTyped DEF NameTaken
<1> QED BY <1>1, <1>2, <1>3, <1>4, <1>5, <1>6, MoveStep DEF fileVars

LEMMA FailStep == ASSUME CInv, NEW u \in Update, Fail(u) PROVE CInv'
<1>1. PICK place \in {"done", "returning", "removing"}, temporary \in TemporaryName :
        /\ place = OnFailure(u)
        /\ updates' = [updates EXCEPT ![u] = [updates[u] EXCEPT !.at = place,
                         !.result = "failed", !.temporary = temporary]]
        /\ processes' \in [Process -> TemporaryName]
  <2>1. OnFailure(u) \in {"done", "returning", "removing"}
    BY DEF OnFailure
  <2>2. CASE At(u, "creating")
    <3>1. updates' = [updates EXCEPT ![u] = [updates[u] EXCEPT !.at = OnFailure(u),
                        !.result = "failed", !.temporary = NextTemporary(u)]]
      BY <2>2, Moves DEF Fail
    <3>2. processes' \in [Process -> TemporaryName]
      BY <2>2, CountTyped DEF Fail
    <3> QED BY <2>1, <3>1, <3>2, UpdateTypes DEF NextTemporary
  <2>3. CASE ~At(u, "creating")
    <3>1. updates' = [updates EXCEPT ![u].at = OnFailure(u), ![u].result = "failed"]
          /\ UNCHANGED processes
      BY <2>3 DEF Fail, Ends
    <3>2. updates' = [updates EXCEPT ![u] = [updates[u] EXCEPT !.at = OnFailure(u),
                        !.result = "failed", !.temporary = updates[u].temporary]]
      BY <3>1, Moves, Zenon
    <3> QED BY <2>1, <3>1, <3>2, Refilled, UpdateTypes
  <2> QED BY <2>2, <2>3
<1>2. UNCHANGED <<fileVars, lock, loads, registered>>
      /\ updates[u].at \in {"locking", "reading", "creating", "writing"}
  BY DEF Fail
<1>3. place \in Places \ {"creating", "writing"} /\ "failed" \in Results
  BY DEF Places, Results
<1>4. \/ place \in Locked /\ lock = u
      \/ place \notin Locked /\ updates[u].at \notin Locked
  <2>1. CASE At(u, "locking")
    BY <1>1, <2>1 DEF OnFailure, At, Locked
  <2>2. CASE ~At(u, "locking")
    BY <1>1, <1>2, <2>2 DEF OnFailure, At, Locked, CInv, LockInv
  <2> QED BY <2>1, <2>2
<1> QED BY <1>1, <1>2, <1>3, <1>4, MoveStep DEF fileVars

LEMMA ReturnStep == ASSUME CInv, NEW u \in Update, Return(u) PROVE CInv'
<1>1. updates' = [updates EXCEPT ![u] = [updates[u] EXCEPT !.at = "done",
                    !.result = updates[u].result, !.temporary = updates[u].temporary]]
  BY Moves DEF Return
<1>2. UNCHANGED <<fileVars, processes, loads, historyVars>> /\ lock' = Unlocked
      /\ At(u, "returning")
  BY DEF Return, Unlocks
<1>3. "done" \in Places \ {"creating", "writing"} /\ "done" \notin Locked
  BY DEF Places, Locked
<1>4. lock = u
  BY <1>2 DEF CInv, LockInv, At, Locked
<1> QED BY <1>1, <1>2, <1>3, <1>4, Refilled, MoveStep, UpdateTypes DEF fileVars, historyVars

LEMMA RemoveStep == ASSUME CInv, NEW u \in Update, RemoveTemporary(u) PROVE CInv'
<1>1. updates' = [updates EXCEPT ![u] = [updates[u] EXCEPT !.at = "returning",
                    !.result = updates[u].result, !.temporary = updates[u].temporary]]
  BY Moves DEF RemoveTemporary
<1>2. UNCHANGED <<files, destination, lock, processes, loads, registered>>
      /\ At(u, "removing")
  BY DEF RemoveTemporary
<1>3. "returning" \in Places \ {"creating", "writing"} /\ "returning" \in Locked
  BY DEF Places, Locked
<1>4. lock = u
  BY <1>2 DEF CInv, LockInv, At, Locked
<1>5. /\ DOMAIN temporaries' \subseteq DOMAIN temporaries
      /\ \A name \in DOMAIN temporaries' : temporaries'[name] = temporaries[name]
  BY DEF RemoveTemporary, Restrict
<1>6. updates[u].at \in Locked
  BY <1>2 DEF At, Locked
<1> QED BY <1>1, <1>2, <1>3, <1>4, <1>5, <1>6, Refilled, MoveStep, UpdateTypes

\* Reading under the lock: what was read is the file's text until the return.
LEMMA ReadStep == ASSUME CInv, NEW u \in Update, ReadExisting(u) PROVE CInv'
<1>1. PICK place \in {"returning", "creating"}, result \in {"refused", "none"} :
        /\ place = "creating" => ~Refused(u)
        /\ updates' = [updates EXCEPT ![u].existing = Current, ![u].at = place,
                                      ![u].result = result]
  BY DEF ReadExisting
<1>2. /\ UNCHANGED <<fileVars, lock, processes, loads, historyVars>>
      /\ updates[u].at = "reading"
  BY DEF ReadExisting, At
<1>3. /\ updates[u] \in UpdateRecord(Len(files)) /\ updates \in [Update -> UpdateRecord(Len(files))]
      /\ processes \in [Process -> TemporaryName]
  BY UpdateTypes
<1>4. place \in Places /\ result \in Results /\ place \in Locked /\ updates[u].at \in Locked
  BY <1>2 DEF Places, Results, Locked
<1>5. Current \in Document
  BY CurrentTyped
<1>6. PICK new \in UpdateRecord(Len(files)) :
        /\ updates' = [updates EXCEPT ![u] = new] /\ new.existing = Current
        /\ new.at = place /\ new.result = result /\ new.table = updates[u].table
  <2>1. [updates[u] EXCEPT !.existing = Current, !.at = place, !.result = result]
          \in UpdateRecord(Len(files))
    BY <1>3, <1>4, <1>5 DEF UpdateRecord
  <2>2. updates' = [updates EXCEPT ![u] =
          [updates[u] EXCEPT !.existing = Current, !.at = place, !.result = result]]
    BY <1>1, <1>3 DEF UpdateRecord
  <2> QED BY <1>3, <2>1, <2>2 DEF UpdateRecord
<1>7. lock = u
  BY <1>2, <1>4 DEF CInv, LockInv
<1>8. place = "creating" => IsFresh(new)
  BY <1>1, <1>6 DEF IsFresh, Refused
<1>9. new.at # "writing" /\ new.result # "added"
  BY <1>6
<1> QED BY <1>2, <1>3, <1>4, <1>6, <1>7, <1>8, <1>9, PlaceStep DEF fileVars, historyVars

\* A crash: registrations die where they are, the temporaries stay.
LEMMA CrashStep == ASSUME CInv, NEW p \in Process, Crash(p) PROVE CInv'
<1>1. /\ updates \in [Update -> UpdateRecord(Len(files))]
      /\ processes \in [Process -> TemporaryName]
      /\ lock \in Update \union {Unlocked} /\ LockInv
  BY DEF CInv, TaskTypes
<1>2. processes' \in [Process -> TemporaryName]
  <2>1. PICK pid \in ProcessId :
          processes' = [processes EXCEPT ![p] = [pid |-> pid, sequence |-> 0]]
    BY DEF Crash
  <2>2. [pid |-> pid, sequence |-> 0] \in TemporaryName
    BY DEF TemporaryName
  <2> QED BY <1>1, <2>1, <2>2
<1>3. ASSUME NEW u \in Update
      PROVE  /\ updates'[u] \in UpdateRecord(Len(files))
             /\ updates'[u].result = updates[u].result /\ updates'[u].table = updates[u].table
             /\ IF ProcessOf[u] = p /\ updates[u].at \notin {"idle", "done"}
                THEN updates'[u].at = "dead" ELSE updates'[u] = updates[u]
  <2>1. updates[u] \in UpdateRecord(Len(files)) /\ "dead" \in Places
    BY <1>1 DEF Places
  <2>2. updates'[u] = IF ProcessOf[u] = p /\ updates[u].at \notin {"idle", "done"}
                      THEN [updates[u] EXCEPT !.at = "dead"] ELSE updates[u]
    BY DEF Crash
  <2> QED BY <2>1, <2>2 DEF UpdateRecord
<1>4. updates' \in [Update -> UpdateRecord(Len(files))]
  BY <1>3 DEF Crash
<1>5. lock' = IF lock # Unlocked /\ ProcessOf[lock] = p THEN Unlocked ELSE lock
  BY DEF Crash
<1>6. LockInv' /\ lock' \in Update \union {Unlocked}
  <2>1. ASSUME NEW u \in Update PROVE updates'[u].at \in Locked <=> lock' = u
    BY <1>1, <1>3, <1>5, Constants DEF LockInv, Locked
  <2> QED BY <1>1, <1>5, <2>1 DEF LockInv
<1>7. ASSUME NEW u \in Update, updates'[u].at \in {"creating", "writing"}
      PROVE  updates'[u] = updates[u]
  BY <1>3, <1>7
<1>8. ASSUME NEW u \in Update, updates'[u].at = "writing"
      PROVE  updates[u].temporary \in DOMAIN temporaries'
  BY <1>7, <1>8 DEF Crash, fileVars, CInv, WriterInv, IsWriting, At
<1>9. UNCHANGED <<files, destination, temporaries, registered, loads>>
  BY DEF Crash, fileVars
<1> QED BY <1>2, <1>3, <1>4, <1>6, <1>7, <1>8, <1>9, FilesUntouched

-----------------------------------------------------------------------------
(* The three steps of a writer.                                            *)

\* Only the holder of the lock writes or is about to.
LEMMA OneHolder ==
  ASSUME CInv, NEW u \in Update, updates[u].at \in {"creating", "writing"}
  PROVE  /\ lock = u /\ updates[u].at \in Locked
         /\ \A other \in Update \ {u} : updates[other].at \notin Locked
         /\ \A other \in Update \ {u} : updates[other].at \notin {"creating", "writing"}
BY DEF CInv, LockInv, Locked

LEMMA CreateStep ==
  ASSUME CInv, NEW u \in Update, Create(u) PROVE CInv' /\ UNCHANGED Current
<1> DEFINE new == Len(files) + 1
<1>1. /\ files \in Seq(Document) /\ destination \in 0..Len(files) /\ Len(files) \in Nat
      /\ DOMAIN temporaries \subseteq TemporaryName
      /\ \A name \in DOMAIN temporaries : temporaries[name] \in 1..Len(files)
      /\ registered \subseteq Table
  BY DEF CInv, FileTypes
<1>2. <<>> \in Document
  BY DEF Document
<1>3. /\ files' = Append(files, <<>>)
      /\ UNCHANGED <<destination, lock, loads, registered>>
      /\ updates[u].at = "creating" /\ NextTemporary(u) \notin DOMAIN temporaries
  BY DEF Create, historyVars, At
<1>4. /\ files' \in Seq(Document) /\ Len(files') = new /\ files'[new] = <<>>
      /\ \A file \in 1..Len(files) : files'[file] = files[file]
  BY <1>1, <1>2, <1>3
<1>5. Current' = Current /\ \A file \in 0..Len(files) : ContentOf(file)' = ContentOf(file)
  BY <1>1, <1>3, <1>4 DEF Current, ContentOf, Missing
<1>6. lock = u /\ \A other \in Update \ {u} : updates[other].at \notin Locked
  BY <1>3, OneHolder
<1>7. /\ DOMAIN temporaries' = DOMAIN temporaries \union {NextTemporary(u)}
      /\ temporaries'[NextTemporary(u)] = new
      /\ \A name \in DOMAIN temporaries : temporaries'[name] = temporaries[name]
  BY <1>3 DEF Create
<1>8. NextTemporary(u) \in TemporaryName
  BY UpdateTypes DEF NextTemporary
<1>9. /\ updates'[u] \in UpdateRecord(new)
      /\ updates'[u].at = "writing" /\ updates'[u].temporary = NextTemporary(u)
      /\ updates'[u].file = new /\ updates'[u].table = updates[u].table
      /\ updates'[u].existing = updates[u].existing /\ updates'[u].result = updates[u].result
      /\ updates' \in [Update -> UpdateRecord(new)]
      /\ \A other \in Update \ {u} : updates'[other] = updates[other]
  <2>1. updates \in [Update -> UpdateRecord(Len(files))] /\ updates[u] \in UpdateRecord(Len(files))
    BY UpdateTypes
  <2>2. 0..Len(files) \subseteq 0..new /\ new \in 0..new /\ "writing" \in Places
    BY <1>1 DEF Places
  <2>3. ASSUME NEW o \in Update PROVE updates[o] \in UpdateRecord(new)
    BY <2>1, <2>2 DEF UpdateRecord
  <2>4. updates' = [updates EXCEPT ![u] = [updates[u] EXCEPT !.at = "writing",
                      !.temporary = NextTemporary(u), !.file = new]]
    BY <2>1 DEF Create, UpdateRecord
  <2>5. [updates[u] EXCEPT !.at = "writing", !.temporary = NextTemporary(u), !.file = new]
          \in UpdateRecord(new)
    BY <1>8, <2>1, <2>2 DEF UpdateRecord
  <2> QED BY <2>1, <2>3, <2>4, <2>5 DEF UpdateRecord
<1>10. /\ loads \in [Reader -> LoadRecord(Len(files))]
       /\ \A r \in Reader : loads[r] \in LoadRecord(new) /\ loads[r].file \in 0..Len(files)
  <2>1. loads \in [Reader -> LoadRecord(Len(files))] /\ 0..Len(files) \subseteq 0..new
    BY <1>1 DEF CInv, TaskTypes
  <2> QED BY <2>1 DEF LoadRecord
<1>11. FileTypes'
  <2>1. \A name \in DOMAIN temporaries' : temporaries'[name] \in 1..new
    BY <1>1, <1>7
  <2> QED BY <1>1, <1>3, <1>4, <1>7, <1>8, <2>1 DEF FileTypes
<1>12. TaskTypes'
  <2>1. processes' \in [Process -> TemporaryName]
    BY CountTyped DEF Create
  <2> QED BY <1>3, <1>4, <1>9, <1>10, <2>1 DEF CInv, TaskTypes
<1>13. LockInv'
  BY <1>3, <1>6, <1>9 DEF LockInv, Locked
<1>14. TemporaryInv'
  BY <1>1, <1>3, <1>7 DEF CInv, TemporaryInv
<1>15. WriterInv'
  <2>1. IsFresh(updates[u])
    BY <1>3 DEF CInv, WriterInv
  <2>2. IsFresh(updates[u])'
    BY <1>5, <1>9, <2>1 DEF IsFresh
  <2>3. IsPrefix(files'[new], Append(updates[u].existing, updates[u].table))
    BY <1>4, UpdateTypes DEF IsPrefix, Document
  <2>4. IsWriting(updates[u])'
    BY <1>7, <1>9, <2>3 DEF IsWriting
  <2>5. ASSUME NEW o \in Update \ {u} PROVE updates'[o].at \notin {"creating", "writing"}
    BY <1>6, <1>9 DEF Locked
  <2> QED BY <2>2, <2>4, <2>5 DEF WriterInv, At
<1>16. ReaderInv'
  <2>1. ASSUME NEW r \in Reader, loads[r].at # "idle"
        PROVE  IsReading(loads[r])'
    <3>1. IsReading(loads[r]) /\ loads[r].file \in 0..Len(files) /\ loads' = loads
      BY <1>3, <1>10, <2>1 DEF CInv, ReaderInv
    <3>2. ContentOf(loads[r].file)' = ContentOf(loads[r].file)
      BY <1>3, <1>5, <3>1
    <3>3. ASSUME NEW o \in Update, updates'[o].at = "writing"
          PROVE  updates'[o].file # loads[r].file
      <4>1. o = u
        BY <1>6, <1>9, <3>3 DEF Locked
      <4> QED BY <1>1, <1>9, <3>1, <4>1
    <3> QED BY <3>1, <3>2, <3>3 DEF IsReading, At
  <2> QED BY <1>3, <2>1 DEF CInv, ReaderInv
<1>17. AddedIsStored'
  <2>1. ASSUME NEW o \in Update
        PROVE  updates'[o].result = updates[o].result /\ updates'[o].table = updates[o].table
    BY <1>9
  <2> QED BY <1>5, <2>1 DEF CInv, AddedIsStored
<1> QED BY <1>3, <1>5, <1>11, <1>12, <1>13, <1>14, <1>15, <1>16, <1>17 DEF CInv

LEMMA WriteStep ==
  ASSUME CInv, NEW u \in Update, WriteTable(u) PROVE CInv' /\ UNCHANGED Current
<1> DEFINE file == updates[u].file
           text == files[file]
           longer == Append(text, Replacement(u)[Len(text) + 1])
<1>1. /\ files \in Seq(Document) /\ destination \in 0..Len(files)
      /\ \A name \in DOMAIN temporaries : temporaries[name] \in 1..Len(files)
  BY DEF CInv, FileTypes
<1>2. /\ updates[u].at = "writing" /\ Len(text) < Len(Replacement(u))
      /\ files' = [files EXCEPT ![file] = longer]
      /\ UNCHANGED <<destination, temporaries, lock, processes, updates, loads, registered>>
  BY DEF WriteTable, historyVars, At, Written
<1>3. IsWriting(updates[u])
  BY <1>2 DEF CInv, WriterInv, At
<1>4. file \in 1..Len(files) /\ file # destination
  BY <1>1, <1>3 DEF CInv, TemporaryInv, IsWriting
<1>5. Replacement(u) \in Seq(Table) /\ text \in Seq(Table)
  <2>1. updates[u].existing \in Seq(Table) /\ updates[u].table \in RegistrableTable
    BY UpdateTypes DEF Document
  <2>2. updates[u].table \in Table
    BY <2>1, Constants DEF RegistrableTable, Table
  <2> QED BY <1>1, <1>4, <2>1, <2>2 DEF Replacement, Document
<1>6. longer \in Document /\ IsPrefix(longer, Replacement(u))
  <2>1. IsPrefix(text, Replacement(u))
    BY <1>3 DEF IsWriting, Replacement
  <2> QED BY <1>2, <1>5, <2>1 DEF IsPrefix, Document
<1>7. /\ files' \in Seq(Document) /\ Len(files') = Len(files) /\ files'[file] = longer
      /\ \A other \in 1..Len(files) : other # file => files'[other] = files[other]
  BY <1>1, <1>2, <1>4, <1>6
<1>8. /\ Current' = Current
      /\ \A other \in 0..Len(files) : other # file => ContentOf(other)' = ContentOf(other)
  BY <1>1, <1>2, <1>4, <1>7 DEF Current, ContentOf, Missing
<1>9. \A other \in Update \ {u} : updates[other].at \notin {"creating", "writing"}
  BY <1>2, OneHolder
<1>10. FileTypes' /\ TaskTypes' /\ LockInv' /\ TemporaryInv'
  BY <1>2, <1>7 DEF CInv, FileTypes, TaskTypes, LockInv, TemporaryInv
<1>11. WriterInv'
  <2>1. IsFresh(updates[u])'
    BY <1>2, <1>8 DEF CInv, WriterInv, IsFresh
  <2>2. IsWriting(updates[u])'
    BY <1>2, <1>3, <1>6, <1>7 DEF IsWriting, Replacement
  <2> QED BY <1>2, <1>9, <2>1, <2>2 DEF WriterInv, At
<1>12. ReaderInv'
  <2>1. ASSUME NEW r \in Reader, loads[r].at # "idle"
        PROVE  IsReading(loads[r])'
    <3>1. IsReading(loads[r]) /\ loads' = loads /\ loads[r].file \in 0..Len(files)
      BY <1>2, <2>1 DEF CInv, ReaderInv, TaskTypes, LoadRecord
    <3>2. loads[r].file # file
      BY <1>2, <3>1 DEF IsReading, At
    <3>3. ContentOf(loads[r].file)' = ContentOf(loads[r].file)
      BY <1>2, <1>8, <3>1, <3>2
    <3> QED BY <1>2, <3>1, <3>3 DEF IsReading, At
  <2> QED BY <1>2, <2>1 DEF CInv, ReaderInv
<1>13. AddedIsStored'
  BY <1>2, <1>8 DEF CInv, AddedIsStored
<1> QED BY <1>2, <1>8, <1>10, <1>11, <1>12, <1>13 DEF CInv

\* What a complete temporary holds is the file's text with the new table after it.
LEMMA PublishedText ==
  ASSUME CInv, NEW u \in Update, Publish(u)
  PROVE  /\ destination' = updates[u].file /\ destination' \in 1..Len(files)
         /\ Current' = Append(Current, updates[u].table)
         /\ Current \in Seq(Table) /\ updates[u].table \in RegistrableTable
         /\ updates[u].table \in Table
         /\ Parses(Current) /\ ~Taken(updates[u].table.name, Current)
         /\ registered' = registered \union Tables(Current')
<1> DEFINE text == files[updates[u].file]
           whole == Append(updates[u].existing, updates[u].table)
<1>1. /\ updates[u].at = "writing" /\ Len(text) = Len(whole)
      /\ files' = files /\ destination' = temporaries[updates[u].temporary]
      /\ registered' = registered \union Tables(text)
  BY DEF Publish, At, Complete, Written, Replacement
<1>2. IsFresh(updates[u]) /\ IsWriting(updates[u])
  BY <1>1 DEF CInv, WriterInv, At
<1>3. destination' = updates[u].file /\ updates[u].file \in 1..Len(files)
  BY <1>1, <1>2 DEF CInv, FileTypes, IsWriting
<1>4. updates[u].table \in RegistrableTable /\ updates[u].table \in Table
  BY UpdateTypes, Constants DEF RegistrableTable, Table
<1>5. Current \in Seq(Table) /\ updates[u].existing = Current
  BY <1>2, CurrentTyped DEF Document, IsFresh
<1>6. text \in Seq(Table)
  BY <1>3 DEF CInv, FileTypes, Document
<1>7. whole \in Seq(Table)
  BY <1>4, <1>5
<1>8. \A i \in 1..Len(text) : text[i] = whole[i]
  BY <1>2 DEF IsWriting, IsPrefix
<1>9. text = whole
  BY <1>1, <1>6, <1>7, <1>8
<1>10. Current' = text
  BY <1>1, <1>3 DEF Current, ContentOf, Missing
<1> QED BY <1>1, <1>2, <1>3, <1>4, <1>5, <1>9, <1>10 DEF IsFresh

LEMMA AppendedTables ==
  ASSUME NEW document \in Seq(Table), NEW table \in Table
  PROVE  Tables(Append(document, table)) = Tables(document) \union {table}
<1> DEFINE longer == Append(document, table)
<1>1. /\ longer \in Seq(Table) /\ Len(longer) = Len(document) + 1 /\ Len(document) \in Nat
      /\ longer[Len(document) + 1] = table /\ \A i \in 1..Len(document) : longer[i] = document[i]
      /\ DOMAIN longer = 1..(Len(document) + 1) /\ DOMAIN document = 1..Len(document)
  OBVIOUS
<1> HIDE DEF longer
<1>2. 1..(Len(document) + 1) = (1..Len(document)) \union {Len(document) + 1}
  BY <1>1
<1>3. Tables(longer) = Tables(document) \union {table}
  BY <1>1, <1>2 DEF Tables, Range
<1> QED BY <1>3 DEF longer

LEMMA PublishStep == ASSUME CInv, NEW u \in Update, Publish(u) PROVE CInv'
<1>1. /\ destination' = updates[u].file /\ destination' \in 1..Len(files)
      /\ Current' = Append(Current, updates[u].table)
      /\ updates[u].table \in Table
      /\ registered' = registered \union Tables(Current')
      /\ Tables(Current') = Tables(Current) \union {updates[u].table}
  BY PublishedText, AppendedTables
<1>2. /\ UNCHANGED <<files, lock, processes, loads>>
      /\ updates[u].at = "writing"
      /\ updates' = [updates EXCEPT ![u].at = "returning", ![u].result = "added"]
      /\ temporaries' = Restrict(temporaries, DOMAIN temporaries \ {updates[u].temporary})
  BY DEF Publish, Ends, At
<1>3. /\ updates \in [Update -> UpdateRecord(Len(files))] /\ updates[u] \in UpdateRecord(Len(files))
      /\ processes \in [Process -> TemporaryName]
  BY UpdateTypes
<1>4. /\ updates' \in [Update -> UpdateRecord(Len(files))]
      /\ updates'[u].at = "returning" /\ updates'[u].table = updates[u].table
      /\ \A other \in Update \ {u} : updates'[other] = updates[other]
  <2>1. "returning" \in Places /\ "added" \in Results
    BY DEF Places, Results
  <2>2. [updates[u] EXCEPT !.at = "returning", !.result = "added"] \in UpdateRecord(Len(files))
    BY <1>3, <2>1 DEF UpdateRecord
  <2>3. updates' = [updates EXCEPT ![u] =
                      [updates[u] EXCEPT !.at = "returning", !.result = "added"]]
    BY <1>2, <1>3 DEF UpdateRecord
  <2> QED BY <1>3, <2>2, <2>3 DEF UpdateRecord
<1>5. /\ DOMAIN temporaries' = DOMAIN temporaries \ {updates[u].temporary}
      /\ \A name \in DOMAIN temporaries' : temporaries'[name] = temporaries[name]
  BY <1>2 DEF Restrict
<1>6. IsWriting(updates[u])
  BY <1>2 DEF CInv, WriterInv, At
<1>7. registered' = Tables(Current)' /\ registered' \subseteq Table
  BY <1>1 DEF CInv, FileTypes
<1>8. FileTypes' /\ TaskTypes'
  <2>1. /\ files \in Seq(Document) /\ DOMAIN temporaries \subseteq TemporaryName
        /\ \A name \in DOMAIN temporaries : temporaries[name] \in 1..Len(files)
    BY DEF CInv, FileTypes
  <2>2. /\ DOMAIN temporaries' \subseteq TemporaryName
        /\ \A name \in DOMAIN temporaries' : temporaries'[name] \in 1..Len(files')
    BY <1>2, <1>5, <2>1
  <2>3. files' \in Seq(Document) /\ destination' \in 0..Len(files')
    BY <1>1, <1>2, <2>1
  <2>4. FileTypes'
    BY <1>7, <2>2, <2>3 DEF FileTypes
  <2> QED BY <1>2, <1>3, <1>4, <2>4 DEF CInv, TaskTypes
<1>9. lock = u /\ \A other \in Update \ {u} : updates[other].at \notin {"creating", "writing"}
  BY <1>2, OneHolder
<1>10. LockInv'
  <2>1. "returning" \in Locked /\ updates[u].at \in Locked
    BY <1>2 DEF Locked
  <2> QED BY <1>2, <1>4, <2>1 DEF CInv, LockInv
<1>11. TemporaryInv'
  BY <1>1, <1>5, <1>6 DEF CInv, TemporaryInv, IsWriting
<1>12. \A o \in Update : updates'[o].at \notin {"creating", "writing"}
  BY <1>4, <1>9
<1>13. WriterInv'
  BY <1>12 DEF WriterInv, At
<1>14. ReaderInv'
  <2>1. \A file : ContentOf(file)' = ContentOf(file)
    BY <1>2 DEF ContentOf
  <2> QED BY <1>2, <1>12, <2>1 DEF CInv, ReaderInv, IsReading, At
<1>15. AddedIsStored'
  <2>1. ASSUME NEW o \in Update \ {u}, updates'[o].result = "added"
        PROVE  updates'[o].table \in Tables(Current')
    BY <1>1, <1>4, <2>1 DEF CInv, AddedIsStored
  <2> QED BY <1>1, <1>4, <2>1 DEF AddedIsStored
<1> QED BY <1>7, <1>8, <1>10, <1>11, <1>13, <1>14, <1>15 DEF CInv

-----------------------------------------------------------------------------
(* The readers.                                                            *)

LEMMA ReaderStep ==
  ASSUME CInv, NEW r \in Reader, NEW new \in LoadRecord(Len(files)),
         loads' = [loads EXCEPT ![r] = new], new.at # "idle", IsReading(new),
         UNCHANGED <<fileVars, lock, processes, updates, historyVars>>
  PROVE  CInv'
<1>1. loads \in [Reader -> LoadRecord(Len(files))]
  BY DEF CInv, TaskTypes
<1>2. /\ loads' \in [Reader -> LoadRecord(Len(files))] /\ loads'[r] = new
      /\ \A other \in Reader \ {r} : loads'[other] = loads[other]
  BY <1>1
<1>3. Current' = Current /\ \A file : ContentOf(file)' = ContentOf(file)
  BY DEF Current, ContentOf, fileVars
<1>4. FileTypes' /\ TaskTypes' /\ LockInv' /\ TemporaryInv' /\ AddedIsStored'
  BY <1>2, <1>3 DEF CInv, FileTypes, TaskTypes, LockInv, TemporaryInv, AddedIsStored,
     fileVars, historyVars
<1>5. WriterInv'
  BY <1>3 DEF CInv, WriterInv, IsFresh, IsWriting, At, fileVars
<1>6. ReaderInv'
  <2>1. IsReading(new)'
    BY <1>3 DEF IsReading, At
  <2>2. ASSUME NEW other \in Reader \ {r}, loads[other].at # "idle" PROVE IsReading(loads[other])'
    <3>1. IsReading(loads[other]) /\ loads'[other] = loads[other]
      BY <1>2, <2>2 DEF CInv, ReaderInv
    <3> QED BY <1>3, <3>1 DEF IsReading, At
  <2>3. ASSUME NEW other \in Reader \ {r}, loads[other].at = "idle"
        PROVE  loads'[other].at = "idle" /\ loads'[other].text = <<>>
    BY <1>2, <2>3 DEF CInv, ReaderInv
  <2> QED BY <1>2, <2>1, <2>2, <2>3 DEF ReaderInv, IsReading, At
<1> QED BY <1>3, <1>4, <1>5, <1>6 DEF CInv, historyVars

LEMMA LoadTypes ==
  ASSUME CInv, NEW r \in Reader
  PROVE  /\ loads[r] \in LoadRecord(Len(files)) /\ loads \in [Reader -> LoadRecord(Len(files))]
         /\ loads[r].name \in Name /\ loads[r].file \in 0..Len(files)
         /\ loads[r].text \in Seq(Table) /\ loads[r].configured \in SUBSET Table
BY DEF CInv, TaskTypes, LoadRecord, Document

LEMMA ContentTyped == ASSUME CInv, NEW file \in 0..Len(files) PROVE ContentOf(file) \in Seq(Table)
<1>1. << >> \in Seq(Table)
  OBVIOUS
<1> QED BY <1>1 DEF CInv, FileTypes, ContentOf, Missing, Document

\* The file printers.toml names when it is opened: complete, and never written again.
LEMMA OpenStep == ASSUME CInv, NEW r \in Reader, OpenFile(r) PROVE CInv'
<1> DEFINE printers == IF Parses(Current) THEN Registered(loads[r].name) ELSE {}
           place == Loaded(<<>>, destination)
<1>1. /\ loads' = [loads EXCEPT ![r].configured = printers, ![r].file = destination, ![r].at = place]
      /\ UNCHANGED <<fileVars, lock, processes, updates, historyVars>>
      /\ loads[r].at = "idle"
  BY DEF OpenFile
<1>2. destination \in 0..Len(files) /\ registered \subseteq Table /\ registered = Tables(Current)
  BY DEF CInv, FileTypes
<1>3. Current = ContentOf(destination) /\ Current \in Seq(Table)
  BY <1>2, ContentTyped DEF Current
<1>4. printers \in SUBSET Table /\ printers = Printers(loads[r].name, Current)
  BY <1>2 DEF Registered, Printers
<1>5. /\ place \in {"idle", "reading", "done"}
      /\ place = "reading" => 0 < Len(Current)
      /\ place = "done" => Len(Current) = 0
  BY <1>3 DEF Loaded
<1>6. LoadRecord(Len(files)) # {} /\ loads[r] \in LoadRecord(Len(files))
  BY LoadTypes
<1>7. PICK new \in LoadRecord(Len(files)) :
        /\ loads' = [loads EXCEPT ![r] = new] /\ new.at = place /\ new.file = destination
        /\ new.configured = printers /\ new.text = <<>> /\ new.name = loads[r].name
  <2>1. [loads[r] EXCEPT !.configured = printers, !.file = destination, !.at = place]
          \in LoadRecord(Len(files))
    BY <1>2, <1>4, <1>5, <1>6 DEF LoadRecord
  <2>2. loads' = [loads EXCEPT ![r] = [loads[r] EXCEPT !.configured = printers,
                    !.file = destination, !.at = place]]
    BY <1>1, LoadTypes DEF LoadRecord
  <2>3. loads[r].text = <<>>
    BY <1>1 DEF CInv, ReaderInv
  <2> QED BY <1>6, <2>1, <2>2, <2>3 DEF LoadRecord
<1>8. IsReading(new)
  <2>1. \A u \in Update : At(u, "writing") => updates[u].file # destination
    BY DEF CInv, WriterInv, IsWriting, TemporaryInv
  <2>2. IsPrefix(<<>>, Current)
    BY <1>3 DEF IsPrefix
  <2>3. /\ new.at = "reading" => Len(new.text) < Len(Current)
        /\ new.at = "done" => Len(new.text) = Len(Current)
    BY <1>5, <1>7
  <2> HIDE DEF printers, place
  <2> QED BY <1>3, <1>4, <1>7, <2>1, <2>2, <2>3 DEF IsReading
<1>9. new.at # "idle"
  BY <1>7 DEF Loaded
<1> QED BY <1>1, <1>7, <1>8, <1>9, ReaderStep

LEMMA ReadTableStep == ASSUME CInv, NEW r \in Reader, ReadTable(r) PROVE CInv'
<1> DEFINE file == loads[r].file
           content == ContentOf(file)
           text == Append(loads[r].text, content[Len(loads[r].text) + 1])
           place == Loaded(text, file)
<1>1. /\ loads[r].at = "reading"
      /\ UNCHANGED <<fileVars, lock, processes, updates, historyVars>>
      /\ loads' = [loads EXCEPT
           ![r].text = Append(loads[r].text, files[file][Len(loads[r].text) + 1]),
           ![r].at = Loaded(Append(loads[r].text, files[file][Len(loads[r].text) + 1]), file)]
  BY DEF ReadTable
<1>2. IsReading(loads[r])
  BY <1>1 DEF CInv, ReaderInv
<1>3. /\ loads[r] \in LoadRecord(Len(files)) /\ file \in 0..Len(files)
      /\ loads[r].text \in Seq(Table) /\ content \in Seq(Table)
  BY LoadTypes, ContentTyped
<1>4. Len(loads[r].text) < Len(content)
  BY <1>1, <1>2 DEF IsReading
<1>5. content = files[file]
  BY <1>3, <1>4 DEF ContentOf
<1>6. text \in Document /\ Len(text) = Len(loads[r].text) + 1 /\ IsPrefix(text, content)
  <2>1. /\ Len(loads[r].text) + 1 \in 1..Len(content)
        /\ \A i \in 1..Len(loads[r].text) : loads[r].text[i] = content[i]
    BY <1>2, <1>3, <1>4 DEF IsReading, IsPrefix
  <2>2. content[Len(loads[r].text) + 1] \in Table
    BY <1>3, <2>1
  <2> QED BY <1>3, <1>4, <2>1, <2>2 DEF IsPrefix, Document
<1>7. /\ place \in {"reading", "done"}
      /\ place = "reading" => Len(text) < Len(content)
      /\ place = "done" => Len(text) = Len(content)
  <2>1. Len(text) \in Nat /\ Len(content) \in Nat /\ Len(text) <= Len(content)
    BY <1>3, <1>4, <1>6
  <2> QED BY <2>1 DEF Loaded
<1>8. PICK new \in LoadRecord(Len(files)) :
        /\ loads' = [loads EXCEPT ![r] = new] /\ new.at = place /\ new.file = file
        /\ new.configured = loads[r].configured /\ new.text = text /\ new.name = loads[r].name
  <2>1. [loads[r] EXCEPT !.text = text, !.at = place] \in LoadRecord(Len(files))
    BY <1>3, <1>6, <1>7 DEF LoadRecord
  <2>2. loads' = [loads EXCEPT ![r] = [loads[r] EXCEPT !.text = text, !.at = place]]
    BY <1>1, <1>5, LoadTypes DEF LoadRecord
  <2> QED BY <1>3, <2>1, <2>2 DEF LoadRecord
<1>9. new.at # "idle" /\ IsReading(new)
  BY <1>2, <1>6, <1>7, <1>8 DEF IsReading
<1> QED BY <1>1, <1>8, <1>9, ReaderStep

-----------------------------------------------------------------------------
LEMMA StepInvariant == CInv /\ [ConfigNext]_vars => CInv'
<1> SUFFICES ASSUME CInv, [ConfigNext]_vars PROVE CInv'
  OBVIOUS
<1>1. ASSUME NEW u \in Update, Begin(u) \/ UpdateStep(u) PROVE CInv'
  BY <1>1, BeginStep, TakeLockStep, ReadStep, CreateStep, NameTakenStep, WriteStep, PublishStep,
     FailStep, RemoveStep, ReturnStep DEF UpdateStep
<1>2. ASSUME NEW p \in Process, Crash(p) PROVE CInv'
  BY <1>2, CrashStep
<1>3. ASSUME NEW r \in Reader, OpenFile(r) \/ ReadTable(r) PROVE CInv'
  BY <1>3, OpenStep, ReadTableStep
<1>4. CASE UNCHANGED vars
  <2>1. Current' = Current /\ \A file : ContentOf(file)' = ContentOf(file)
    BY <1>4 DEF vars, fileVars, Current, ContentOf
  <2>2. FileTypes' /\ TaskTypes' /\ LockInv' /\ TemporaryInv' /\ AddedIsStored'
    BY <1>4, <2>1 DEF CInv, FileTypes, TaskTypes, LockInv, TemporaryInv, AddedIsStored,
       vars, fileVars, historyVars
  <2>3. WriterInv' /\ ReaderInv'
    BY <1>4, <2>1 DEF CInv, WriterInv, IsFresh, IsWriting, At, ReaderInv, IsReading,
       vars, fileVars
  <2> QED BY <1>4, <2>1, <2>2, <2>3 DEF CInv, vars, historyVars
<1> QED BY <1>1, <1>2, <1>3, <1>4 DEF ConfigNext

\* Every reachable state of any number of sharing processes has the invariant.
THEOREM ConfigInvariant == ConfigSpec => []CInv
<1> QED BY InitInvariant, StepInvariant, PTL DEF ConfigSpec

\* A registration that reported success stays in printers.toml, whatever the
\* others write, fail or crash at.
THEOREM AddedStays == ConfigSpec => []AddedIsStored
<1>1. CInv => AddedIsStored
  BY DEF CInv
<1> QED BY <1>1, ConfigInvariant, PTL

\* The advisory lock is enough to keep a temporary to its writer, although the
\* name's process id may be reused.
THEOREM WritersOwnTheirFiles == ConfigSpec => []WriterOwnsTemporary
<1>1. ASSUME CInv PROVE WriterOwnsTemporary
  <2>1. ASSUME NEW u \in Update, At(u, "writing")
        PROVE  /\ updates[u].temporary \in DOMAIN temporaries
               /\ updates[u].file # destination
               /\ \A name \in DOMAIN temporaries :
                    temporaries[name] = updates[u].file <=> name = updates[u].temporary
               /\ \A other \in Update \ {u} : updates[other].at \in WithTemporary =>
                    updates[other].temporary # updates[u].temporary
    <3>1. IsWriting(updates[u])
      BY <1>1, <2>1 DEF CInv, WriterInv
    <3>2. \A other \in Update \ {u} : updates[other].at \notin WithTemporary
      BY <1>1, <2>1, OneHolder DEF At, Locked, WithTemporary
    <3> QED BY <1>1, <3>1, <3>2 DEF CInv, TemporaryInv, IsWriting
  <2> QED BY <2>1 DEF WriterOwnsTemporary
<1> QED BY <1>1, ConfigInvariant, PTL

\* Reading without the lock never shows half a document.
THEOREM ReadersSeeWholeFiles == ConfigSpec => []ConfiguredIsFound
<1>1. ASSUME CInv PROVE ConfiguredIsFound
  <2>1. ASSUME NEW r \in Reader, loads[r].at = "done", loads[r].configured # {}
        PROVE  Printers(loads[r].name, loads[r].text) = loads[r].configured
    <3>1. IsReading(loads[r])
      BY <1>1, <2>1 DEF CInv, ReaderInv
    <3>2. loads[r].text \in Seq(Table) /\ ContentOf(loads[r].file) \in Seq(Table)
      BY <1>1, LoadTypes, ContentTyped
    <3>3. loads[r].text = ContentOf(loads[r].file)
      BY <2>1, <3>1, <3>2 DEF IsReading, IsPrefix
    <3> QED BY <2>1, <3>1, <3>3 DEF IsReading
  <2> QED BY <2>1 DEF ConfiguredIsFound
<1> QED BY <1>1, ConfigInvariant, PTL

-----------------------------------------------------------------------------
(* What happens to printers.toml in one step.                              *)

LEMMA OnlyPublishChanges ==
  ASSUME CInv, [ConfigNext]_vars
  PROVE  UNCHANGED Current \/ \E u \in Update : Publish(u)
<1>1. ASSUME UNCHANGED <<files, destination>> PROVE UNCHANGED Current
  BY <1>1 DEF Current, ContentOf
<1>2. ASSUME NEW u \in Update, Begin(u) \/ UpdateStep(u)
      PROVE  UNCHANGED Current \/ \E w \in Update : Publish(w)
  <2>1. CASE Create(u) \/ WriteTable(u)
    BY <2>1, CreateStep, WriteStep
  <2>2. CASE Publish(u)
    BY <2>2
  <2>3. CASE ~(Create(u) \/ WriteTable(u) \/ Publish(u))
    BY <1>1, <1>2, <2>3 DEF UpdateStep, Begin, TakeLock, ReadExisting, NameTaken, Fail,
       RemoveTemporary, Return, fileVars
  <2> QED BY <2>1, <2>2, <2>3
<1>3. ASSUME NEW p \in Process, Crash(p) PROVE UNCHANGED Current
  BY <1>1, <1>3 DEF Crash, fileVars
<1>4. ASSUME NEW r \in Reader, OpenFile(r) \/ ReadTable(r) PROVE UNCHANGED Current
  BY <1>1, <1>4 DEF OpenFile, ReadTable, fileVars
<1>5. CASE UNCHANGED vars
  BY <1>1, <1>5 DEF vars, fileVars
<1> QED BY <1>2, <1>3, <1>4, <1>5 DEF ConfigNext

\* No registration makes a file that loads into one that does not.
THEOREM FileStaysGood == ConfigSpec => FileStaysLoadable
<1>1. ASSUME CInv, [ConfigNext]_vars, Parses(Current) PROVE Parses(Current')
  <2>1. CASE UNCHANGED Current
    BY <1>1, <2>1
  <2>2. ASSUME NEW u \in Update, Publish(u) PROVE Parses(Current')
    <3>1. /\ Current' = Append(Current, updates[u].table) /\ Current \in Seq(Table)
          /\ updates[u].table \in RegistrableTable /\ updates[u].table \in Table
          /\ ~Taken(updates[u].table.name, Current)
          /\ Tables(Current') = Tables(Current) \union {updates[u].table}
      BY <1>1, <2>2, PublishedText, AppendedTables
    <3>2. \A i \in 1..Len(Current) : Current[i].name # updates[u].table.name
      BY <3>1 DEF Taken, Tables, Range
    <3>3. UniqueNames(Current')
      BY <1>1, <3>1, <3>2 DEF Parses, UniqueNames
    <3>4. updates[u].table.connection \notin Malformed
      BY <3>1, Constants DEF RegistrableTable
    <3> QED BY <1>1, <3>1, <3>3, <3>4 DEF Parses
  <2> QED BY <1>1, <2>1, <2>2, OnlyPublishChanges
<1>2. CInv /\ [ConfigNext]_vars => (Parses(Current) => Parses(Current)')
  BY <1>1
<1>3. CInv /\ [ConfigNext]_vars => [Parses(Current) => Parses(Current)']_vars
  BY <1>2
<1> QED BY <1>3, ConfigInvariant, PTL DEF ConfigSpec, FileStaysLoadable

\* The file operations of any number of processes are, for whoever looks at the
\* tables of printers.toml, whole registrations of new names: PrinterRegistry.
THEOREM ConfigImplementsRegistry == ConfigSpec => ImplementsRegistry
<1>1. ConfigInit => Registry!RegistryInit
  <2> SUFFICES ASSUME ConfigInit PROVE Registry!RegistryInit
    OBVIOUS
  <2>1. Tables(Current) \subseteq Table
    BY InitInvariant DEF CInv, FileTypes
  <2>2. UniqueNames(Current)
    BY InitialDocumentsAssumption DEF ConfigInit, Current, ContentOf, Missing, UniqueNames
  <2>3. Registry!OnePerName(Tables(Current))
    BY <2>2 DEF Registry!OnePerName, Tables, Range, UniqueNames
  <2> QED BY <2>1, <2>3 DEF Registry!RegistryInit, Registry!Table, Table
<1>2. CInv /\ [ConfigNext]_vars => [Registry!RegistryNext]_(Tables(Current))
  <2> SUFFICES ASSUME CInv, [ConfigNext]_vars PROVE [Registry!RegistryNext]_(Tables(Current))
    OBVIOUS
  <2>1. CASE UNCHANGED Current
    BY <2>1
  <2>2. ASSUME NEW u \in Update, Publish(u) PROVE Registry!RegistryNext
    <3> DEFINE table == updates[u].table
    <3>1. /\ table \in RegistrableTable /\ ~Taken(table.name, Current)
          /\ Tables(Current') = Tables(Current) \union {table}
      BY <2>2, PublishedText, AppendedTables
    <3>2. table = [name |-> table.name, connection |-> table.connection]
          /\ table.name \in Name /\ table.connection \in Registrable
      BY <3>1 DEF RegistrableTable
    <3>3. Registry!Register(table.name, table.connection)
      BY <3>1, <3>2 DEF Registry!Register, Registry!NamesOf, Taken
    <3> QED BY <3>2, <3>3 DEF Registry!RegistryNext
  <2> QED BY <2>1, <2>2, OnlyPublishChanges
<1> QED BY <1>1, <1>2, ConfigInvariant, PTL DEF ConfigSpec, ImplementsRegistry, Registry!RegistrySpec

-----------------------------------------------------------------------------
(* Type correctness, with the results and the bounds.                      *)

ResultInv ==
  \A u \in Update : updates[u].at \in {"removing", "returning", "done"} =>
                      updates[u].result # "none"
BoundsInv ==
  interruptions \in 0..MaxInterruptions /\ faults \in 0..MaxFaults

LEMMA ResultStep == CInv /\ ResultInv /\ [ConfigNext]_vars => ResultInv'
<1> SUFFICES ASSUME CInv, ResultInv, [ConfigNext]_vars PROVE ResultInv'
  OBVIOUS
<1> DEFINE Ended == {"removing", "returning", "done"}
<1>1. updates \in [Update -> UpdateRecord(Len(files))]
  BY DEF CInv, TaskTypes
<1>2. ASSUME NEW u \in Update, Begin(u) \/ UpdateStep(u) PROVE ResultInv'
  <2>1. /\ \A other \in Update \ {u} : updates'[other] = updates[other]
        /\ updates'[u].at \in Ended => updates'[u].result # "none"
    <3>1. updates[u] \in UpdateRecord(Len(files))
      BY <1>1
    <3>2. CASE Begin(u)
      BY <1>1, <3>1, <3>2 DEF Begin, Ends, UpdateRecord
    <3>3. CASE TakeLock(u) \/ ReadExisting(u) \/ Create(u) \/ WriteTable(u)
      BY <1>1, <3>1, <3>3 DEF TakeLock, ReadExisting, Create, WriteTable, At, UpdateRecord
    <3>4. CASE NameTaken(u) \/ Publish(u)
      BY <1>1, <3>1, <3>4 DEF NameTaken, Publish, Ends, UpdateRecord
    <3>5. CASE Fail(u)
      BY <1>1, <3>1, <3>5 DEF Fail, Ends, UpdateRecord
    <3>6. CASE RemoveTemporary(u) \/ Return(u)
      BY <1>1, <3>1, <3>6 DEF RemoveTemporary, Return, At, ResultInv, UpdateRecord
    <3> QED BY <1>2, <3>2, <3>3, <3>4, <3>5, <3>6 DEF UpdateStep
  <2> QED BY <2>1 DEF ResultInv
<1>3. ASSUME NEW p \in Process, Crash(p) PROVE ResultInv'
  <2>1. ASSUME NEW u \in Update
        PROVE  updates'[u].at \in Ended => updates'[u] = updates[u]
    <3>1. updates[u] \in UpdateRecord(Len(files))
      BY <1>1
    <3>2. updates'[u] = IF ProcessOf[u] = p /\ updates[u].at \notin {"idle", "done"}
                        THEN [updates[u] EXCEPT !.at = "dead"] ELSE updates[u]
      BY <1>3 DEF Crash
    <3> QED BY <3>1, <3>2 DEF UpdateRecord
  <2> QED BY <2>1 DEF ResultInv
<1>4. ASSUME UNCHANGED updates PROVE ResultInv'
  BY <1>4 DEF ResultInv
<1> QED BY <1>2, <1>3, <1>4 DEF ConfigNext, OpenFile, ReadTable, vars

LEMMA BoundsStep == BoundsInv /\ [ConfigNext]_vars => BoundsInv'
<1> SUFFICES ASSUME BoundsInv, [ConfigNext]_vars PROVE BoundsInv'
  OBVIOUS
<1>1. ASSUME UNCHANGED historyVars PROVE BoundsInv'
  BY <1>1 DEF BoundsInv, historyVars
<1>2. ASSUME NEW u \in Update, Begin(u) \/ UpdateStep(u) PROVE BoundsInv'
  <2>1. CASE NameTaken(u) \/ Publish(u) \/ Fail(u) \/ RemoveTemporary(u)
    BY <2>1, ConfigBoundsAssumption DEF BoundsInv, NameTaken, Publish, Fail, RemoveTemporary
  <2>2. CASE ~(NameTaken(u) \/ Publish(u) \/ Fail(u) \/ RemoveTemporary(u))
    BY <1>1, <1>2, <2>2 DEF UpdateStep, Begin, TakeLock, ReadExisting, Create, WriteTable, Return
  <2> QED BY <2>1, <2>2
<1>3. ASSUME NEW p \in Process, Crash(p) PROVE BoundsInv'
  BY <1>3, ConfigBoundsAssumption DEF BoundsInv, Crash
<1> QED BY <1>1, <1>2, <1>3 DEF ConfigNext, OpenFile, ReadTable, vars

\* The type invariant, for any number of processes, registrations and readers.
THEOREM ConfigTypeCorrect == ConfigSpec => []ConfigTypeOK
<1>1. ConfigInit => ResultInv /\ BoundsInv
  <2>1. ASSUME ConfigInit, NEW u \in Update PROVE updates[u].at = "idle"
    <3>1. updates[u] \in [at : {"idle"}, result : {"none"}, existing : {<<>>},
                          table : RegistrableTable, temporary : Range(processes), file : {Missing}]
      BY <2>1 DEF ConfigInit
    <3> QED BY <3>1
  <2> QED BY <2>1, ConfigBoundsAssumption DEF ConfigInit, ResultInv, BoundsInv
<1>2. ASSUME CInv, ResultInv, BoundsInv PROVE ConfigTypeOK
  <2>1. Range(temporaries) \subseteq DOMAIN files
    BY <1>2 DEF CInv, FileTypes, Range
  <2> QED BY <1>2, <2>1 DEF ConfigTypeOK, CInv, FileTypes, TaskTypes, ResultInv, BoundsInv,
          UpdateRecord, LoadRecord
<1> QED BY <1>1, <1>2, ConfigInvariant, ResultStep, BoundsStep, PTL DEF ConfigSpec
=============================================================================
