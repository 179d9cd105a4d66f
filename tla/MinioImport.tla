---------------------------- MODULE MinioImport ----------------------------
(***************************************************************************)
(* The start of the server on a data directory that holds .minio.sys, and  *)
(* the import that goes with it:                                           *)
(*                                                                         *)
(*   phase 1  before the server serves: policies, users, buckets, the data *)
(*            configuration, then .import-state                            *)
(*   phase 2  in a goroutine beside the clients: object metadata, groups,  *)
(*            service accounts, then .import-state again                   *)
(*                                                                         *)
(* The process may die at any step, and any write may fail; every file is  *)
(* written in place.  Clients change the same files while phase 2 runs,    *)
(* each change taken as one step (IAMStore and Buckets are about theirs).  *)
(* The directory of MinIO itself is only read.  A user's file is the one   *)
(* that the index of keys leads to: the import gives it a new UUID.  One   *)
(* process at a time has the directory.                                    *)
(***************************************************************************)
EXTENDS Naturals, Sequences, FiniteSets

CONSTANTS
    Policies, Users, Buckets, Objects, Groups, Accounts,   \* what MinIO has,
                \* of the policies those that are not built in
    Parent,     \* account -> the user it belongs to
    MinioKeyed, \* are there credentials in MinIO's configuration?
    MaxFaults,  \* bound: crashes, and reads and writes that fail
    MaxChanges  \* bound: changes by clients

\* The order in which CheckAndImportMinIO and its phase 2 go through them.
Stages == <<Policies, Users, Buckets, Objects, Groups, Accounts>>
PhaseOne == Policies \cup Users \cup Buckets
PhaseTwo == Objects \cup Groups \cup Accounts
Items == PhaseOne \cup PhaseTwo

ASSUME StagesAssumption ==
    \A r, s \in 1..6 : r # s => Stages[r] \cap Stages[s] = {}
ASSUME ParentAssumption == Parent \in [Accounts -> Users]
ASSUME KeyedAssumption == MinioKeyed \in BOOLEAN
ASSUME BoundsAssumption == MaxFaults \in Nat /\ MaxChanges \in Nat

VARIABLES
    file,       \* item -> what its file under .dirio holds
    config,     \* what .dirio/config.json holds
    state,      \* what .import-state holds
    pc,         \* the start-up sequence
    command,    \* "serve" or "init"
    given,      \* are credentials given on the command line?
    memory,     \* Starter.DataConfig
    isNew,      \* Starter.isNew
    task,       \* the asynchronous phase: Starter.asyncImport, its goroutine
    work,       \* the phase in progress
    parents,    \* the users in accessKeyToUUID
    failed,     \* has a step of this process failed? (history)
    misloaded,  \* has an init gone on without MinIO's configuration? (history)
    lost,       \* items given up with a warning (history)
    touched,    \* items clients have changed (history)
    clobbered,  \* client versions the import overwrote unawares (history)
    faults, changes

disk == <<file, config, state>>
process == <<pc, command, given, memory, isNew, task, work, parents, failed>>
history == <<misloaded, lost, touched, clobbered>>
vars == <<disk, process, history, faults, changes>>

-----------------------------------------------------------------------------
(* Values *)

\* torn: created or truncated, and not written; no JSON parser accepts it.
FileContents == {"absent", "torn", "minio", "client"}
ConfigContents == [from : {"absent", "torn", "fresh", "minio"}, keyed : BOOLEAN]
StateContents == {"absent", "torn", "phase1", "done"}

Config(from, keyed) == [from |-> from, keyed |-> keyed]
Torn == Config("torn", FALSE)

Readable(i) == file[i] \in {"minio", "client"}

NoItem == "none"
Steps == {"pick", "truncate", "write", "config", "record", "recorded"}
Work == [todo : SUBSET Items, item : Items \cup {NoItem}, step : Steps, raced : BOOLEAN]
Phase(items) == [todo |-> items, item |-> NoItem, step |-> "pick", raced |-> FALSE]
NoWork == Phase({})

\* Phase 1 in the start-up sequence, or phase 2 in its goroutine.
Importing == pc = "phase1" \/ (pc = "serve" /\ task = "import")
At(step) == Importing /\ work.step = step

\* The next item: a map's, in no order, but one stage after the other.
Turn(i) ==
    /\ i \in work.todo
    /\ \E s \in 1..6 : i \in Stages[s] /\ \A r \in 1..s - 1 : Stages[r] \cap work.todo = {}

Fault ==
    /\ faults < MaxFaults
    /\ faults' = faults + 1

Init ==
    /\ file = [i \in Items |-> "absent"] /\ config = Config("absent", FALSE) /\ state = "absent"
    /\ pc = "off" /\ command = "serve" /\ given = FALSE
    /\ memory = Config("absent", FALSE) /\ isNew = FALSE
    /\ task = "none" /\ work = NoWork /\ parents = {} /\ failed = FALSE
    /\ misloaded = FALSE /\ lost = {} /\ touched = {} /\ clobbered = {}
    /\ faults = 0 /\ changes = 0

-----------------------------------------------------------------------------
(* Starting: Init, MigrateMinIO, Prepare *)

\* startup.Init: a configuration that does not parse ends the process.
Start ==
    /\ pc = "off"
    /\ command' \in {"serve", "init"} /\ given' \in BOOLEAN
    /\ IF config.from = "torn"
       THEN pc' = "refused" /\ memory' = config /\ isNew' = FALSE
       ELSE /\ pc' = "detect"
            /\ memory' = IF config.from = "absent" THEN Config("fresh", FALSE) ELSE config
            /\ isNew' = (config.from = "absent")
    /\ task' = "none" /\ work' = NoWork /\ parents' = {} /\ failed' = FALSE
    /\ UNCHANGED <<disk, history, faults, changes>>

\* A faulty variant: an import whose phase 1 was recorded is taken as finished.
DetectFinished ==
    /\ pc = "detect"
    /\ IF state = "absent" THEN pc' = "phase1" /\ work' = Phase(PhaseOne)
       ELSE pc' = "prepare" /\ work' = work
    /\ UNCHANGED <<disk, command, given, memory, isNew, task, parents, failed, history, faults, changes>>

\* A faulty variant: the import runs whenever MinIO's directory is there.
DetectAlways ==
    /\ pc = "detect" /\ state # "torn"
    /\ pc' = "phase1" /\ work' = Phase(PhaseOne)
    /\ UNCHANGED <<disk, command, given, memory, isNew, task, parents, failed, history, faults, changes>>

\* CheckAndImportMinIO up to phase 1.  An error is only logged.
Detect ==
    /\ pc = "detect"
    /\ CASE state = "absent" -> /\ pc' = "phase1" /\ work' = Phase(PhaseOne)
                                /\ UNCHANGED <<task, parents, failed>>
         [] state = "phase1" -> /\ pc' = "prepare"
                                /\ task' = "pending" /\ work' = Phase(PhaseTwo)
                                /\ parents' = {u \in Users : Readable(u)}
                                /\ UNCHANGED failed
         [] state = "done"   -> pc' = "prepare" /\ UNCHANGED <<task, work, parents, failed>>
         [] state = "torn"   -> /\ pc' = "prepare" /\ failed' = TRUE
                                /\ UNCHANGED <<task, work, parents>>
    /\ UNCHANGED <<disk, command, given, memory, isNew, history, faults, changes>>

\* The metadata store cannot be opened: serve ends with the error, and init goes
\* on without the import.
MigrateFail ==
    /\ pc = "detect"
    /\ Fault
    /\ pc' = IF command = "serve" THEN "off" ELSE "prepare"
    /\ failed' = TRUE
    /\ UNCHANGED <<disk, command, given, memory, isNew, task, work, parents, history, changes>>

\* A faulty variant: an init with credentials saves them, whatever was there.
MustSaveGiven == isNew \/ (command = "init" /\ given)

\* Prepare and handleFirstInit save a configuration that was made up at the start
\* of this process, and handleExistingDir one without credentials, if some are
\* given, ...
MustSave == isNew \/ (command = "init" /\ given /\ ~memory.keyed)

\* ... in two steps, with the credentials.
PrepareSave ==
    /\ pc = "prepare" /\ MustSave
    /\ config' = Torn /\ pc' = "save"
    /\ memory' = [memory EXCEPT !.keyed = @ \/ given]
    /\ UNCHANGED <<file, state, command, given, isNew, task, work, parents, failed,
                   history, faults, changes>>

PrepareSaved ==
    /\ pc = "save"
    /\ config' = memory /\ isNew' = FALSE /\ pc' = "prepare"
    /\ UNCHANGED <<file, state, command, given, memory, task, work, parents, failed,
                   history, faults, changes>>

\* Saving it fails, at either step: the process ends with the error.
PrepareFail ==
    /\ pc = "save" \/ (pc = "prepare" /\ MustSave)
    /\ Fault
    /\ pc' = "off" /\ task' = "none" /\ work' = NoWork
    /\ UNCHANGED <<disk, command, given, memory, isNew, parents, failed, history, changes>>

\* A faulty variant: "dirio init" starts the goroutine too.
ServeAlways ==
    /\ pc = "prepare" /\ ~MustSave
    /\ pc' = IF command = "serve" THEN "serve" ELSE "off"
    /\ task' = IF task = "pending" THEN "import" ELSE "none"
    /\ UNCHANGED <<disk, command, given, memory, isNew, work, parents, failed, history, faults, changes>>

\* The server is up, and RunAsyncImport starts the goroutine; init just ends.
Serve ==
    /\ pc = "prepare" /\ ~MustSave
    /\ IF command = "serve"
       THEN pc' = "serve" /\ task' = IF task = "pending" THEN "import" ELSE "none"
       ELSE pc' = "off" /\ task' = "none"
    /\ UNCHANGED <<disk, command, given, memory, isNew, work, parents, failed, history, faults, changes>>

\* minioimport.Import cannot read MinIO's files, or CheckAndImportMinIO cannot
\* write its own: phase 1 is given up and the start goes on; phase 2 is given up
\* until the next start.
GiveUp ==
    /\ IF pc = "phase1" THEN pc' = "prepare" /\ task' = task
       ELSE pc' = pc /\ task' = "none"
    /\ work' = NoWork /\ failed' = TRUE
    /\ UNCHANGED <<command, given, memory, isNew, parents>>

ReadFail ==
    /\ At("pick") /\ work.todo \in {PhaseOne, PhaseTwo}
    /\ Fault /\ GiveUp
    /\ UNCHANGED <<disk, history, changes>>

-----------------------------------------------------------------------------
(* One item after the other: importPolicies ... importServiceAccounts *)

\* i is dealt with; kept is whether it may be named by an account.
HandledWith(i, kept) ==
    /\ work' = [work EXCEPT !.todo = @ \ {i}, !.item = NoItem, !.step = "pick"]
    /\ parents' = IF i \in Users /\ kept THEN parents \cup {i} ELSE parents
    /\ UNCHANGED <<pc, command, given, memory, isNew, task, failed>>

\* A faulty variant: nothing asks whether the item is there.
PickBlindly(i) ==
    /\ At("pick") /\ Turn(i)
    /\ work' = [work EXCEPT !.item = i, !.step = "truncate", !.raced = FALSE]
    /\ UNCHANGED <<disk, pc, command, given, memory, isNew, task, parents, failed, history,
                   faults, changes>>

\* An item that can be read is skipped.  An account is given up if its parent
\* is not known, and if CreateServiceAccount finds a file it cannot read.
Pick(i) ==
    /\ At("pick") /\ Turn(i)
    /\ LET GivenUp == i \in Accounts /\ (Parent[i] \notin parents \/ file[i] = "torn")
       IN IF Readable(i) \/ GivenUp
          THEN HandledWith(i, TRUE) /\ lost' = IF Readable(i) THEN lost ELSE lost \cup {i}
          ELSE /\ work' = [work EXCEPT !.item = i, !.step = "truncate", !.raced = FALSE]
               /\ UNCHANGED <<pc, command, given, memory, isNew, task, parents, failed, lost>>
    /\ UNCHANGED <<disk, misloaded, touched, clobbered, faults, changes>>

\* A version a client wrote after the check goes; one it wrote before must not.
Overwritten(i) ==
    clobbered' = IF file[i] = "client" /\ ~work.raced THEN clobbered \cup {i} ELSE clobbered

ItemTruncate ==
    /\ At("truncate")
    /\ file' = [file EXCEPT ![work.item] = "torn"]
    /\ work' = [work EXCEPT !.step = "write"]
    /\ Overwritten(work.item)
    /\ UNCHANGED <<config, state, pc, command, given, memory, isNew, task, parents, failed,
                   misloaded, lost, touched, faults, changes>>

\* A file that was removed since it was created stays removed.
ItemWrite ==
    /\ At("write")
    /\ LET i == work.item
       IN /\ file' = [file EXCEPT ![i] = IF @ = "absent" THEN @ ELSE "minio"]
          /\ Overwritten(i) /\ HandledWith(i, TRUE)
    /\ UNCHANGED <<config, state, misloaded, lost, touched, faults, changes>>

\* The item cannot be created or written: a warning, and the next one.
ItemFail ==
    /\ At("truncate") \/ At("write")
    /\ Fault
    /\ HandledWith(work.item, FALSE) /\ lost' = lost \cup {work.item}
    /\ UNCHANGED <<disk, misloaded, touched, clobbered, changes>>

-----------------------------------------------------------------------------
(* The end of a phase *)

\* A faulty variant: phase 1 is recorded before its buckets are imported.
ConfigEarly ==
    /\ At("pick") /\ pc = "phase1" /\ work.todo \subseteq Buckets
    /\ config' = Torn
    /\ work' = [work EXCEPT !.step = "config"]
    /\ UNCHANGED <<file, state, pc, command, given, memory, isNew, task, parents, failed,
                   history, faults, changes>>

\* SaveDataConfig with the configuration of MinIO, whatever was there.
ConfigTruncate ==
    /\ At("pick") /\ pc = "phase1" /\ work.todo = {}
    /\ config' = Torn
    /\ work' = [work EXCEPT !.step = "config"]
    /\ UNCHANGED <<file, state, pc, command, given, memory, isNew, task, parents, failed,
                   history, faults, changes>>

ConfigWrite ==
    /\ At("config")
    /\ config' = Config("minio", MinioKeyed)
    /\ work' = [work EXCEPT !.step = "record"]
    /\ UNCHANGED <<file, state, pc, command, given, memory, isNew, task, parents, failed,
                   history, faults, changes>>

\* saveImportState
RecordTruncate ==
    /\ At("record") \/ (At("pick") /\ pc = "serve" /\ work.todo = {})
    /\ state' = "torn"
    /\ work' = [work EXCEPT !.step = "recorded"]
    /\ UNCHANGED <<file, config, pc, command, given, memory, isNew, task, parents, failed,
                   history, faults, changes>>

\* A faulty variant: the configuration is not loaded again after phase 1.
RecordWriteOnly ==
    /\ At("recorded")
    /\ IF pc = "phase1"
       THEN /\ state' = "phase1" /\ pc' = "prepare"
            /\ task' = "pending" /\ work' = Phase(PhaseTwo)
       ELSE /\ state' = "done" /\ task' = "none" /\ work' = NoWork
            /\ UNCHANGED pc
    /\ UNCHANGED <<file, config, command, given, memory, isNew, parents, failed, history, faults, changes>>

\* After phase 1 MigrateMinIO loads the configuration that was saved and keeps
\* phase 2 for later; after phase 2 the goroutine ends.
RecordWrite ==
    /\ At("recorded")
    /\ IF pc = "phase1"
       THEN /\ state' = "phase1" /\ pc' = "prepare"
            /\ memory' = config /\ isNew' = FALSE
            /\ task' = "pending" /\ work' = Phase(PhaseTwo)
       ELSE /\ state' = "done" /\ task' = "none" /\ work' = NoWork
            /\ UNCHANGED <<pc, memory, isNew>>
    /\ UNCHANGED <<file, config, command, given, parents, failed, history, faults, changes>>

\* The configuration cannot be loaded again: serve ends, and init warns and goes
\* on with the one it started with, which may be saved over MinIO's.
ReloadFail ==
    /\ At("recorded") /\ pc = "phase1"
    /\ Fault
    /\ state' = "phase1"
    /\ IF command = "serve"
       THEN pc' = "off" /\ task' = "none" /\ work' = NoWork /\ UNCHANGED misloaded
       ELSE /\ pc' = "prepare" /\ task' = "pending" /\ work' = Phase(PhaseTwo)
            /\ misloaded' = TRUE
    /\ UNCHANGED <<file, config, command, given, memory, isNew, parents, failed, lost, touched,
                   clobbered, changes>>

SaveFail ==
    /\ \/ At("config") \/ At("record") \/ At("recorded")
       \/ At("pick") /\ work.todo = {}
    /\ Fault /\ GiveUp
    /\ UNCHANGED <<disk, history, changes>>

-----------------------------------------------------------------------------
(* Clients, and the end of the process *)

Touch(i) ==
    /\ pc = "serve" /\ changes < MaxChanges
    /\ changes' = changes + 1
    /\ touched' = touched \cup {i}
    /\ work' = [work EXCEPT !.raced = @ \/ work.item = i]
    /\ UNCHANGED <<config, state, pc, command, given, memory, isNew, task, parents, failed,
                   misloaded, lost, clobbered, faults>>

\* A client creates the item, or updates it.
ClientWrite(i) == Touch(i) /\ file' = [file EXCEPT ![i] = "client"]

ClientRemove(i) == file[i] # "absent" /\ Touch(i) /\ file' = [file EXCEPT ![i] = "absent"]

\* The process dies, or is shut down, which does not wait for the goroutine.
Stop ==
    /\ pc \notin {"off", "refused"}
    /\ Fault
    /\ pc' = "off" /\ task' = "none" /\ work' = NoWork
    /\ UNCHANGED <<disk, command, given, memory, isNew, parents, failed, history, changes>>

Next ==
    \/ Start \/ Detect \/ MigrateFail \/ PrepareSave \/ PrepareSaved \/ PrepareFail \/ Serve
    \/ ReadFail \/ ItemTruncate \/ ItemWrite \/ ItemFail
    \/ ConfigTruncate \/ ConfigWrite \/ RecordTruncate \/ RecordWrite \/ ReloadFail \/ SaveFail
    \/ Stop
    \/ \E i \in Items : Pick(i) \/ ClientWrite(i) \/ ClientRemove(i)

Spec == Init /\ [][Next]_vars

-----------------------------------------------------------------------------
(* Properties *)

\* Every variable has its type, and phase 2 is only ever run by a server that
\* serves.
TypeOK ==
    /\ file \in [Items -> FileContents] /\ config \in ConfigContents /\ state \in StateContents
    /\ pc \in {"off", "refused", "detect", "phase1", "prepare", "save", "serve"}
    /\ command \in {"serve", "init"} /\ given \in BOOLEAN
    /\ memory \in ConfigContents /\ isNew \in BOOLEAN
    /\ task \in {"none", "pending", "import"} /\ (task = "import" => pc = "serve")
    /\ work \in Work /\ work.todo \subseteq (IF pc = "phase1" THEN PhaseOne ELSE PhaseTwo)
    /\ parents \subseteq Users /\ failed \in BOOLEAN
    /\ misloaded \in BOOLEAN /\ lost \cup touched \cup clobbered \subseteq Items
    /\ faults \in 0..MaxFaults /\ changes \in 0..MaxChanges

\* Items that are where the import has put them, or are not for a known reason.
Settled(items) == \A i \in items : file[i] = "minio" \/ i \in lost \cup touched

\* What .import-state says was imported is there, through crashes at any step
\* and restarts: except for what was given up with a warning, which the file
\* does not tell, and what clients have changed since.
RecordedMeansImported ==
    /\ state \in {"phase1", "done"} => Settled(PhaseOne)
    /\ state = "done" => Settled(PhaseTwo)

\* The import never overwrites what a client has made of an item, unless the
\* client did so between the import's look and its write.
ClientsWin == clobbered = {}

\* "Import MinIO data twice? Same result.": once both phases are recorded, no
\* start changes what was imported, so that what clients delete stays deleted.
\* The configuration is written by nobody but a "dirio init" with credentials,
\* and that only where there are none ("Existing credentials are never
\* overwritten").
ImportsOnce ==
    [][state = "done" /\ touched' = touched /\ changes' = changes =>
         /\ UNCHANGED <<file, state>>
         /\ config' # config => command = "init" /\ given /\ ~config.keyed]_vars

\* A server that serves after a recorded phase 1 runs with the configuration on
\* disk, "a consistent, authoritative DataConfig", and that is MinIO's, through
\* every order of init, serve, crashes and failures but one: an init that cannot
\* load again what it has imported saves its own configuration over it.
ConfigAuthoritative ==
    pc = "serve" /\ state \in {"phase1", "done"} =>
      memory = config /\ (memory.from = "minio" \/ misloaded)

\* A server without an import in progress, none of whose steps failed, has
\* finished it: an interrupted phase is always taken up again by the next start.
\* The one exception shows in failed: a .import-state that a crash left torn is
\* an error at every start, and the rest of the import never happens.
ImportResumed == pc = "serve" /\ task = "none" /\ ~failed => state = "done"
=============================================================================
