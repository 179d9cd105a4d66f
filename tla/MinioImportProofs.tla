------------------------- MODULE MinioImportProofs -------------------------
(***************************************************************************)
(* Type correctness of MinioImport and its five other properties, for any  *)
(* sets of items and any number of faults and changes by clients.          *)
(***************************************************************************)
EXTENDS MinioImport, TLAPS

-----------------------------------------------------------------------------
(* The inductive invariant *)

\* The item in hand is still to do; unless a client raced with the import, it
\* is not a client's, and once created it is there.
InHand ==
    work.step \in {"truncate", "write"} =>
        /\ work.item \in work.todo
        /\ file[work.item] = "client" => work.raced
        /\ work.step = "write" => file[work.item] # "absent" \/ work.item \in touched

\* Clients' versions are known as such.
ClientsKnown == \A i \in Items : file[i] = "client" => i \in touched

\* Which phase is run tells .import-state, and the other way round.
PhaseKnown ==
    /\ pc \in {"detect", "phase1"} => task = "none"
    /\ pc = "phase1" => state = IF work.step = "recorded" THEN "torn" ELSE "absent"
    /\ task = "pending" =>
         state = "phase1" /\ pc \in {"prepare", "save"} /\ work = Phase(PhaseTwo)
    /\ task = "import" => state = IF work.step = "recorded" THEN "torn" ELSE "phase1"
    /\ work.step # "pick" => Importing
    /\ work.step \in {"config", "record"} => pc = "phase1"
    /\ work.step \in {"config", "record", "recorded"} => work.todo = {}

\* What a phase has imported so far is there.
Imported ==
    /\ pc = "phase1" => Settled(PhaseOne \ work.todo)
    /\ task # "none" => Settled(PhaseOne)
    /\ task = "import" => Settled(PhaseTwo \ work.todo)

Recorded == state \in {"phase1", "done"} \/ task # "none"
Running == pc \notin {"off", "refused"}

\* What is on disk and in memory of the configuration: once phase 1 is recorded
\* it is MinIO's, whole or torn, unless an init has gone on without it, and the
\* process has the one on disk, unless it is such an init.
ConfigKnown ==
    /\ pc = "serve" => command = "serve"
    /\ Recorded => config.from # "absent" /\ (config.from \in {"minio", "torn"} \/ misloaded)
    /\ pc = "phase1" /\ work.step \in {"record", "recorded"} => config = Config("minio", MinioKeyed)
    /\ pc = "detect" => IF isNew THEN config.from = "absent" ELSE memory = config
    /\ pc = "save" => config = Torn /\ (isNew \/ (command = "init" /\ given))
    /\ Running => memory.from \in {"fresh", "minio"}
    /\ Running /\ Recorded =>
         /\ memory.from = "minio" \/ misloaded
         /\ isNew => command = "init" /\ misloaded /\ state = "phase1"
         /\ pc \in {"prepare", "serve"} =>
              memory = config \/ (command = "init" /\ misloaded /\ state = "phase1")

\* Without a phase in progress or ahead, and without a failure, all is done.
Finished ==
    pc \in {"prepare", "save", "serve"} /\ task = "none" /\ ~failed => state = "done"

IInv ==
    /\ InHand /\ ClientsKnown /\ PhaseKnown /\ Imported
    /\ ConfigKnown /\ Finished /\ RecordedMeansImported /\ ClientsWin

-----------------------------------------------------------------------------
(* Values *)

\* What one phase imports the other does not.
LEMMA Disjoint == PhaseOne \cap PhaseTwo = {} /\ Users \subseteq PhaseOne
<1>1. /\ Stages[1] = Policies /\ Stages[2] = Users /\ Stages[3] = Buckets
      /\ Stages[4] = Objects /\ Stages[5] = Groups /\ Stages[6] = Accounts
  BY DEF Stages
<1>2. \A r \in 1..3, s \in 4..6 : Stages[r] \cap Stages[s] = {}
  BY StagesAssumption
<1> QED
  BY <1>1, <1>2 DEF PhaseOne, PhaseTwo

\* A phase that has not begun its first item.
LEMMA PhaseType ==
    /\ \A items \in SUBSET Items : Phase(items) \in Work
    /\ \A items \in SUBSET Items : Phase(items).todo = items /\ Phase(items).step = "pick"
    /\ NoWork = Phase({}) /\ PhaseOne \in SUBSET Items /\ PhaseTwo \in SUBSET Items
  BY DEF Phase, NoWork, Work, Steps, Items

\* Configurations, and one that credentials have been put into.
LEMMA ConfigType ==
    /\ \A from \in {"absent", "torn", "fresh", "minio"}, keyed \in BOOLEAN :
         /\ Config(from, keyed) \in ConfigContents
         /\ Config(from, keyed).from = from /\ Config(from, keyed).keyed = keyed
    /\ Torn \in ConfigContents /\ Torn.from = "torn" /\ ~Torn.keyed
    /\ Config("minio", MinioKeyed) \in ConfigContents /\ Config("minio", MinioKeyed).from = "minio"
    /\ \A c \in ConfigContents, keyed \in BOOLEAN :
         /\ [c EXCEPT !.keyed = c.keyed \/ keyed] \in ConfigContents
         /\ [c EXCEPT !.keyed = c.keyed \/ keyed].from = c.from
  BY KeyedAssumption DEF Config, Torn, ConfigContents

\* An item that has been dealt with leaves the phase as it was otherwise.
LEMMA Handled ==
    ASSUME TypeOK, NEW i \in work.todo, NEW kept \in BOOLEAN, HandledWith(i, kept)
    PROVE  /\ work' \in Work /\ work'.todo = work.todo \ {i}
           /\ work'.step = "pick" /\ work'.item = NoItem
           /\ parents' \subseteq Users
           /\ UNCHANGED <<pc, command, given, memory, isNew, task, failed>>
<1>1. work \in Work
  BY DEF TypeOK
<1>2. work' = [work EXCEPT !.todo = work.todo \ {i}, !.item = NoItem, !.step = "pick"]
  BY DEF HandledWith
<1>3. work' \in Work /\ work'.todo = work.todo \ {i} /\ work'.step = "pick" /\ work'.item = NoItem
  BY <1>1, <1>2 DEF Work, Steps
<1> QED
  BY <1>3 DEF HandledWith, TypeOK

-----------------------------------------------------------------------------
(* Type correctness *)

LEMMA TypeInit == Init => TypeOK
<1>1. 0 \in 0..MaxFaults /\ 0 \in 0..MaxChanges
  BY BoundsAssumption
<1>2. Config("absent", FALSE) \in ConfigContents
  BY ConfigType
<1>3. NoWork \in Work /\ NoWork.todo = {}
  BY PhaseType
<1> QED
  BY <1>1, <1>2, <1>3 DEF Init, TypeOK, FileContents, StateContents

LEMMA TypeStep == TypeOK /\ IInv /\ [Next]_vars => TypeOK'
<1> SUFFICES ASSUME TypeOK, IInv, [Next]_vars PROVE TypeOK'
  OBVIOUS
<1> USE DEF TypeOK, disk, process, history
<1>a. /\ work \in Work /\ Items = PhaseOne \cup PhaseTwo
      /\ NoWork \in Work /\ NoWork.todo = {}
      /\ Phase(PhaseOne) \in Work /\ Phase(PhaseOne).todo = PhaseOne
      /\ Phase(PhaseTwo) \in Work /\ Phase(PhaseTwo).todo = PhaseTwo
  BY PhaseType DEF Items
<1>1. CASE Start
  BY <1>1, <1>a, ConfigType DEF Start
<1>2. CASE Detect
  BY <1>2, <1>a DEF Detect, StateContents
<1>3. CASE PrepareSave
  BY <1>3, <1>a, ConfigType DEF PrepareSave
<1>4. CASE PrepareSaved
  BY <1>4 DEF PrepareSaved, ConfigContents, IInv, ConfigKnown
<1>5. CASE PrepareFail
  BY <1>5, <1>a, BoundsAssumption DEF PrepareFail, Fault
<1>6. CASE Serve
  BY <1>6, <1>a DEF Serve
<1>7. CASE ReadFail
  BY <1>7, <1>a, BoundsAssumption DEF ReadFail, Fault, GiveUp
<1>8. CASE ItemTruncate
  BY <1>8 DEF ItemTruncate, Overwritten, At, Work, Steps, FileContents, IInv, InHand
<1>9. CASE ItemWrite
  <2>1. work.item \in work.todo /\ work.item \in Items
    BY <1>9, <1>a DEF ItemWrite, At, IInv, InHand
  <2>2. HandledWith(work.item, TRUE)
    BY <1>9 DEF ItemWrite
  <2>3. faults' \in 0..MaxFaults /\ changes' = changes
    BY <1>9, BoundsAssumption DEF ItemWrite, Fault
  <2> QED
    BY <1>9, <2>1, Handled DEF ItemWrite, Overwritten, FileContents
<1>10. CASE ItemFail
  <2>1. work.item \in work.todo /\ work.item \in Items
    BY <1>10, <1>a DEF ItemFail, At, IInv, InHand
  <2>2. HandledWith(work.item, FALSE)
    BY <1>10 DEF ItemFail
  <2>3. faults' \in 0..MaxFaults /\ changes' = changes
    BY <1>10, BoundsAssumption DEF ItemFail, Fault
  <2> QED
    BY <1>10, <2>1, <2>2, <2>3, Handled DEF ItemFail
<1>11. CASE ConfigTruncate
  BY <1>11, ConfigType DEF ConfigTruncate, Work, Steps
<1>12. CASE ConfigWrite
  BY <1>12, ConfigType DEF ConfigWrite, Work, Steps
<1>13. CASE RecordTruncate
  BY <1>13 DEF RecordTruncate, Work, Steps, StateContents
<1>14. CASE RecordWrite
  BY <1>14, <1>a DEF RecordWrite, At, StateContents, IInv, ConfigKnown
<1>15. CASE SaveFail
  BY <1>15, <1>a, BoundsAssumption DEF SaveFail, Fault, GiveUp
<1>16. CASE Stop
  BY <1>16, <1>a, BoundsAssumption DEF Stop, Fault
<1>17. ASSUME NEW i \in Items, Pick(i) PROVE TypeOK'
  <2>1. i \in work.todo
    BY <1>17 DEF Pick, Turn
  <2>2. CASE HandledWith(i, TRUE)
    BY <1>17, <2>1, <2>2, Handled DEF Pick
  <2>3. CASE ~HandledWith(i, TRUE)
    <3>1. /\ work' = [work EXCEPT !.item = i, !.step = "truncate", !.raced = FALSE]
          /\ UNCHANGED <<disk, pc, command, given, memory, isNew, task, parents, failed, history, faults, changes>>
      BY <1>17, <2>3 DEF Pick
    <3>2. work' \in Work /\ work'.todo = work.todo
      BY <1>a, <3>1 DEF Work, Steps
    <3> QED
      BY <3>1, <3>2
  <2> QED
    BY <2>2, <2>3
<1>18. ASSUME NEW i \in Items, ClientWrite(i) \/ ClientRemove(i) PROVE TypeOK'
  <2>1. changes' \in 0..MaxChanges /\ faults' = faults
    BY <1>18, BoundsAssumption DEF ClientWrite, ClientRemove, Touch
  <2> QED
    BY <1>18, <2>1 DEF ClientWrite, ClientRemove, Touch, Work, FileContents
<1>19. CASE UNCHANGED vars
  BY <1>19 DEF vars
<1>20. CASE MigrateFail
  BY <1>20, BoundsAssumption, <1>a DEF MigrateFail, Fault, StateContents
<1>21. CASE ReloadFail
  <2>1. faults' \in 0..MaxFaults /\ changes' = changes /\ state' \in StateContents
    BY <1>21, BoundsAssumption DEF ReloadFail, Fault, StateContents
  <2>2. CASE command = "serve"
    BY <1>21, <1>a, <2>1, <2>2 DEF ReloadFail
  <2>3. CASE command # "serve"
    BY <1>21, <1>a, <2>1, <2>3 DEF ReloadFail
  <2> QED
    BY <2>2, <2>3
<1> QED
  BY <1>1, <1>2, <1>3, <1>4, <1>5, <1>6, <1>7, <1>8, <1>9, <1>10, <1>11, <1>12, <1>13,
     <1>14, <1>15, <1>16, <1>17, <1>18, <1>19, <1>20, <1>21
     DEF Next

-----------------------------------------------------------------------------
(* The parts of the invariant *)

\* A look at an item ends with it, or begins its import if it is not there.
LEMMA Picked ==
    ASSUME TypeOK, NEW i \in Items, Pick(i)
    PROVE  /\ i \in work.todo /\ At("pick") /\ work' \in Work
           /\ UNCHANGED <<disk, pc, command, given, memory, isNew, task, failed, misloaded,
                        touched, clobbered>>
           /\ \/ /\ Readable(i) \/ i \in lost'
                 /\ lost \subseteq lost'
                 /\ work'.todo = work.todo \ {i} /\ work'.step = "pick"
              \/ /\ ~Readable(i) /\ lost' = lost
                 /\ work'.todo = work.todo /\ work'.step = "truncate" /\ work'.item = i
                 /\ ~work'.raced
<1> DEFINE skipped == \/ Readable(i)
                      \/ i \in Accounts /\ (Parent[i] \notin parents \/ file[i] = "torn")
<1>1. i \in work.todo /\ At("pick") /\ UNCHANGED <<disk, misloaded, touched, clobbered>> /\ work \in Work
  BY DEF Pick, Turn, disk, TypeOK
<1>2. CASE skipped
  <2>1. HandledWith(i, TRUE) /\ (Readable(i) \/ i \in lost') /\ lost \subseteq lost'
    BY <1>2 DEF Pick
  <2> QED
    BY <1>1, <2>1, Handled
<1>3. CASE ~skipped
  <2>1. /\ work' = [work EXCEPT !.item = i, !.step = "truncate", !.raced = FALSE]
        /\ UNCHANGED <<pc, command, given, memory, isNew, task, failed, lost>> /\ ~Readable(i)
    BY <1>3 DEF Pick
  <2>2. /\ work' \in Work /\ work'.todo = work.todo /\ work'.step = "truncate"
        /\ work'.item = i /\ ~work'.raced
    BY <1>1, <2>1 DEF Work, Steps
  <2> QED
    BY <1>1, <2>1, <2>2
<1> QED
  BY <1>2, <1>3

\* The item in hand is written, or given up.
LEMMA Through ==
    ASSUME TypeOK, IInv, ItemWrite \/ ItemFail
    PROVE  /\ work.item \in work.todo /\ work' \in Work
           /\ work'.todo = work.todo \ {work.item} /\ work'.step = "pick"
           /\ UNCHANGED <<config, state, pc, command, given, memory, isNew, task, failed, misloaded>>
<1>1. work.item \in work.todo
  BY DEF ItemWrite, ItemFail, At, IInv, InHand
<1>2. \E kept \in BOOLEAN : HandledWith(work.item, kept)
  BY DEF ItemWrite, ItemFail
<1> QED
  BY <1>1, <1>2, Handled DEF ItemWrite, ItemFail, disk

\* A client changes an item.
LEMMA Touched ==
    ASSUME TypeOK, NEW i \in Items, ClientWrite(i) \/ ClientRemove(i)
    PROVE  /\ file' \in {[file EXCEPT ![i] = "client"], [file EXCEPT ![i] = "absent"]}
           /\ work'.todo = work.todo /\ work'.step = work.step /\ work'.item = work.item
           /\ work'.raced = (work.raced \/ work.item = i)
           /\ pc = "serve" /\ touched' = touched \cup {i}
           /\ UNCHANGED <<config, state, pc, command, given, memory, isNew, task, failed, misloaded,
                         lost, clobbered>>
  BY DEF ClientWrite, ClientRemove, Touch, TypeOK, Work

\* A phase is run where and when .import-state says.
LEMMA PhaseStep == TypeOK /\ IInv /\ [Next]_vars => PhaseKnown'
<1> SUFFICES ASSUME TypeOK, IInv, [Next]_vars PROVE PhaseKnown'
  OBVIOUS
<1> USE DEF disk, process, history
<1>a. work \in Work /\ NoWork = Phase({}) /\ NoWork.todo = {} /\ NoWork.step = "pick"
  BY PhaseType DEF TypeOK
<1>b. \A items \in {PhaseOne, PhaseTwo} : Phase(items).todo = items /\ Phase(items).step = "pick"
  BY PhaseType
<1>1. CASE Start
  <2>1. CASE config.from = "torn"
    BY <1>1, <1>a DEF Start, PhaseKnown
  <2>2. CASE config.from = "absent"
    BY <1>1, <1>a DEF Start, PhaseKnown
  <2>3. CASE config.from \in {"fresh", "minio"}
    BY <1>1, <1>a DEF Start, PhaseKnown
  <2> QED
    BY <2>1, <2>2, <2>3 DEF TypeOK, ConfigContents
<1>2. CASE Detect
  <2>1. CASE state = "absent"
    BY <1>2, <1>b, <2>1 DEF Detect, IInv, PhaseKnown
  <2>2. CASE state = "phase1"
    BY <1>2, <1>b, <2>2 DEF Detect, PhaseKnown
  <2>3. CASE state = "done"
    BY <1>2, <2>3 DEF Detect, Importing, IInv, PhaseKnown
  <2>4. CASE state = "torn"
    BY <1>2, <2>4 DEF Detect, Importing, IInv, PhaseKnown
  <2> QED
    BY <2>1, <2>2, <2>3, <2>4 DEF TypeOK, StateContents
<1>3. CASE PrepareSave
  BY <1>3 DEF PrepareSave, Importing, IInv, PhaseKnown, ConfigKnown
<1>4. CASE PrepareSaved
  BY <1>4 DEF PrepareSaved, Importing, IInv, PhaseKnown
<1>5. CASE PrepareFail
  BY <1>5, <1>a DEF PrepareFail, PhaseKnown
<1>6. CASE Serve
  BY <1>6 DEF Serve, Importing, IInv, PhaseKnown
<1>7. CASE ReadFail
  BY <1>7, <1>a DEF ReadFail, GiveUp, IInv, PhaseKnown
<1>8. CASE ItemTruncate
  BY <1>8 DEF ItemTruncate, At, Importing, IInv, PhaseKnown
<1>9. CASE ItemWrite
  BY <1>9, <1>b, Through DEF ItemWrite, At, IInv, PhaseKnown
<1>10. CASE ItemFail
  BY <1>10, <1>b, Through DEF ItemFail, At, IInv, PhaseKnown
<1>11. CASE ConfigTruncate
  BY <1>11 DEF ConfigTruncate, At, Importing, IInv, PhaseKnown
<1>12. CASE ConfigWrite
  BY <1>12 DEF ConfigWrite, At, Importing, IInv, PhaseKnown
<1>13. CASE RecordTruncate
  BY <1>13 DEF RecordTruncate, At, Importing, IInv, PhaseKnown
<1>14. CASE RecordWrite
  BY <1>14, <1>a, <1>b DEF RecordWrite, PhaseKnown
<1>15. CASE SaveFail
  BY <1>15, <1>a DEF SaveFail, GiveUp, IInv, PhaseKnown
<1>16. CASE Stop
  BY <1>16, <1>a DEF Stop, PhaseKnown
<1>17. ASSUME NEW i \in Items, Pick(i) PROVE PhaseKnown'
  BY <1>17, Picked DEF At, Importing, IInv, PhaseKnown
<1>18. ASSUME NEW i \in Items, ClientWrite(i) \/ ClientRemove(i) PROVE PhaseKnown'
  BY <1>18, Touched DEF Work, IInv, PhaseKnown, Importing
<1>19. CASE UNCHANGED vars
  BY <1>19 DEF vars, IInv, PhaseKnown, Importing
<1>20. CASE MigrateFail
  BY <1>20, <1>a, <1>b DEF MigrateFail, At, Importing, IInv, PhaseKnown
<1>21. CASE ReloadFail
  BY <1>21, <1>a, <1>b DEF ReloadFail, At, Importing, IInv, PhaseKnown
<1> QED
  BY <1>1, <1>2, <1>3, <1>4, <1>5, <1>6, <1>7, <1>8, <1>9, <1>10, <1>11, <1>12, <1>13,
     <1>14, <1>15, <1>16, <1>17, <1>18, <1>19, <1>20, <1>21
     DEF Next

\* What is known of the configuration, on disk and in memory.
LEMMA ConfigStep == TypeOK /\ IInv /\ [Next]_vars => ConfigKnown'
<1> SUFFICES ASSUME TypeOK, IInv, [Next]_vars PROVE ConfigKnown'
  OBVIOUS
<1> USE DEF disk, process, history
<1>a. work \in Work /\ NoWork = Phase({}) /\ NoWork.todo = {} /\ NoWork.step = "pick"
  BY PhaseType DEF TypeOK
<1>b. \A items \in {PhaseOne, PhaseTwo} : Phase(items).todo = items /\ Phase(items).step = "pick"
  BY PhaseType
<1>1. CASE Start
  <2>1. CASE config.from = "torn"
    BY <1>1, <2>1 DEF Start, IInv, ConfigKnown, Recorded, Running
  <2>2. CASE config.from = "absent"
    BY <1>1, <2>2, ConfigType DEF Start, IInv, ConfigKnown, Recorded, Running
  <2>3. CASE config.from \in {"fresh", "minio"}
    BY <1>1, <2>3 DEF Start, IInv, ConfigKnown, Recorded, Running
  <2> QED
    BY <2>1, <2>2, <2>3 DEF TypeOK, ConfigContents
<1>2. CASE Detect
  <2>1. CASE state = "absent"
    BY <1>2, <1>b, <2>1 DEF Detect, IInv, ConfigKnown, Recorded, Running
  <2>2. CASE state = "phase1"
    BY <1>2, <2>2 DEF Detect, IInv, ConfigKnown, Recorded, Running
  <2>3. CASE state = "done"
    BY <1>2, <2>3 DEF Detect, IInv, ConfigKnown, Recorded, Running
  <2>4. CASE state = "torn"
    BY <1>2, <2>4 DEF Detect, IInv, ConfigKnown, Recorded, Running
  <2> QED
    BY <2>1, <2>2, <2>3, <2>4 DEF TypeOK, StateContents
<1>3. CASE PrepareSave
  <2>1. memory' \in ConfigContents /\ memory'.from = memory.from /\ config' = Torn
    BY <1>3, ConfigType DEF PrepareSave, TypeOK
  <2>2. pc' = "save" /\ pc = "prepare" /\ (isNew \/ (command = "init" /\ given))
    BY <1>3 DEF PrepareSave, MustSave
  <2>3. UNCHANGED <<state, command, given, isNew, task, work, misloaded>>
    BY <1>3 DEF PrepareSave
  <2> QED
    BY <2>1, <2>2, <2>3, ConfigType DEF IInv, ConfigKnown, Recorded, Running
<1>4. CASE PrepareSaved
  BY <1>4 DEF PrepareSaved, IInv, ConfigKnown, Recorded, Running
<1>5. CASE PrepareFail
  BY <1>5, <1>a DEF PrepareFail, IInv, ConfigKnown, Recorded, Running
<1>6. CASE Serve
  BY <1>6 DEF Serve, IInv, ConfigKnown, Recorded, Running
<1>7. CASE ReadFail
  <2>1. CASE pc = "phase1"
    <3>1. pc' = "prepare" /\ state' \in {"absent", "torn"} /\ task' = "none"
      BY <1>7, <2>1 DEF ReadFail, GiveUp, IInv, PhaseKnown
    <3> QED
      BY <1>7, <1>a, <2>1, <3>1 DEF ReadFail, GiveUp, IInv, ConfigKnown, Recorded, Running
  <2>2. CASE pc # "phase1"
    <3>1. pc = "serve"
      BY <1>7, <2>2 DEF ReadFail, At, Importing
    <3> QED
      BY <1>7, <1>a, <2>2, <3>1 DEF ReadFail, GiveUp, IInv, ConfigKnown, Recorded, Running
  <2> QED
    BY <2>1, <2>2
<1>8. CASE ItemTruncate
  BY <1>8 DEF ItemTruncate, IInv, ConfigKnown, Recorded, Running
<1>9. CASE ItemWrite
  BY <1>9, Through DEF ItemWrite, At, HandledWith, Work, IInv, ConfigKnown, Recorded, Running
<1>10. CASE ItemFail
  BY <1>10, Through DEF ItemFail, At, HandledWith, Work, IInv, ConfigKnown, Recorded, Running
<1>11. CASE ConfigTruncate
  BY <1>11 DEF ConfigTruncate, IInv, ConfigKnown, PhaseKnown, Recorded, Running
<1>12. CASE ConfigWrite
  BY <1>12, <1>a, ConfigType DEF ConfigWrite, At, PhaseKnown, Importing, Work, TypeOK, IInv, ConfigKnown, Recorded, Running
<1>13. CASE RecordTruncate
  <2>1. work'.step = "recorded" /\ UNCHANGED <<config, pc, command, given, memory, isNew, task, misloaded>>
    BY <1>13, <1>a DEF RecordTruncate, Work, Steps
  <2>2. CASE pc = "phase1"
    <3>1. task = "none" /\ state' = "torn" /\ work.step = "record"
      BY <1>13, <2>2 DEF RecordTruncate, At, IInv, PhaseKnown
    <3> QED
      BY <2>1, <2>2, <3>1 DEF IInv, ConfigKnown, Recorded, Running
  <2>3. CASE pc # "phase1"
    <3>1. pc = "serve" /\ task = "import"
      BY <1>13, <2>3 DEF RecordTruncate, At, Importing
    <3> QED
      BY <2>1, <3>1 DEF IInv, ConfigKnown, Recorded, Running
  <2> QED
    BY <2>2, <2>3
<1>14. CASE RecordWrite
  BY <1>14, <1>b, ConfigType DEF RecordWrite, At, Importing, IInv, ConfigKnown, Recorded, Running
<1>15. CASE SaveFail
  <2>1. CASE pc = "phase1"
    <3>1. pc' = "prepare" /\ state' \in {"absent", "torn"} /\ task' = "none"
      BY <1>15, <2>1 DEF SaveFail, GiveUp, IInv, PhaseKnown
    <3> QED
      BY <1>15, <1>a, <2>1, <3>1 DEF SaveFail, GiveUp, IInv, ConfigKnown, Recorded, Running
  <2>2. CASE pc # "phase1"
    <3>1. pc = "serve"
      BY <1>15, <2>2 DEF SaveFail, At, Importing
    <3> QED
      BY <1>15, <1>a, <2>2, <3>1 DEF SaveFail, GiveUp, IInv, ConfigKnown, Recorded, Running
  <2> QED
    BY <2>1, <2>2
<1>16. CASE Stop
  BY <1>16 DEF Stop, IInv, ConfigKnown, Recorded, Running
<1>17. ASSUME NEW i \in Items, Pick(i) PROVE ConfigKnown'
  BY <1>17, Picked DEF IInv, ConfigKnown, Recorded, Running
<1>18. ASSUME NEW i \in Items, ClientWrite(i) \/ ClientRemove(i) PROVE ConfigKnown'
  BY <1>18, Touched DEF Work, IInv, ConfigKnown, Recorded, Running
<1>19. CASE UNCHANGED vars
  BY <1>19 DEF vars, IInv, ConfigKnown, Recorded, Running
<1>20. CASE MigrateFail
  BY <1>20, <1>a, <1>b DEF MigrateFail, At, Importing, IInv, ConfigKnown, PhaseKnown, Recorded, Running
<1>21. CASE ReloadFail
  <2>1. pc = "phase1" /\ config = Config("minio", MinioKeyed) /\ state' = "phase1"
    BY <1>21 DEF ReloadFail, At, IInv, ConfigKnown
  <2>2. config.from = "minio" /\ memory.from \in {"fresh", "minio"}
    BY <2>1, ConfigType DEF IInv, ConfigKnown, Running
  <2>3. CASE command = "serve"
    <3>1. pc' = "off" /\ UNCHANGED <<config, misloaded>> /\ work' = NoWork
      BY <1>21, <2>3 DEF ReloadFail
    <3> QED
      BY <1>a, <2>2, <3>1 DEF ConfigKnown, Recorded, Running
  <2>4. CASE command # "serve"
    <3>1. /\ pc' = "prepare" /\ misloaded' /\ work' = Phase(PhaseTwo)
          /\ UNCHANGED <<config, command, memory, isNew>> /\ command = "init"
      BY <1>21, <2>4 DEF ReloadFail, TypeOK
    <3> QED
      BY <1>b, <2>1, <2>2, <3>1 DEF ConfigKnown, Recorded, Running
  <2> QED
    BY <2>3, <2>4
<1> QED
  BY <1>1, <1>2, <1>3, <1>4, <1>5, <1>6, <1>7, <1>8, <1>9, <1>10, <1>11, <1>12, <1>13,
     <1>14, <1>15, <1>16, <1>17, <1>18, <1>19, <1>20, <1>21
     DEF Next

\* An import that is not under way has failed or is finished.
LEMMA FinishedStep == TypeOK /\ IInv /\ [Next]_vars => Finished'
<1> SUFFICES ASSUME TypeOK, IInv, [Next]_vars PROVE Finished'
  OBVIOUS
<1> USE DEF disk, process, history
<1>a. work \in Work /\ NoWork = Phase({}) /\ NoWork.todo = {} /\ NoWork.step = "pick"
  BY PhaseType DEF TypeOK
<1>b. \A items \in {PhaseOne, PhaseTwo} : Phase(items).todo = items /\ Phase(items).step = "pick"
  BY PhaseType
<1>1. CASE Start
  <2>1. CASE config.from = "torn"
    BY <1>1 DEF Start, Finished
  <2>2. CASE config.from = "absent"
    BY <1>1 DEF Start, Finished
  <2>3. CASE config.from \in {"fresh", "minio"}
    BY <1>1 DEF Start, Finished
  <2> QED
    BY <2>1, <2>2, <2>3 DEF TypeOK, ConfigContents
<1>2. CASE Detect
  <2>1. CASE state = "absent"
    BY <1>2, <2>1 DEF Detect, Finished
  <2>2. CASE state = "phase1"
    BY <1>2, <2>2 DEF Detect, Finished
  <2>3. CASE state = "done"
    BY <1>2, <2>3 DEF Detect, Finished
  <2>4. CASE state = "torn"
    BY <1>2, <2>4 DEF Detect, Finished
  <2> QED
    BY <2>1, <2>2, <2>3, <2>4 DEF TypeOK, StateContents
<1>3. CASE PrepareSave
  BY <1>3 DEF PrepareSave, IInv, Finished
<1>4. CASE PrepareSaved
  BY <1>4 DEF PrepareSaved, IInv, Finished
<1>5. CASE PrepareFail
  BY <1>5 DEF PrepareFail, Finished
<1>6. CASE Serve
  BY <1>6 DEF Serve, IInv, Finished, TypeOK
<1>7. CASE ReadFail
  BY <1>7 DEF ReadFail, GiveUp, Finished
<1>8. CASE ItemTruncate
  BY <1>8 DEF ItemTruncate, IInv, Finished
<1>9. CASE ItemWrite
  BY <1>9, Through DEF ItemWrite, IInv, Finished
<1>10. CASE ItemFail
  BY <1>10, Through DEF ItemFail, IInv, Finished
<1>11. CASE ConfigTruncate
  BY <1>11 DEF ConfigTruncate, Finished
<1>12. CASE ConfigWrite
  BY <1>12 DEF ConfigWrite, IInv, Finished
<1>13. CASE RecordTruncate
  BY <1>13 DEF RecordTruncate, At, Importing, Finished
<1>14. CASE RecordWrite
  BY <1>14 DEF RecordWrite, Finished
<1>15. CASE SaveFail
  BY <1>15 DEF SaveFail, GiveUp, Finished
<1>16. CASE Stop
  BY <1>16 DEF Stop, Finished
<1>17. ASSUME NEW i \in Items, Pick(i) PROVE Finished'
  BY <1>17, Picked DEF IInv, Finished
<1>18. ASSUME NEW i \in Items, ClientWrite(i) \/ ClientRemove(i) PROVE Finished'
  BY <1>18, Touched DEF Work, IInv, Finished
<1>19. CASE UNCHANGED vars
  BY <1>19 DEF vars, IInv, Finished
<1>20. CASE MigrateFail
  BY <1>20 DEF MigrateFail, IInv, Finished
<1>21. CASE ReloadFail
  BY <1>21 DEF ReloadFail, IInv, Finished
<1> QED
  BY <1>1, <1>2, <1>3, <1>4, <1>5, <1>6, <1>7, <1>8, <1>9, <1>10, <1>11, <1>12, <1>13,
     <1>14, <1>15, <1>16, <1>17, <1>18, <1>19, <1>20, <1>21
     DEF Next

\* The item in hand, and the versions of clients.
LEMMA HandStep == TypeOK /\ IInv /\ [Next]_vars => (InHand /\ ClientsKnown /\ ClientsWin)'
<1> SUFFICES ASSUME TypeOK, IInv, [Next]_vars PROVE (InHand /\ ClientsKnown /\ ClientsWin)'
  OBVIOUS
<1> USE DEF disk, process, history
<1>a. work \in Work /\ NoWork = Phase({}) /\ NoWork.todo = {} /\ NoWork.step = "pick"
  BY PhaseType DEF TypeOK
<1>b. \A items \in {PhaseOne, PhaseTwo} : Phase(items).todo = items /\ Phase(items).step = "pick"
  BY PhaseType
<1>1. CASE Start
  <2>1. CASE config.from = "torn"
    BY <1>1, <1>a DEF Start, IInv, InHand, ClientsKnown, ClientsWin
  <2>2. CASE config.from = "absent"
    BY <1>1, <1>a DEF Start, IInv, InHand, ClientsKnown, ClientsWin
  <2>3. CASE config.from \in {"fresh", "minio"}
    BY <1>1, <1>a DEF Start, IInv, InHand, ClientsKnown, ClientsWin
  <2> QED
    BY <2>1, <2>2, <2>3 DEF TypeOK, ConfigContents
<1>2. CASE Detect
  <2>1. CASE state = "absent"
    BY <1>2, <1>b, <2>1 DEF Detect, IInv, InHand, ClientsKnown, ClientsWin
  <2>2. CASE state = "phase1"
    BY <1>2, <1>b, <2>2 DEF Detect, IInv, InHand, ClientsKnown, ClientsWin
  <2>3. CASE state = "done"
    BY <1>2, <2>3 DEF Detect, IInv, InHand, ClientsKnown, ClientsWin
  <2>4. CASE state = "torn"
    BY <1>2, <2>4 DEF Detect, IInv, InHand, ClientsKnown, ClientsWin
  <2> QED
    BY <2>1, <2>2, <2>3, <2>4 DEF TypeOK, StateContents
<1>3. CASE PrepareSave
  BY <1>3 DEF PrepareSave, IInv, InHand, ClientsKnown, ClientsWin
<1>4. CASE PrepareSaved
  BY <1>4 DEF PrepareSaved, IInv, InHand, ClientsKnown, ClientsWin
<1>5. CASE PrepareFail
  BY <1>5, <1>a DEF PrepareFail, IInv, InHand, ClientsKnown, ClientsWin
<1>6. CASE Serve
  BY <1>6 DEF Serve, IInv, InHand, ClientsKnown, ClientsWin
<1>7. CASE ReadFail
  BY <1>7, <1>a DEF ReadFail, GiveUp, IInv, InHand, ClientsKnown, ClientsWin
<1>8. CASE ItemTruncate
  BY <1>8
     DEF ItemTruncate, At, Overwritten, IInv, InHand, ClientsKnown, ClientsWin, TypeOK,
         Work
<1>9. CASE ItemWrite
  BY <1>9, Through DEF ItemWrite, At, Overwritten, IInv, InHand, ClientsKnown, ClientsWin
<1>10. CASE ItemFail
  BY <1>10, Through DEF ItemFail, IInv, InHand, ClientsKnown, ClientsWin
<1>11. CASE ConfigTruncate
  BY <1>11 DEF ConfigTruncate, IInv, InHand, ClientsKnown, ClientsWin
<1>12. CASE ConfigWrite
  BY <1>12 DEF ConfigWrite, IInv, InHand, ClientsKnown, ClientsWin
<1>13. CASE RecordTruncate
  BY <1>13 DEF RecordTruncate, IInv, InHand, ClientsKnown, ClientsWin
<1>14. CASE RecordWrite
  BY <1>14, <1>a, <1>b DEF RecordWrite, IInv, InHand, ClientsKnown, ClientsWin
<1>15. CASE SaveFail
  BY <1>15, <1>a DEF SaveFail, GiveUp, IInv, InHand, ClientsKnown, ClientsWin
<1>16. CASE Stop
  BY <1>16, <1>a DEF Stop, IInv, InHand, ClientsKnown, ClientsWin
<1>17. ASSUME NEW i \in Items, Pick(i) PROVE (InHand /\ ClientsKnown /\ ClientsWin)'
  BY <1>17, Picked DEF IInv, InHand, ClientsKnown, ClientsWin, Readable
<1>18. ASSUME NEW i \in Items, ClientWrite(i) \/ ClientRemove(i) PROVE (InHand /\ ClientsKnown /\ ClientsWin)'
  BY <1>18, Touched DEF Work, IInv, InHand, ClientsKnown, ClientsWin, TypeOK
<1>19. CASE UNCHANGED vars
  BY <1>19 DEF vars, IInv, InHand, ClientsKnown, ClientsWin
<1>20. CASE MigrateFail
  BY <1>20, <1>a, <1>b DEF MigrateFail, IInv, InHand, ClientsKnown, ClientsWin
<1>21. CASE ReloadFail
  BY <1>21, <1>a, <1>b DEF ReloadFail, IInv, InHand, ClientsKnown, ClientsWin
<1> QED
  BY <1>1, <1>2, <1>3, <1>4, <1>5, <1>6, <1>7, <1>8, <1>9, <1>10, <1>11, <1>12, <1>13,
     <1>14, <1>15, <1>16, <1>17, <1>18, <1>19, <1>20, <1>21
     DEF Next

\* What the phases have imported, and what is recorded of it.
LEMMA ImportedStep == TypeOK /\ IInv /\ [Next]_vars => (Imported /\ RecordedMeansImported)'
<1> SUFFICES ASSUME TypeOK, IInv, [Next]_vars PROVE (Imported /\ RecordedMeansImported)'
  OBVIOUS
<1> USE DEF disk, process, history
<1>a. work \in Work /\ NoWork = Phase({}) /\ NoWork.todo = {} /\ NoWork.step = "pick"
  BY PhaseType DEF TypeOK
<1>b. \A items \in {PhaseOne, PhaseTwo} : Phase(items).todo = items /\ Phase(items).step = "pick"
  BY PhaseType
<1>c. PhaseOne \cap PhaseTwo = {} /\ Items = PhaseOne \cup PhaseTwo
  BY Disjoint DEF Items
<1>1. CASE Start
  <2>1. CASE config.from = "torn"
    BY <1>1 DEF Start, IInv, Imported, RecordedMeansImported, Settled
  <2>2. CASE config.from = "absent"
    BY <1>1 DEF Start, IInv, Imported, RecordedMeansImported, Settled
  <2>3. CASE config.from \in {"fresh", "minio"}
    BY <1>1 DEF Start, IInv, Imported, RecordedMeansImported, Settled
  <2> QED
    BY <2>1, <2>2, <2>3 DEF TypeOK, ConfigContents
<1>2. CASE Detect
  <2>1. CASE state = "absent"
    BY <1>2, <1>b, <2>1 DEF Detect, IInv, Imported, RecordedMeansImported, Settled, TypeOK
  <2>2. CASE state = "phase1"
    BY <1>2, <2>2 DEF Detect, IInv, Imported, RecordedMeansImported, Settled
  <2>3. CASE state = "done"
    BY <1>2, <2>3 DEF Detect, IInv, Imported, RecordedMeansImported, Settled
  <2>4. CASE state = "torn"
    BY <1>2, <2>4 DEF Detect, IInv, Imported, RecordedMeansImported, PhaseKnown
  <2> QED
    BY <2>1, <2>2, <2>3, <2>4 DEF TypeOK, StateContents
<1>3. CASE PrepareSave
  BY <1>3 DEF PrepareSave, IInv, Imported, RecordedMeansImported, Settled
<1>4. CASE PrepareSaved
  BY <1>4 DEF PrepareSaved, IInv, Imported, RecordedMeansImported, Settled
<1>5. CASE PrepareFail
  BY <1>5, <1>a DEF PrepareFail, IInv, Imported, RecordedMeansImported, Settled
<1>6. CASE Serve
  BY <1>6, <1>b DEF Serve, IInv, Imported, RecordedMeansImported, Settled, PhaseKnown
<1>7. CASE ReadFail
  BY <1>7 DEF ReadFail, GiveUp, IInv, Imported, RecordedMeansImported, Settled, TypeOK
<1>8. CASE ItemTruncate
  BY <1>8, <1>c
     DEF ItemTruncate, At, Importing, IInv, Imported, RecordedMeansImported, Settled,
         PhaseKnown, InHand, TypeOK
<1>9. CASE ItemWrite
  BY <1>9, <1>c, Through
     DEF ItemWrite, At, IInv, Imported, RecordedMeansImported, Settled, InHand, TypeOK
<1>10. CASE ItemFail
  BY <1>10, Through DEF ItemFail, IInv, Imported, RecordedMeansImported, Settled
<1>11. CASE ConfigTruncate
  BY <1>11 DEF ConfigTruncate, IInv, Imported, RecordedMeansImported, Settled
<1>12. CASE ConfigWrite
  BY <1>12 DEF ConfigWrite, IInv, Imported, RecordedMeansImported, Settled
<1>13. CASE RecordTruncate
  BY <1>13 DEF RecordTruncate, IInv, Imported, RecordedMeansImported, Settled
<1>14. CASE RecordWrite
  BY <1>14
     DEF RecordWrite, At, Importing, IInv, Imported, RecordedMeansImported, Settled,
         PhaseKnown
<1>15. CASE SaveFail
  BY <1>15 DEF SaveFail, GiveUp, IInv, Imported, RecordedMeansImported, Settled, TypeOK
<1>16. CASE Stop
  BY <1>16 DEF Stop, IInv, Imported, RecordedMeansImported, Settled
<1>17. ASSUME NEW i \in Items, Pick(i) PROVE (Imported /\ RecordedMeansImported)'
  BY <1>17, Picked DEF IInv, Imported, RecordedMeansImported, Settled, ClientsKnown, Readable
<1>18. ASSUME NEW i \in Items, ClientWrite(i) \/ ClientRemove(i) PROVE (Imported /\ RecordedMeansImported)'
  BY <1>18, <1>c, Touched DEF Work, IInv, Imported, RecordedMeansImported, Settled, TypeOK
<1>19. CASE UNCHANGED vars
  BY <1>19 DEF vars, IInv, Imported, RecordedMeansImported, Settled
<1>20. CASE MigrateFail
  BY <1>20, <1>a, <1>b DEF MigrateFail, At, Importing, IInv, Imported, RecordedMeansImported, Settled, PhaseKnown
<1>21. CASE ReloadFail
  BY <1>21, <1>a, <1>b DEF ReloadFail, At, Importing, IInv, Imported, RecordedMeansImported, Settled, PhaseKnown
<1> QED
  BY <1>1, <1>2, <1>3, <1>4, <1>5, <1>6, <1>7, <1>8, <1>9, <1>10, <1>11, <1>12, <1>13,
     <1>14, <1>15, <1>16, <1>17, <1>18, <1>19, <1>20, <1>21
     DEF Next

-----------------------------------------------------------------------------
(* The theorems *)

LEMMA InvInit == Init => IInv
<1> SUFFICES ASSUME Init PROVE IInv
  OBVIOUS
<1>1. work.step = "pick" /\ work.todo = {}
  BY PhaseType DEF Init
<1>2. InHand /\ ClientsKnown /\ ClientsWin
  BY <1>1 DEF Init, InHand, ClientsKnown, ClientsWin
<1>3. PhaseKnown /\ Imported
  BY <1>1 DEF Init, PhaseKnown, Imported
<1>4. ConfigKnown /\ Finished /\ RecordedMeansImported
  BY <1>1 DEF Init, ConfigKnown, Finished, RecordedMeansImported, Recorded, Running
<1> QED
  BY <1>2, <1>3, <1>4 DEF IInv

LEMMA InvStep == TypeOK /\ IInv /\ [Next]_vars => IInv'
  BY PhaseStep, ConfigStep, FinishedStep, HandStep, ImportedStep DEF IInv

LEMMA Invariant == Spec => [](TypeOK /\ IInv)
  BY TypeInit, TypeStep, InvInit, InvStep, PTL DEF Spec

\* Every variable always has its type, and the goroutine of phase 2 only ever
\* runs in a process that serves (cmd/serve.go, cmd/init.go).
THEOREM TypeCorrect == Spec => []TypeOK
  BY Invariant, PTL

\* What .import-state says was imported is there, through crashes, failed
\* writes and restarts at any step, except for items given up with a warning
\* and those that clients have changed (metadata/import.go).
THEOREM RecordedImported == Spec => []RecordedMeansImported
<1>1. IInv => RecordedMeansImported
  BY DEF IInv
<1> QED
  BY <1>1, Invariant, PTL

\* The import overwrites no version of a client's that it could have seen.
THEOREM ClientsKept == Spec => []ClientsWin
<1>1. IInv => ClientsWin
  BY DEF IInv
<1> QED
  BY <1>1, Invariant, PTL

\* A server that serves after a recorded phase 1 runs with the configuration on
\* disk, and unless an init could not load again what it had imported that is
\* MinIO's (startup/starter.go, cmd/init.go).
THEOREM ConfigKept == Spec => []ConfigAuthoritative
<1>1. TypeOK /\ IInv => ConfigAuthoritative
  BY DEF IInv, ConfigKnown, ConfigAuthoritative, Recorded, Running
<1> QED
  BY <1>1, Invariant, PTL

\* A server that serves with no import in progress, and without a failure, has
\* finished it: CheckAndImportMinIO takes up what was interrupted.
THEOREM Resumed == Spec => []ImportResumed
<1>1. IInv => ImportResumed
  BY DEF IInv, Finished, ImportResumed
<1> QED
  BY <1>1, Invariant, PTL

\* Once both phases are recorded no step but a client's changes what was
\* imported, and the configuration only changes where an init sets credentials
\* that are missing (metadata/import.go, cmd/init.go).
THEOREM ImportedOnce == Spec => ImportsOnce
<1> DEFINE Once == [state = "done" /\ touched' = touched /\ changes' = changes =>
                      /\ UNCHANGED <<file, state>>
                      /\ config' # config => command = "init" /\ given /\ ~config.keyed]_vars
<1>1. TypeOK /\ IInv /\ [Next]_vars => Once
  <2> SUFFICES ASSUME TypeOK, IInv, Next, state = "done", touched' = touched, changes' = changes
               PROVE  /\ UNCHANGED <<file, state>>
                      /\ config' # config => command = "init" /\ given /\ ~config.keyed
    BY DEF vars, disk
  <2>1. pc # "phase1" /\ task = "none" /\ work.step = "pick"
    BY DEF IInv, PhaseKnown, Importing, TypeOK
  <2>2. ~Importing
    BY <2>1 DEF Importing
  <2>3. \A i \in Items : ~ClientWrite(i) /\ ~ClientRemove(i)
    BY DEF ClientWrite, ClientRemove, Touch, TypeOK
  <2>4. Running => ~isNew
    BY DEF IInv, ConfigKnown, Recorded
  <2>5. CASE PrepareSave
    <3>1. memory = config
      BY <2>5 DEF PrepareSave, IInv, ConfigKnown, Recorded, Running
    <3> QED
      BY <2>4, <2>5, <3>1 DEF PrepareSave, MustSave, Running
  <2>6. CASE PrepareSaved
    <3>1. config = Torn /\ command = "init" /\ given
      BY <2>4, <2>6 DEF PrepareSaved, IInv, ConfigKnown, Running
    <3> QED
      BY <2>6, <3>1 DEF PrepareSaved, Torn, Config
  <2>7. CASE ~PrepareSave /\ ~PrepareSaved
    BY <2>1, <2>2, <2>3, <2>7
       DEF Next, Start, Detect, MigrateFail, PrepareFail, Serve, ReadFail, ItemTruncate,
           ItemWrite, ItemFail, ConfigTruncate, ConfigWrite, RecordTruncate, RecordWrite,
           ReloadFail, SaveFail, Stop, Pick, At, disk
  <2> QED
    BY <2>5, <2>6, <2>7
<1> QED
  BY <1>1, Invariant, PTL DEF Spec, ImportsOnce
=============================================================================
