---------------------------- MODULE ObjectStore ----------------------------
(***************************************************************************)
(* The object path of the server: PUT, GET, HEAD, DELETE, tagging and the  *)
(* ownership lookup of the authorization middleware, as interleaved        *)
(* requests over four shared stores:                                       *)
(*                                                                         *)
(*   file    the data directory, one file per key                          *)
(*   staged  .dirio-uploads/<bucket>, one temp file per PUT in progress    *)
(*   disk    .dirio/objects/<bucket>/<key>.json, written in place          *)
(*   cache   objMetaCache, the in-memory LRU over disk                     *)
(*                                                                         *)
(* One bucket, which exists; keys are flat, so directory creation and      *)
(* pruning leave no trace.  A PUT body is an identifier in 1..MaxPuts and  *)
(* stands for everything the request fixes: bytes, size, MD5 and owner.    *)
(* Every filesystem call is one step; requests interleave between steps.   *)
(***************************************************************************)
EXTENDS Naturals

CONSTANTS
    Procs,      \* request goroutines that may be active at once
    Keys,       \* object keys
    MaxPuts,    \* bound: PUT bodies sent over a behaviour
    Ops,        \* the operations the environment may request
    CanCancel,  \* may a client disconnect and cancel its request context?
    CanFail,    \* may the filesystem refuse to change a file?
    CanCrash,   \* may the process die and restart?
    Free        \* no goroutine holds the key mutex

AllOps == {"put", "get", "head", "delete", "tag", "owner"}

ASSUME KeysAssumption == Keys # {}
ASSUME OpsAssumption == Ops \subseteq AllOps
ASSUME MaxPutsAssumption == MaxPuts \in Nat
ASSUME FlagsAssumption ==
    CanCancel \in BOOLEAN /\ CanFail \in BOOLEAN /\ CanCrash \in BOOLEAN
ASSUME FreeAssumption == Free \notin Procs

VARIABLES
    file,       \* key -> body at its data path, Absent if there is none
    staged,     \* bodies that have a temp file in the staging directory
    whole,      \* bodies all of whose bytes were copied to their temp file
    committed,  \* key -> bodies ever renamed to its data path (history)
    disk,       \* key -> content of its metadata JSON file
    linked,     \* goroutines that have the JSON file now at its path open
    cache,      \* key -> cached metadata
    lock,       \* key -> holder of its mutex in keyMutexes
    puts,       \* bodies handed out so far
    req,        \* goroutine -> its request
    up          \* is the process running?

vars == <<file, staged, whole, committed, disk, linked, cache, lock, puts, req, up>>

stores == <<file, staged, whole, committed, disk, linked, cache, lock, puts, up>>

-----------------------------------------------------------------------------
(* Values *)

Bodies == 1..MaxPuts
Absent == 0

\* Metadata of a PUT body: etag stands for all its fixed fields; tags are
\* what PutObjectTagging may add.
Meta == [etag : Bodies, tags : BOOLEAN]

NoMeta == [etag |-> Absent, tags |-> FALSE]     \* no JSON file / not cached

\* Two contents json.Unmarshal refuses: a JSON file between its truncation
\* and its write, and one that holds the writes of two requests overlaid.
Torn == [etag |-> Absent, tags |-> TRUE]
Overlaid == [etag |-> Absent, overlaid |-> TRUE]

PutPCs    == {"stage", "copy", "finalize", "lock", "rename", "undo"}
ReadPCs   == {"stat", "open", "lookup", "read", "fill", "compute"}
DeletePCs == {"dstat", "remove", "dmeta", "dcache"}
SavePCs   == {"mutate", "truncate", "write", "publish"}
PCs == {"idle", "done"} \cup PutPCs \cup ReadPCs \cup DeletePCs \cup SavePCs

Outcomes == {"none", "ok", "notfound", "error"}

Request ==
    [pc : PCs, op : AllOps, key : Keys,
     body : Bodies \cup {Absent},    \* the body a PUT carries
     custom : BOOLEAN,               \* does the PUT carry custom metadata?
     size : Bodies \cup {Absent},    \* the body whose size Stat returned
     open : Bodies \cup {Absent},    \* the body the opened file holds
     meta : Meta \cup {NoMeta},      \* metadata in hand
     checked : BOOLEAN,              \* tagging: has ObjectExists said yes?
     cancelled : BOOLEAN,            \* is the request context cancelled?
     out : Outcomes]

Idle == [pc |-> "idle", op |-> "get", key |-> CHOOSE k \in Keys : TRUE,
         body |-> Absent, custom |-> FALSE, size |-> Absent, open |-> Absent,
         meta |-> NoMeta, checked |-> FALSE, cancelled |-> FALSE, out |-> "none"]

FirstPC(op) ==
    CASE op = "put"    -> "stage"
      [] op = "delete" -> "dstat"
      [] op = "owner"  -> "lookup"
      [] OTHER         -> "stat"

-----------------------------------------------------------------------------
(* Helpers *)

At(p, pc) == up /\ req[p].pc = pc

Goto(p, pc) == req' = [req EXCEPT ![p].pc = pc]

Finish(p, out) == req' = [req EXCEPT ![p].pc = "done", ![p].out = out]

\* The goroutine holds the key mutex: from the lock to the deferred unlock.
InCommit(p) ==
    /\ req[p].op = "put"
    /\ req[p].pc \in {"rename", "undo", "truncate", "write", "publish"}

Unlock(p) == lock' = [lock EXCEPT ![req[p].key] = Free]

-----------------------------------------------------------------------------
(* Faulty variants of actions below, never part of Next: each stands for a *)
(* bug this code could have and shows that a property would notice it.     *)

\* json.Unmarshal's error is ignored.
ReadDiskUnchecked(p) ==
    /\ At(p, "read")
    /\ disk[req[p].key] # NoMeta
    /\ req' = [req EXCEPT ![p].meta = disk[req[p].key], ![p].pc = "fill"]
    /\ UNCHANGED stores

\* io.Copy's error is ignored.
PutCopyFailIgnored(p) ==
    /\ At(p, "copy")
    /\ req[p].cancelled \/ CanFail
    /\ Goto(p, "finalize")
    /\ UNCHANGED stores

\* The early return after a failed rename forgets the unlock.
PutRenameFailLocked(p) ==
    /\ At(p, "rename")
    /\ CanFail
    /\ staged' = staged \ {req[p].body}
    /\ Finish(p, "error")
    /\ UNCHANGED <<file, whole, committed, disk, linked, cache, lock, puts, up>>

\* commitObject's error is ignored.
PutRenameFailSaved(p) ==
    /\ At(p, "rename")
    /\ CanFail
    /\ staged' = staged \ {req[p].body}
    /\ req' = [req EXCEPT ![p].pc = "truncate",
                          ![p].meta = [etag |-> req[p].body, tags |-> FALSE]]
    /\ UNCHANGED <<file, whole, committed, disk, linked, cache, lock, puts, up>>

\* The rollback happens but the request reports success.
PutUndoSilent(p) ==
    /\ At(p, "undo")
    /\ file' = [file EXCEPT ![req[p].key] = Absent]
    /\ Finish(p, "ok")
    /\ Unlock(p)
    /\ UNCHANGED <<staged, whole, committed, disk, linked, cache, puts, up>>

\* No mutual exclusion per key.
PutLockShared(p) ==
    /\ At(p, "lock")
    /\ lock' = [lock EXCEPT ![req[p].key] = p]
    /\ Goto(p, "rename")
    /\ UNCHANGED <<file, staged, whole, committed, disk, linked, cache, puts, up>>

\* The normal return forgets the unlock.
SavePublishLocked(p) ==
    /\ At(p, "publish")
    /\ cache' = [cache EXCEPT ![req[p].key] = req[p].meta]
    /\ Finish(p, "ok")
    /\ UNCHANGED <<file, staged, whole, committed, disk, linked, lock, puts, up>>

-----------------------------------------------------------------------------
Init ==
    /\ file = [k \in Keys |-> Absent]
    /\ staged = {}
    /\ whole = {}
    /\ committed = [k \in Keys |-> {}]
    /\ disk = [k \in Keys |-> NoMeta]
    /\ linked = {}
    /\ cache = [k \in Keys |-> NoMeta]
    /\ lock = [k \in Keys |-> Free]
    /\ puts = 0
    /\ req = [p \in Procs |-> Idle]
    /\ up = TRUE

(* A request arrives and is routed; a PUT brings a body of its own. *)
Begin(p) ==
    /\ At(p, "idle")
    /\ \E op \in Ops, k \in Keys, custom \in BOOLEAN :
        /\ op = "put" => puts < MaxPuts
        /\ custom => op = "put"
        /\ puts' = IF op = "put" THEN puts + 1 ELSE puts
        /\ req' = [req EXCEPT ![p] =
               [Idle EXCEPT !.pc = FirstPC(op), !.op = op, !.key = k,
                            !.custom = custom,
                            !.body = IF op = "put" THEN puts + 1 ELSE Absent]]
    /\ UNCHANGED <<file, staged, whole, committed, disk, linked, cache, lock, up>>

(* The response is sent and the goroutine can serve another request. *)
Reply(p) ==
    /\ At(p, "done")
    /\ req' = [req EXCEPT ![p] = Idle]
    /\ UNCHANGED stores

-----------------------------------------------------------------------------
(* PutObject *)

PutStage(p) ==
    /\ At(p, "stage")
    /\ \/ (req[p].cancelled \/ CanFail) /\ Finish(p, "error") /\ UNCHANGED staged
       \/ /\ ~req[p].cancelled
          /\ Goto(p, "copy")
          /\ staged' = staged \cup {req[p].body}
    /\ UNCHANGED <<file, whole, committed, disk, linked, cache, lock, puts, up>>

(* io.Copy consumed the whole request body and the temp file is closed. *)
PutCopy(p) ==
    /\ At(p, "copy")
    /\ whole' = whole \cup {req[p].body}
    /\ Goto(p, "finalize")
    /\ UNCHANGED <<file, staged, committed, disk, linked, cache, lock, puts, up>>

(* The copy stops early, on a cancelled context or a failed write. *)
PutCopyFail(p) ==
    /\ At(p, "copy")
    /\ req[p].cancelled \/ CanFail
    /\ staged' = staged \ {req[p].body}
    /\ Finish(p, "error")
    /\ UNCHANGED <<file, whole, committed, disk, linked, cache, lock, puts, up>>

(* The last look at the context; on this return path nothing is aborted. *)
PutFinalize(p) ==
    /\ At(p, "finalize")
    /\ \/ req[p].cancelled /\ Finish(p, "error")
       \/ ~req[p].cancelled /\ Goto(p, "lock")
    /\ UNCHANGED stores

PutLock(p) ==
    /\ At(p, "lock")
    /\ lock[req[p].key] = Free
    /\ lock' = [lock EXCEPT ![req[p].key] = p]
    /\ Goto(p, "rename")
    /\ UNCHANGED <<file, staged, whole, committed, disk, linked, cache, puts, up>>

(* commitObject, and the construction of the metadata that describes it. *)
PutRename(p) ==
    /\ At(p, "rename")
    /\ file' = [file EXCEPT ![req[p].key] = req[p].body]
    /\ staged' = staged \ {req[p].body}
    /\ committed' = [committed EXCEPT ![req[p].key] = @ \cup {req[p].body}]
    /\ req' = [req EXCEPT ![p].pc = "truncate",
                          ![p].meta = [etag |-> req[p].body, tags |-> FALSE]]
    /\ UNCHANGED <<whole, disk, linked, cache, lock, puts, up>>

PutRenameFail(p) ==
    /\ At(p, "rename")
    /\ CanFail
    /\ staged' = staged \ {req[p].body}
    /\ Unlock(p)
    /\ Finish(p, "error")
    /\ UNCHANGED <<file, whole, committed, disk, linked, cache, puts, up>>

(* PutObjectMetadata failed: with custom metadata the object file is      *)
(* removed and the request fails, without it the failure is only logged.  *)
(* If the removal fails too, the request fails and its body stays.         *)
PutUndo(p) ==
    /\ At(p, "undo")
    /\ \/ /\ req[p].custom
          /\ \/ file' = [file EXCEPT ![req[p].key] = Absent]
             \/ CanFail /\ UNCHANGED file
          /\ Finish(p, "error")
       \/ ~req[p].custom /\ Finish(p, "ok") /\ UNCHANGED file
    /\ Unlock(p)
    /\ UNCHANGED <<staged, whole, committed, disk, linked, cache, puts, up>>

-----------------------------------------------------------------------------
(* PutObjectMetadata, called by PutObject and by PutObjectTagging: check   *)
(* the context, truncate the JSON file, write it, then update the cache.   *)

SaveFailed(p) ==
    IF req[p].op = "put" THEN Goto(p, "undo") ELSE Finish(p, "error")

SaveTruncate(p) ==
    /\ At(p, "truncate")
    /\ \/ req[p].cancelled /\ SaveFailed(p) /\ UNCHANGED <<disk, linked>>
       \/ /\ ~req[p].cancelled
          /\ Goto(p, "write")
          /\ disk' = [disk EXCEPT ![req[p].key] = Torn]
          /\ linked' = linked \cup {p}
    /\ UNCHANGED <<file, staged, whole, committed, cache, lock, puts, up>>

(* One write at the start of the file.  Another request may have written   *)
(* there since the last truncation; then a shorter record leaves a tail of *)
(* the longer one.  If the file was unlinked, the write leaves no trace.   *)
SaveWrite(p) ==
    /\ At(p, "write")
    /\ LET k == req[p].key IN
       \/ p \in linked /\ disk' = [disk EXCEPT ![k] = req[p].meta]
       \/ p \in linked /\ disk[k] # Torn /\ disk' = [disk EXCEPT ![k] = Overlaid]
       \/ p \notin linked /\ UNCHANGED disk
    /\ linked' = linked \ {p}
    /\ Goto(p, "publish")
    /\ UNCHANGED <<file, staged, whole, committed, cache, lock, puts, up>>

(* Creating or writing the JSON file fails: what was truncated stays so. *)
SaveFail(p) ==
    /\ At(p, "truncate") \/ At(p, "write")
    /\ CanFail
    /\ linked' = linked \ {p}
    /\ SaveFailed(p)
    /\ UNCHANGED <<file, staged, whole, committed, disk, cache, lock, puts, up>>

(* The cache entry is set; PutObject then returns through its unlock. *)
SavePublish(p) ==
    /\ At(p, "publish")
    /\ cache' = [cache EXCEPT ![req[p].key] = req[p].meta]
    /\ IF req[p].op = "put" THEN Unlock(p) ELSE UNCHANGED lock
    /\ Finish(p, "ok")
    /\ UNCHANGED <<file, staged, whole, committed, disk, linked, puts, up>>

-----------------------------------------------------------------------------
(* GetObject, GetObjectMetadata (HEAD), GetObjectOwnerUUID and the two     *)
(* reads of PutObjectTagging.                                              *)

ReadStat(p) ==
    /\ At(p, "stat")
    /\ LET b == file[req[p].key] IN
       \/ req[p].cancelled /\ Finish(p, "error")
       \/ ~req[p].cancelled /\ b = Absent /\ Finish(p, "notfound")
       \/ /\ ~req[p].cancelled /\ b # Absent
          /\ req' = [req EXCEPT
                ![p].size = b,
                ![p].pc = IF req[p].op = "get" THEN "open" ELSE "lookup"]
    /\ UNCHANGED stores

(* An error of Open is returned as it is: GetObject maps only Stat's       *)
(* not-found error to ErrNoSuchKey, so the client sees InternalError.      *)
ReadOpen(p) ==
    /\ At(p, "open")
    /\ LET b == file[req[p].key] IN
       \/ b = Absent /\ Finish(p, "error")
       \/ b # Absent /\ req' = [req EXCEPT ![p].open = b, ![p].pc = "lookup"]
    /\ UNCHANGED stores

(* The metadata is in hand: a tagging request that so far only knows that  *)
(* the object exists looks it up again, and one that did goes on to write. *)
GotMeta(p, m) ==
    IF req[p].op = "tag"
    THEN req' = [req EXCEPT ![p].meta = m, ![p].checked = TRUE,
                            ![p].pc = IF req[p].checked THEN "mutate" ELSE "lookup"]
    ELSE req' = [req EXCEPT ![p].meta = m, ![p].pc = "done", ![p].out = "ok"]

(* No usable metadata.  GET and HEAD go on to compute basic metadata from  *)
(* the file; the ownership lookup reports not found when the JSON file is  *)
(* absent and fails when it cannot be parsed; tagging fails.               *)
MetaFailed(p, absent) ==
    CASE req[p].op = "owner" -> Finish(p, IF absent THEN "notfound" ELSE "error")
      [] req[p].op = "tag" /\ req[p].checked -> Finish(p, "error")
      [] OTHER -> Goto(p, "compute")

ReadLookup(p) ==
    /\ At(p, "lookup")
    /\ LET m == cache[req[p].key] IN
       \/ req[p].cancelled /\ MetaFailed(p, FALSE)
       \/ ~req[p].cancelled /\ m # NoMeta /\ GotMeta(p, m)
       \/ ~req[p].cancelled /\ m = NoMeta /\ Goto(p, "read")
    /\ UNCHANGED stores

ReadDisk(p) ==
    /\ At(p, "read")
    /\ LET m == disk[req[p].key] IN
       \/ m \notin Meta /\ MetaFailed(p, m = NoMeta)
       \/ m \in Meta /\ req' = [req EXCEPT ![p].meta = m, ![p].pc = "fill"]
    /\ UNCHANGED stores

(* calculateETag opens the path again: it hashes the file there is now,    *)
(* and returns an empty ETag if there is none.                             *)
ReadCompute(p) ==
    /\ At(p, "compute")
    /\ GotMeta(p, [etag |-> file[req[p].key], tags |-> FALSE])
    /\ UNCHANGED stores

ReadFill(p) ==
    /\ At(p, "fill")
    /\ cache' = [cache EXCEPT ![req[p].key] = req[p].meta]
    /\ GotMeta(p, req[p].meta)
    /\ UNCHANGED <<file, staged, whole, committed, disk, linked, lock, puts, up>>

(* meta.Tags = req.Tags through the pointer the cache holds, so that its   *)
(* entry changes before anything is saved; unless the entry was evicted,   *)
(* or replaced, perhaps by an equal record, since the lookup.              *)
TagMutate(p) ==
    /\ At(p, "mutate")
    /\ LET k == req[p].key
           m == [req[p].meta EXCEPT !.tags = TRUE]
       IN /\ \/ cache[k] = req[p].meta /\ cache' = [cache EXCEPT ![k] = m]
             \/ UNCHANGED cache
          /\ req' = [req EXCEPT ![p].meta = m, ![p].pc = "truncate"]
    /\ UNCHANGED <<file, staged, whole, committed, disk, linked, lock, puts, up>>

-----------------------------------------------------------------------------
(* DeleteObject: no key mutex is taken.  A delete of an absent key is a    *)
(* success, but a file that goes away between Stat and Remove is an error. *)

DeleteStat(p) ==
    /\ At(p, "dstat")
    /\ LET b == file[req[p].key] IN
       \/ req[p].cancelled /\ Finish(p, "error")
       \/ ~req[p].cancelled /\ b = Absent /\ Finish(p, "ok")
       \/ ~req[p].cancelled /\ b # Absent /\ Goto(p, "remove")
    /\ UNCHANGED stores

DeleteRemove(p) ==
    /\ At(p, "remove")
    /\ LET b == file[req[p].key] IN
       \/ (b = Absent \/ CanFail) /\ Finish(p, "error") /\ UNCHANGED file
       \/ /\ b # Absent
          /\ Goto(p, "dmeta")
          /\ file' = [file EXCEPT ![req[p].key] = Absent]
    /\ UNCHANGED <<staged, whole, committed, disk, linked, cache, lock, puts, up>>

(* DeleteObjectMetadata; its errors are logged and the delete succeeds. *)
DeleteMeta(p) ==
    /\ At(p, "dmeta")
    /\ LET k == req[p].key IN
       \/ (req[p].cancelled \/ CanFail) /\ Finish(p, "ok") /\ UNCHANGED <<disk, linked>>
       \/ /\ ~req[p].cancelled
          /\ Goto(p, "dcache")
          /\ disk' = [disk EXCEPT ![k] = NoMeta]
          /\ linked' = {q \in linked : req[q].key # k}
    /\ UNCHANGED <<file, staged, whole, committed, cache, lock, puts, up>>

DeleteCache(p) ==
    /\ At(p, "dcache")
    /\ cache' = [cache EXCEPT ![req[p].key] = NoMeta]
    /\ Finish(p, "ok")
    /\ UNCHANGED <<file, staged, whole, committed, disk, linked, lock, puts, up>>

-----------------------------------------------------------------------------
(* The environment *)

Cancel(p) ==
    /\ CanCancel /\ up
    /\ req[p].pc \notin {"idle", "done"}
    /\ ~req[p].cancelled
    /\ req' = [req EXCEPT ![p].cancelled = TRUE]
    /\ UNCHANGED stores

(* The LRU drops an entry when it is full. *)
Evict(k) ==
    /\ up
    /\ cache[k] # NoMeta
    /\ cache' = [cache EXCEPT ![k] = NoMeta]
    /\ UNCHANGED <<file, staged, whole, committed, disk, linked, lock, puts, req, up>>

Crash ==
    /\ CanCrash /\ up
    /\ up' = FALSE
    /\ req' = [p \in Procs |-> Idle]
    /\ linked' = {}
    /\ lock' = [k \in Keys |-> Free]
    /\ cache' = [k \in Keys |-> NoMeta]
    /\ UNCHANGED <<file, staged, whole, committed, disk, puts>>

(* storage.New sweeps the staging directory before anything is served. *)
Start ==
    /\ ~up
    /\ up' = TRUE
    /\ staged' = {}
    /\ UNCHANGED <<file, whole, committed, disk, linked, cache, lock, puts, req>>

-----------------------------------------------------------------------------
PutStep(p) ==
    \/ PutStage(p) \/ PutCopy(p) \/ PutCopyFail(p) \/ PutFinalize(p)
    \/ PutLock(p) \/ PutRename(p) \/ PutRenameFail(p) \/ PutUndo(p)

SaveStep(p) ==
    SaveTruncate(p) \/ SaveWrite(p) \/ SaveFail(p) \/ SavePublish(p)

ReadStep(p) ==
    \/ ReadStat(p) \/ ReadOpen(p) \/ ReadLookup(p) \/ ReadDisk(p)
    \/ ReadFill(p) \/ ReadCompute(p)

DeleteStep(p) ==
    DeleteStat(p) \/ DeleteRemove(p) \/ DeleteMeta(p) \/ DeleteCache(p)

Next ==
    \/ \E p \in Procs :
         \/ Begin(p) \/ Reply(p) \/ Cancel(p)
         \/ PutStep(p) \/ SaveStep(p) \/ ReadStep(p) \/ DeleteStep(p)
         \/ TagMutate(p)
    \/ \E k \in Keys : Evict(k)
    \/ Crash
    \/ Start

Spec == Init /\ [][Next]_vars

(* The runtime schedules every runnable goroutine, the server's ReadTimeout *)
(* ends an upload whose client stalls, sync.Mutex hands the lock to a      *)
(* waiter it has starved, and an operator restarts the process.  Nothing   *)
(* obliges a client to send, a cache to evict or a disk to fail.           *)
Serve(p) ==
    Reply(p) \/ PutStep(p) \/ SaveStep(p) \/ ReadStep(p) \/ DeleteStep(p) \/ TagMutate(p)

Fairness ==
    /\ \A p \in Procs : WF_vars(Serve(p)) /\ SF_vars(PutLock(p))
    /\ WF_vars(Start)

FairSpec == Spec /\ Fairness

-----------------------------------------------------------------------------
(* Properties *)

TypeOK ==
    /\ file \in [Keys -> Bodies \cup {Absent}]
    /\ staged \subseteq Bodies
    /\ whole \subseteq Bodies
    /\ committed \in [Keys -> SUBSET Bodies]
    /\ disk \in [Keys -> Meta \cup {NoMeta, Torn, Overlaid}]
    /\ linked \subseteq Procs
    /\ cache \in [Keys -> Meta \cup {NoMeta}]
    /\ lock \in [Keys -> Procs \cup {Free}]
    /\ puts \in 0..MaxPuts
    /\ req \in [Procs -> Request]
    /\ up \in BOOLEAN

(* No torn objects.  What lies at a data path, or is being streamed to a   *)
(* reader, is one complete PUT body, and a body lies in one place only:    *)
(* staging plus rename never let a reader see a partial, aborted or        *)
(* foreign upload, whatever is cancelled, fails or crashes.                *)
WholeBodies ==
    /\ \A k \in Keys :
         /\ committed[k] \subseteq whole \ staged
         /\ file[k] # Absent => file[k] \in committed[k]
         /\ \A j \in Keys \ {k} : committed[j] \cap committed[k] = {}
    /\ \A p \in Procs :
         req[p].open # Absent => req[p].open \in committed[req[p].key]

(* The key mutex is held exactly by the PUT between its Lock and its       *)
(* deferred Unlock: every return path of PutObject gives it back, a crash  *)
(* leaves none behind, and two PUTs never commit to one key at a time.     *)
CommitExclusive ==
    \A p \in Procs, k \in Keys :
        lock[k] = p <=> InCommit(p) /\ req[p].key = k

(* Metadata on disk or in the cache describes an upload that was renamed   *)
(* into place under that key: an upload that was refused, cancelled or     *)
(* failed before its commit never shows up as an ETag, a size or an owner. *)
MetadataOfCommitted ==
    \A k \in Keys : {disk[k].etag, cache[k].etag} \subseteq committed[k] \cup {Absent}

(* "last-write-wins for both file and metadata, atomically": with PUTs and *)
(* readers only, and nothing cancelled, failing or crashing, whenever the  *)
(* key mutex is free the JSON file describes the body at the data path.    *)
LastWriteWins ==
    \A k \in Keys :
        lock[k] = Free => disk[k] = [etag |-> file[k], tags |-> FALSE]

(* Every request is answered: no path leaves the key mutex locked.         *)
RequestsReturn == \A p \in Procs : req[p].pc # "idle" ~> req[p].pc = "idle"

-----------------------------------------------------------------------------
(* The data path as a linearizable register per key. *)

\* Has the request taken effect, as far as its client will ever tell?
Stage(r) ==
    CASE r.out = "error" -> "failed"
      [] r.out # "error" /\ r.pc \in {"stage", "copy", "finalize", "lock", "rename",
                                    "stat", "open", "dstat", "remove"} -> "pending"
      [] OTHER -> "effective"

\* The operations that do not touch the bytes of an object are not seen.
Visible(r) == r.pc # "idle" /\ r.op \in {"put", "get", "delete"}

ClientView(r) ==
    IF Visible(r)
    THEN [st |-> Stage(r), op |-> r.op, key |-> r.key,
          body |-> IF r.op = "get" THEN r.open ELSE r.body]
    ELSE [st |-> "idle"]

Register == INSTANCE ObjectRegister
    WITH val <- file, client <- [p \in Procs |-> ClientView(req[p])]

(* The bytes of an object behave as an atomic register: each PUT, GET and  *)
(* DELETE that answers with success takes effect once, at one instant      *)
(* between its request and its response, whatever else is going on; one    *)
(* that answers with an error has no effect, but for the PUTs that the     *)
(* register's Erase and Keep name.  Of metadata this says nothing.         *)
Linearizable == Register!Spec
=============================================================================
