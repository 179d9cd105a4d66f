------------------------------ MODULE Buckets ------------------------------
(***************************************************************************)
(* One bucket name: create, delete, policy and owner updates, and object   *)
(* requests, which recreate its directory, as interleaved requests over    *)
(*                                                                         *)
(*   dir     the bucket's data directory, which makes the bucket exist     *)
(*   rec     .dirio/buckets/<bucket>.json, read whole and written in place *)
(*   cached  the policy of the bucket in the policy engine's cache         *)
(*                                                                         *)
(* Bucket names share nothing.  No lock is held by any of these requests:  *)
(* only the file system orders them.  Objects appear only as "the          *)
(* directory is empty or not"; ObjectStore is about what is in them.       *)
(***************************************************************************)
EXTENDS Naturals

CONSTANTS
    Procs,      \* request goroutines that may be active at once
    Owners,     \* who may own a bucket; a nil owner (admin) is one of them
    Policies,   \* policy documents
    NoPolicy,   \* no policy document
    Ops,        \* the operations the environment may request
    CanFail,    \* may a write or the first read of all policies fail, a client go?
    CanCrash    \* may the process die and restart?

PolicyOps == {"putpolicy", "delpolicy"}
RecordOps == PolicyOps \cup {"transfer"}
BucketOps == RecordOps \cup {"create", "delete"}
ObjectOps == {"put", "get", "unlink"}
AllOps == BucketOps \cup ObjectOps

ASSUME OwnersAssumption == Owners # {}
ASSUME PoliciesAssumption == NoPolicy \notin Policies
ASSUME OpsAssumption == Ops \subseteq AllOps
ASSUME FlagsAssumption == CanFail \in BOOLEAN /\ CanCrash \in BOOLEAN

VARIABLES
    dir,        \* does the bucket's directory exist?
    obj,        \* does it hold an object?
    rec,        \* content of the bucket's JSON file
    linked,     \* goroutines that have the JSON file now at its path open
    cached,     \* the bucket's policy in the cache
    req,        \* goroutine -> its request
    up,         \* is the process running?
    known       \* what the requests that ran alone tell of the bucket (history)

disk == <<dir, obj, rec, linked>>
vars == <<disk, cached, req, up, known>>

-----------------------------------------------------------------------------
(* Values *)

MaybePolicy == Policies \cup {NoPolicy}
Record == [owner : Owners, policy : MaybePolicy]

\* No JSON file; two contents json.Unmarshal refuses: truncated and not yet
\* written, or the writes of two requests one over the other.
NoRecord == [bad |-> "none"]
Empty    == [bad |-> "empty"]
Garbled  == [bad |-> "garbled"]
Unreadable == {Empty, Garbled}

CreatePCs == {"stat", "mkdir", "undo", "show"}
DeletePCs == {"find", "list", "rmdir", "drop"}
SavePCs   == {"load", "truncate", "write"}
PolicyPCs == {"exists", "publish"}
ObjectPCs == {"head", "scope", "touch"}
PCs == {"idle", "done"} \cup CreatePCs \cup DeletePCs \cup SavePCs
           \cup PolicyPCs \cup ObjectPCs

\* failed: a write failed or the client went; error: any other error.
Outcomes == {"none", "ok", "exists", "notfound", "notempty", "error", "failed"}

Lives == {"there", "gone", "unknown"}

AnyOwner == CHOOSE o \in Owners : TRUE

Request ==
    [pc : PCs, op : AllOps,
     owner : Owners,            \* create, transfer: the owner to record
     meta : Record,             \* the record in hand, or to be written
     alone : BOOLEAN,           \* has no other request been in progress?
     saw : Lives,               \* what was known of the bucket at the start
     out : Outcomes]

Idle == [pc |-> "idle", op |-> "get", owner |-> AnyOwner,
         meta |-> [owner |-> AnyOwner, policy |-> NoPolicy],
         alone |-> FALSE, saw |-> "unknown", out |-> "none"]

\* told: does the cache agree with policy?
Known == [life : Lives, owner : Owners, policy : MaybePolicy, told : BOOLEAN]

Gone(told) == [life |-> "gone", owner |-> AnyOwner, policy |-> NoPolicy, told |-> told]
Unknown == [Gone(FALSE) EXCEPT !.life = "unknown"]

FirstPC(op) ==
    CASE op = "create"   -> "stat"
      [] op = "delete"   -> "find"
      [] op = "transfer" -> "load"
      [] op \in PolicyOps -> "exists"
      [] OTHER           -> "head"

Busy(p) == req[p].pc \notin {"idle", "done"}

Quiet == \A p \in Procs : ~Busy(p)

-----------------------------------------------------------------------------
(* Helpers *)

At(p, pc) == up /\ req[p].pc = pc

Goto(p, pc) == req' = [req EXCEPT ![p].pc = pc]

\* What is known of the bucket after r has answered out.
After(r, out) ==
    IF r.op \in ObjectOps THEN known
    ELSE IF ~r.alone \/ out = "failed" \/ (out = "error" /\ r.op \notin PolicyOps) THEN Unknown
    ELSE IF out # "ok" THEN known
    ELSE CASE r.op = "create" ->
                [life |-> "there", owner |-> r.owner, policy |-> NoPolicy,
                 told |-> known.told /\ known.policy = NoPolicy]
           [] r.op = "delete" -> Gone(known.told /\ known.policy = NoPolicy)
           [] r.op \in PolicyOps ->
                [life |-> "there", policy |-> r.meta.policy, told |-> TRUE,
                 owner |-> IF known.life = "there" THEN known.owner ELSE r.meta.owner]
           [] r.op = "transfer" ->
                IF known.life = "there" THEN [known EXCEPT !.owner = r.owner] ELSE Unknown

Finish(p, out) ==
    /\ req' = [req EXCEPT ![p].pc = "done", ![p].out = out]
    /\ known' = After(req[p], out)

-----------------------------------------------------------------------------
(* Faulty variants of actions below, never part of Next. *)

\* The policy engine is not told of a deleted policy.
PublishPutOnly(p) ==
    /\ At(p, "publish")
    /\ cached' = IF req[p].op = "putpolicy" THEN req[p].meta.policy ELSE cached
    /\ Finish(p, "ok")
    /\ UNCHANGED <<disk, up>>

\* The record is left behind when the directory has gone.
RecordKept(p) ==
    /\ At(p, "drop")
    /\ Finish(p, "ok")
    /\ UNCHANGED <<disk, cached, up>>

\* The directory is removed together with what it holds.
RemoveFilled(p) ==
    /\ At(p, "rmdir")
    /\ IF dir THEN dir' = FALSE /\ Goto(p, "drop") /\ known' = known
       ELSE dir' = dir /\ Finish(p, "error")
    /\ UNCHANGED <<obj, rec, linked, cached, up>>

-----------------------------------------------------------------------------
Init ==
    /\ dir = FALSE /\ obj = FALSE
    /\ rec = NoRecord /\ linked = {}
    /\ cached = NoPolicy
    /\ req = [p \in Procs |-> Idle]
    /\ up = TRUE
    /\ known = Gone(TRUE)

(* A handler accepts a request.  Whatever overlaps is not alone. *)
Begin(p) ==
    /\ At(p, "idle")
    /\ \E op \in Ops, o \in Owners, d \in Policies :
         LET new == [Idle EXCEPT
                       !.pc = FirstPC(op), !.op = op,
                       !.owner = IF op \in {"create", "transfer"} THEN o ELSE AnyOwner,
                       !.meta = [owner |-> IF op = "create" THEN o ELSE AnyOwner,
                                 policy |-> IF op = "putpolicy" THEN d ELSE NoPolicy],
                       !.alone = Quiet, !.saw = known.life]
         IN req' = [q \in Procs |-> IF q = p THEN new
                                    ELSE [req[q] EXCEPT !.alone = @ /\ ~Busy(q)]]
    /\ UNCHANGED <<disk, cached, up, known>>

Reply(p) ==
    /\ At(p, "done")
    /\ req' = [req EXCEPT ![p] = Idle]
    /\ UNCHANGED <<disk, cached, up, known>>

-----------------------------------------------------------------------------
(* CreateBucket *)

CreateStat(p) ==
    /\ At(p, "stat")
    /\ IF dir THEN Finish(p, "exists") ELSE Goto(p, "mkdir") /\ known' = known
    /\ UNCHANGED <<disk, cached, up>>

(* MkdirAll does not mind a directory that somebody else made meanwhile. *)
CreateMkdir(p) ==
    /\ At(p, "mkdir")
    /\ dir' = TRUE
    /\ Goto(p, "truncate")
    /\ UNCHANGED <<obj, rec, linked, cached, up, known>>

CreateMkdirFail(p) ==
    /\ At(p, "mkdir")
    /\ CanFail
    /\ Finish(p, "failed")
    /\ UNCHANGED <<disk, cached, up>>

(* The record could not be written: the directory is removed if it is empty. *)
CreateUndo(p) ==
    /\ At(p, "undo")
    /\ dir' = (dir /\ obj)
    /\ Finish(p, "failed")
    /\ UNCHANGED <<obj, rec, linked, cached, up>>

(* The handler answers with the record it reads back. *)
CreateShow(p) ==
    /\ At(p, "show")
    /\ Finish(p, IF rec \in Record THEN "ok" ELSE "error")
    /\ UNCHANGED <<disk, cached, up>>

-----------------------------------------------------------------------------
(* Reading and writing the record *)

Load(p) ==
    /\ At(p, "load")
    /\ IF rec \in Record
       THEN /\ req' = [req EXCEPT ![p].pc = "truncate",
                         ![p].meta = CASE req[p].op = "transfer" -> [rec EXCEPT !.owner = req[p].owner]
                                       [] OTHER -> [rec EXCEPT !.policy = req[p].meta.policy]]
            /\ known' = known
       ELSE Finish(p, IF rec = NoRecord /\ req[p].op = "transfer" THEN "notfound" ELSE "error")
    /\ UNCHANGED <<disk, cached, up>>

(* Create opens the file at the path, or makes one, and truncates it. *)
SaveTruncate(p) ==
    /\ At(p, "truncate")
    /\ rec' = Empty
    /\ linked' = linked \cup {p}
    /\ Goto(p, "write")
    /\ UNCHANGED <<dir, obj, cached, up, known>>

(* One Write at offset 0.  The tail of a longer text that another request  *)
(* wrote since the truncation stays; a file that was removed is lost.      *)
SaveWrite(p) ==
    /\ At(p, "write")
    /\ rec' \in IF p \notin linked THEN {rec}
                ELSE IF rec = Empty THEN {req[p].meta} ELSE {req[p].meta, Garbled}
    /\ linked' = linked \ {p}
    /\ IF req[p].op = "transfer"
       THEN Finish(p, "ok")
       ELSE Goto(p, IF req[p].op = "create" THEN "show" ELSE "publish") /\ known' = known
    /\ UNCHANGED <<dir, obj, cached, up>>

SaveFail(p) ==
    /\ At(p, "truncate") \/ At(p, "write")
    /\ CanFail
    /\ linked' = linked \ {p}
    /\ IF req[p].op = "create" THEN Goto(p, "undo") /\ known' = known
       ELSE Finish(p, "failed")
    /\ UNCHANGED <<dir, obj, rec, cached, up>>

-----------------------------------------------------------------------------
(* PutBucketPolicy, DeleteBucketPolicy: the handlers answer every error,   *)
(* that the bucket does not exist included, with InternalError.            *)

PolicyExists(p) ==
    /\ At(p, "exists")
    /\ IF dir THEN Goto(p, "load") /\ known' = known ELSE Finish(p, "error")
    /\ UNCHANGED <<disk, cached, up>>

(* The policy engine hears of a policy after the disk has it. *)
Publish(p) ==
    /\ At(p, "publish")
    /\ cached' = req[p].meta.policy
    /\ Finish(p, "ok")
    /\ UNCHANGED <<disk, up>>

-----------------------------------------------------------------------------
(* DeleteBucket *)

DeleteFind(p) ==
    /\ At(p, "find")
    /\ IF dir THEN Goto(p, "list") /\ known' = known ELSE Finish(p, "notfound")
    /\ UNCHANGED <<disk, cached, up>>

DeleteList(p) ==
    /\ At(p, "list")
    /\ CASE ~dir -> Finish(p, "error")
         [] dir /\ obj -> Finish(p, "notempty")
         [] OTHER -> Goto(p, "rmdir") /\ known' = known
    /\ UNCHANGED <<disk, cached, up>>

(* Remove refuses a directory that is gone, or that was filled meanwhile. *)
DeleteRemove(p) ==
    /\ At(p, "rmdir")
    /\ IF dir /\ ~obj THEN dir' = FALSE /\ Goto(p, "drop") /\ known' = known
       ELSE dir' = dir /\ Finish(p, "error")
    /\ UNCHANGED <<obj, rec, linked, cached, up>>

(* The record is removed; the cached policy is not. *)
DeleteRecord(p) ==
    /\ At(p, "drop")
    /\ Finish(p, IF rec = NoRecord THEN "error" ELSE "ok")
    /\ rec' = NoRecord
    /\ linked' = {}
    /\ UNCHANGED <<dir, obj, cached, up>>

DeleteFail(p) ==
    /\ At(p, "rmdir") \/ At(p, "drop")
    /\ CanFail
    /\ Finish(p, "failed")
    /\ UNCHANGED <<disk, cached, up>>

-----------------------------------------------------------------------------
(* Object requests: BucketExists, then NewBucketFS, then the object's file *)

ObjectHead(p) ==
    /\ At(p, "head")
    /\ IF dir THEN Goto(p, "scope") /\ known' = known ELSE Finish(p, "notfound")
    /\ UNCHANGED <<disk, cached, up>>

(* Even a GET makes the directory of the bucket if it has gone. *)
ObjectScope(p) ==
    /\ At(p, "scope")
    /\ dir' = TRUE
    /\ Goto(p, "touch")
    /\ UNCHANGED <<obj, rec, linked, cached, up, known>>

(* Rename makes the directories above its target.  A directory removed     *)
(* just before it makes it fail.                                           *)
ObjectTouch(p) ==
    /\ At(p, "touch")
    /\ CASE req[p].op = "put" ->
              \/ dir' = TRUE /\ obj' = TRUE /\ Finish(p, "ok")
              \/ ~dir /\ UNCHANGED <<dir, obj>> /\ Finish(p, "error")
         [] req[p].op = "get" ->
              UNCHANGED <<dir, obj>> /\ ((obj /\ Finish(p, "ok")) \/ Finish(p, "notfound"))
         [] OTHER ->
              \/ obj /\ dir' = dir /\ obj' \in BOOLEAN /\ Finish(p, "ok")
              \/ UNCHANGED <<dir, obj>> /\ Finish(p, "notfound")
    /\ UNCHANGED <<rec, linked, cached, up>>

-----------------------------------------------------------------------------
(* The process dies; nothing is in memory any more. *)
Crash ==
    /\ CanCrash /\ up
    /\ up' = FALSE
    /\ known' = IF \E p \in Procs : Busy(p) /\ req[p].op \in BucketOps
                THEN Unknown ELSE known
    /\ req' = [p \in Procs |-> Idle]
    /\ linked' = {}
    /\ cached' = NoPolicy
    /\ UNCHANGED <<dir, obj, rec>>

(* server.New loads every policy it can read before anything is served; if *)
(* it cannot list them it warns and serves with an empty cache.            *)
Start ==
    /\ ~up
    /\ up' = TRUE
    /\ \/ /\ cached' = IF rec \in Record THEN rec.policy ELSE NoPolicy
          /\ known' = [known EXCEPT !.told = known.life # "unknown"]
       \/ /\ CanFail
          /\ cached' = NoPolicy
          /\ known' = [known EXCEPT !.told = known.life # "unknown" /\ known.policy = NoPolicy]
    /\ UNCHANGED <<disk, req>>

-----------------------------------------------------------------------------
CreateStep(p) ==
    CreateStat(p) \/ CreateMkdir(p) \/ CreateMkdirFail(p) \/ CreateUndo(p) \/ CreateShow(p)

SaveStep(p) == Load(p) \/ SaveTruncate(p) \/ SaveWrite(p) \/ SaveFail(p)

PolicyStep(p) == PolicyExists(p) \/ Publish(p)

DeleteStep(p) ==
    \/ DeleteFind(p) \/ DeleteList(p) \/ DeleteRemove(p)
    \/ DeleteRecord(p) \/ DeleteFail(p)

ObjectStep(p) == ObjectHead(p) \/ ObjectScope(p) \/ ObjectTouch(p)

Next ==
    \/ \E p \in Procs :
         \/ Begin(p) \/ Reply(p) \/ CreateStep(p) \/ SaveStep(p)
         \/ PolicyStep(p) \/ DeleteStep(p) \/ ObjectStep(p)
    \/ Crash
    \/ Start

Spec == Init /\ [][Next]_vars

-----------------------------------------------------------------------------
(* Properties *)

TypeOK ==
    /\ dir \in BOOLEAN /\ obj \in BOOLEAN
    /\ obj => dir
    /\ rec \in Record \cup {NoRecord} \cup Unreadable
    /\ linked \subseteq Procs
    /\ cached \in MaybePolicy
    /\ req \in [Procs -> Request]
    /\ up \in BOOLEAN
    /\ known \in Known

(* Whatever the requests before it did to one another, a request that ran  *)
(* alone leaves what it says: a created bucket has a directory and a       *)
(* record with its owner, a deleted one has neither, a policy or owner     *)
(* update changes nothing else in the record, and the policy that is       *)
(* enforced is the stored one from the first policy update on, or the      *)
(* first restart that could read the policies.                             *)
SettledBucket ==
    up /\ Quiet =>
        /\ known.life = "there" =>
             dir /\ rec = [owner |-> known.owner, policy |-> known.policy]
        /\ known.life = "gone" => ~dir /\ rec = NoRecord
        /\ known.told => cached = known.policy

\* Is out the answer to op on a bucket of which life is known?
Right(op, life, out) ==
    /\ life = "gone" =>
         out = CASE op = "create"     -> "ok"
                 [] op \in PolicyOps  -> "error"
                 [] OTHER             -> "notfound"
    /\ life = "there" =>
         CASE op = "create" -> out = "exists"
           [] op = "delete" -> out \in {"ok", "notempty"}
           [] op \in RecordOps \cup {"put"} -> out = "ok"
           [] OTHER -> out \in {"ok", "notfound"}

(* A request that runs alone on a bucket whose state is known is answered  *)
(* accordingly: what a crash or a race has left behind never makes it fail *)
(* once a DELETE has run alone.                                            *)
SoloAnswers ==
    \A p \in Procs :
        req[p].pc = "done" /\ req[p].alone /\ req[p].out # "failed"
            => Right(req[p].op, req[p].saw, req[p].out)

(* "Nothing in cache that's not on disk": once no request is in progress,  *)
(* the policy enforced for a bucket that exists is the one in its record.  *)
CachedPolicyStored ==
    Quiet /\ rec \in Record /\ cached # NoPolicy => rec.policy = cached
=============================================================================
