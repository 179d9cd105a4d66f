---------------------------- MODULE BucketsProofs ----------------------------
(***************************************************************************)
(* Type correctness of Buckets, and what requests that run alone leave     *)
(* behind and are answered, for any number of goroutines.                  *)
(***************************************************************************)
EXTENDS Buckets, TLAPS

-----------------------------------------------------------------------------
(* The inductive invariant *)

\* Only a request of the right kind runs the steps of a kind, only a request
\* that is writing has the record open, and a create writes the record it was
\* asked for.
RoleOf(r, open) ==
    /\ r.pc \in CreatePCs => r.op = "create"
    /\ r.pc \in DeletePCs => r.op = "delete"
    /\ r.pc \in PolicyPCs => r.op \in PolicyOps
    /\ r.pc = "load" => r.op \in RecordOps
    /\ r.pc \in {"truncate", "write"} => r.op \in RecordOps \cup {"create"}
    /\ r.pc \in ObjectPCs => r.op \in ObjectOps
    /\ open => r.pc = "write"
    /\ r.op = "create" => r.meta = [owner |-> r.owner, policy |-> NoPolicy]

Role == \A p \in Procs : RoleOf(req[p], p \in linked)

Solo(p) == Busy(p) /\ req[p].alone

\* Without a process there are no requests.
Down == ~up => \A p \in Procs : req[p] = Idle

\* A request that has been alone so far is alone now, and still knows what was
\* known of the bucket when it began.
SoloOK ==
    /\ \A p, q \in Procs : Solo(p) /\ Busy(q) => q = p
    /\ \A p \in Procs : Solo(p) => req[p].saw = known.life

\* What is known of the disk and of the cache is so.
DiskKnown ==
    /\ known.life = "there" => dir /\ rec = [owner |-> known.owner, policy |-> known.policy]
    /\ known.life = "gone" => ~dir /\ rec = NoRecord

CacheKnown == (known.told => cached = known.policy)

NothingInvented ==
    /\ known.life # "there" => known.policy = NoPolicy
    /\ known.life = "unknown" => ~known.told

\* While only object requests run, all that is known is so; none of them can
\* make a directory where there was none.
Calm ==
    (\A p \in Procs : Busy(p) => req[p].op \in ObjectOps) =>
      /\ DiskKnown
      /\ up => CacheKnown
      /\ known.life = "gone" => \A p \in Procs : req[p].pc \notin {"scope", "touch"}

\* What a request other than an object's that has been alone has done so far.
Saving(r) ==
    /\ r.op = "create" => known.life # "there" /\ dir
    /\ r.op \in PolicyOps => dir
    /\ r.op \in RecordOps => known.life # "gone"
    /\ r.op \in RecordOps /\ known.life = "there" =>
         /\ dir /\ r.meta.owner = IF r.op = "transfer" THEN r.owner ELSE known.owner
         /\ r.op = "transfer" => r.meta.policy = known.policy

Progress(r, open) ==
    /\ CacheKnown
    /\ r.pc \in {"stat", "mkdir", "find", "list", "rmdir", "exists", "load"} => DiskKnown
    /\ r.pc = "mkdir" => ~dir
    /\ r.pc = "list" => dir
    /\ r.pc = "rmdir" => dir /\ ~obj
    /\ r.pc = "drop" => ~dir /\ known.life # "gone"
    /\ r.pc = "drop" /\ known.life = "there" => rec # NoRecord
    /\ r.pc = "load" /\ r.op \in PolicyOps => dir
    /\ r.pc \in {"truncate", "write", "publish", "show"} => Saving(r)
    /\ r.pc = "write" => rec = Empty /\ open
    /\ r.pc \in {"publish", "show"} => rec = r.meta

Working ==
    \A p \in Procs : Solo(p) /\ req[p].op \in BucketOps => Progress(req[p], p \in linked)

IInv == Role /\ Down /\ SoloOK /\ NothingInvented /\ Calm /\ Working /\ SoloAnswers

-----------------------------------------------------------------------------
(* Values *)

\* The idle request is a request, and the owner it names an owner.
LEMMA IdleType == AnyOwner \in Owners /\ Idle \in Request
<1>1. AnyOwner \in Owners
  BY OwnersAssumption DEF AnyOwner
<1>2. [owner |-> AnyOwner, policy |-> NoPolicy] \in Record
  BY <1>1 DEF Record, MaybePolicy
<1> QED
  BY <1>1, <1>2 DEF Idle, Request, PCs, AllOps, ObjectOps, Lives, Outcomes

\* A record is none of the contents that are not records.
LEMMA RecordKinds ==
    /\ NoRecord \notin Record /\ Empty \notin Record /\ Garbled \notin Record
    /\ Empty # NoRecord /\ Garbled # NoRecord
  BY DEF NoRecord, Empty, Garbled, Record

\* What is known of no bucket, and of one nothing is known of.
LEMMA KnownKinds == Unknown \in Known /\ \A told \in BOOLEAN : Gone(told) \in Known
  BY IdleType DEF Unknown, Gone, Known, Lives, MaybePolicy

\* An answer leaves what is known well formed.
LEMMA AfterType ==
    ASSUME known \in Known, NEW r \in Request, NEW out \in Outcomes
    PROVE  After(r, out) \in Known
<1>1. /\ r.owner \in Owners /\ r.meta.owner \in Owners /\ r.meta.policy \in MaybePolicy
      /\ NoPolicy \in MaybePolicy
  BY DEF Request, Record, MaybePolicy
<1>2. /\ known.owner \in Owners /\ known.policy \in MaybePolicy /\ known.told \in BOOLEAN
      /\ [known EXCEPT !.owner = r.owner] \in Known
  BY <1>1 DEF Known
<1>3. /\ [life |-> "there", owner |-> r.owner, policy |-> NoPolicy,
          told |-> known.told /\ known.policy = NoPolicy] \in Known
      /\ [life |-> "there", policy |-> r.meta.policy, told |-> TRUE,
          owner |-> IF known.life = "there" THEN known.owner ELSE r.meta.owner] \in Known
  BY <1>1, <1>2 DEF Known, Lives
<1>4. Gone(known.told /\ known.policy = NoPolicy) \in Known
  BY <1>2, KnownKinds
<1>5. r.op \in ObjectOps \cup {"create", "delete", "transfer"} \cup PolicyOps
  BY DEF Request, AllOps, BucketOps, RecordOps
<1> QED
  BY <1>2, <1>3, <1>4, <1>5, KnownKinds DEF After

-----------------------------------------------------------------------------
(* Type correctness *)

\* A request that moves on, and one that is answered, stay well formed.
LEMMA GotoType ==
    ASSUME req \in [Procs -> Request], NEW p \in Procs, NEW pc \in PCs, Goto(p, pc)
    PROVE  req' \in [Procs -> Request]
<1>1. [req[p] EXCEPT !.pc = pc] \in Request
  BY DEF Request
<1> QED
  BY <1>1 DEF Goto

LEMMA FinishType ==
    ASSUME req \in [Procs -> Request], known \in Known,
           NEW p \in Procs, NEW out \in Outcomes, Finish(p, out)
    PROVE  req' \in [Procs -> Request] /\ known' \in Known
<1>1. req[p] \in Request /\ "done" \in PCs
  BY DEF PCs
<1>2. [req[p] EXCEPT !.pc = "done", !.out = out] \in Request
  BY <1>1 DEF Request
<1>3. req' = [req EXCEPT ![p] = [req[p] EXCEPT !.pc = "done", !.out = out]]
  BY DEF Finish
<1>4. known' \in Known
  BY <1>1, AfterType DEF Finish
<1> QED
  BY <1>2, <1>3, <1>4

LEMMA TypeInit == Init => TypeOK
  BY IdleType, KnownKinds DEF Init, TypeOK, MaybePolicy

LEMMA TypeStep == TypeOK /\ [Next]_vars => TypeOK'
<1> SUFFICES ASSUME TypeOK, [Next]_vars PROVE TypeOK'
  OBVIOUS
<1> USE DEF TypeOK, disk, MaybePolicy, Unreadable
<1>a. PCs = {"idle", "done", "stat", "mkdir", "undo", "show", "find", "list", "rmdir", "drop",
             "load", "truncate", "write", "exists", "publish", "head", "scope", "touch"}
  BY DEF PCs, CreatePCs, DeletePCs, SavePCs, PolicyPCs, ObjectPCs
<1>b. Outcomes = {"none", "ok", "exists", "notfound", "notempty", "error", "failed"}
  BY DEF Outcomes
<1>1. ASSUME NEW p \in Procs, Begin(p) PROVE TypeOK'
  <2>1. PICK op \in Ops, o \in Owners, d \in Policies :
          LET new == [Idle EXCEPT
                        !.pc = FirstPC(op), !.op = op,
                        !.owner = IF op \in {"create", "transfer"} THEN o ELSE AnyOwner,
                        !.meta = [owner |-> IF op = "create" THEN o ELSE AnyOwner,
                                  policy |-> IF op = "putpolicy" THEN d ELSE NoPolicy],
                        !.alone = Quiet, !.saw = known.life]
          IN req' = [q \in Procs |-> IF q = p THEN new
                                     ELSE [req[q] EXCEPT !.alone = @ /\ ~Busy(q)]]
    BY <1>1 DEF Begin
  <2> DEFINE new == req'[p]
  <2>2. FirstPC(op) \in PCs /\ op \in AllOps
    BY <1>a, OpsAssumption DEF FirstPC
  <2>3. new \in Request
    <3>1. [owner |-> IF op = "create" THEN o ELSE AnyOwner,
           policy |-> IF op = "putpolicy" THEN d ELSE NoPolicy] \in Record
      BY IdleType DEF Record
    <3>2. Quiet \in BOOLEAN /\ known.life \in Lives
      BY DEF Quiet, Known
    <3> QED
      BY <2>1, <2>2, <3>1, <3>2, IdleType DEF Request
  <2>4. ASSUME NEW q \in Procs, q # p PROVE req'[q] \in Request
    <3>1. (req[q].alone /\ ~Busy(q)) \in BOOLEAN /\ req[q] \in Request
      BY DEF Request
    <3> QED
      BY <2>1, <2>4, <3>1 DEF Request
  <2>5. req' \in [Procs -> Request]
    BY <2>1, <2>3, <2>4
  <2> QED
    BY <1>1, <2>5 DEF Begin
<1>2. ASSUME NEW p \in Procs, Reply(p) PROVE TypeOK'
  BY <1>2, IdleType DEF Reply
<1>3. ASSUME NEW p \in Procs, CreateStat(p) PROVE TypeOK'
  BY <1>3, <1>a, <1>b, FinishType, GotoType DEF CreateStat
<1>4. ASSUME NEW p \in Procs, CreateMkdir(p) PROVE TypeOK'
  BY <1>4, <1>a, <1>b, GotoType DEF CreateMkdir
<1>5. ASSUME NEW p \in Procs, CreateMkdirFail(p) PROVE TypeOK'
  BY <1>5, <1>a, <1>b, FinishType DEF CreateMkdirFail
<1>6. ASSUME NEW p \in Procs, CreateUndo(p) PROVE TypeOK'
  BY <1>6, <1>a, <1>b, FinishType DEF CreateUndo
<1>7. ASSUME NEW p \in Procs, CreateShow(p) PROVE TypeOK'
  BY <1>7, <1>a, <1>b, FinishType DEF CreateShow
<1>8. ASSUME NEW p \in Procs, SaveTruncate(p) PROVE TypeOK'
  BY <1>8, <1>a, <1>b, GotoType DEF SaveTruncate
<1>9. ASSUME NEW p \in Procs, SaveWrite(p) PROVE TypeOK'
  BY <1>9, <1>a, <1>b, FinishType, GotoType DEF SaveWrite, Request, Record
<1>10. ASSUME NEW p \in Procs, SaveFail(p) PROVE TypeOK'
  BY <1>10, <1>a, <1>b, FinishType, GotoType DEF SaveFail
<1>11. ASSUME NEW p \in Procs, PolicyExists(p) PROVE TypeOK'
  BY <1>11, <1>a, <1>b, FinishType, GotoType DEF PolicyExists
<1>12. ASSUME NEW p \in Procs, Publish(p) PROVE TypeOK'
  BY <1>12, <1>a, <1>b, FinishType DEF Publish, Request, Record
<1>13. ASSUME NEW p \in Procs, DeleteFind(p) PROVE TypeOK'
  BY <1>13, <1>a, <1>b, FinishType, GotoType DEF DeleteFind
<1>14. ASSUME NEW p \in Procs, DeleteList(p) PROVE TypeOK'
  BY <1>14, <1>a, <1>b, FinishType, GotoType DEF DeleteList
<1>15. ASSUME NEW p \in Procs, DeleteRemove(p) PROVE TypeOK'
  BY <1>15, <1>a, <1>b, FinishType, GotoType DEF DeleteRemove
<1>16. ASSUME NEW p \in Procs, DeleteRecord(p) PROVE TypeOK'
  BY <1>16, <1>a, <1>b, FinishType DEF DeleteRecord
<1>17. ASSUME NEW p \in Procs, DeleteFail(p) PROVE TypeOK'
  BY <1>17, <1>a, <1>b, FinishType DEF DeleteFail
<1>18. ASSUME NEW p \in Procs, ObjectHead(p) PROVE TypeOK'
  BY <1>18, <1>a, <1>b, FinishType, GotoType DEF ObjectHead
<1>19. ASSUME NEW p \in Procs, ObjectScope(p) PROVE TypeOK'
  BY <1>19, <1>a, <1>b, GotoType DEF ObjectScope
<1>20. ASSUME NEW p \in Procs, ObjectTouch(p) PROVE TypeOK'
  BY <1>20, <1>a, <1>b, FinishType DEF ObjectTouch
<1>21. ASSUME NEW p \in Procs, Load(p) PROVE TypeOK'
  <2>1. CASE rec \in Record
    <3> DEFINE meta == CASE req[p].op = "transfer" -> [rec EXCEPT !.owner = req[p].owner]
                         [] OTHER -> [rec EXCEPT !.policy = req[p].meta.policy]
    <3>1. req[p] \in Request /\ req[p].owner \in Owners /\ req[p].meta.policy \in MaybePolicy
      BY DEF Request, Record
    <3>2. meta \in Record
      BY <2>1, <3>1 DEF Record
    <3>3. [req[p] EXCEPT !.pc = "truncate", !.meta = meta] \in Request
      BY <1>a, <3>1, <3>2 DEF Request
    <3>4. req' = [req EXCEPT ![p] = [req[p] EXCEPT !.pc = "truncate", !.meta = meta]]
      BY <1>21, <2>1 DEF Load
    <3> QED
      BY <1>21, <2>1, <3>3, <3>4 DEF Load
  <2>2. CASE rec \notin Record
    BY <1>21, <2>2, <1>b, FinishType DEF Load
  <2> QED
    BY <2>1, <2>2
<1>22. CASE Crash
  BY <1>22, IdleType, KnownKinds DEF Crash
<1>23. CASE Start
  <2>1. /\ [known EXCEPT !.told = known.life # "unknown"] \in Known
        /\ [known EXCEPT !.told = known.life # "unknown" /\ known.policy = NoPolicy] \in Known
    BY DEF Known
  <2> QED
    BY <1>23, <2>1 DEF Start, Record
<1>24. CASE UNCHANGED vars
  BY <1>24 DEF vars
<1> QED
  BY <1>1, <1>2, <1>3, <1>4, <1>5, <1>6, <1>7, <1>8, <1>9, <1>10, <1>11, <1>12, <1>13,
     <1>14, <1>15, <1>16, <1>17, <1>18, <1>19, <1>20, <1>21, <1>22, <1>23, <1>24
     DEF Next, CreateStep, SaveStep, PolicyStep, DeleteStep, ObjectStep

\* Every variable always has its type; in particular an object always lies in
\* the directory of the bucket, which DeleteBucket and the undo of a create
\* remove only when it is empty (storage.go).
THEOREM TypeCorrect == Spec => []TypeOK
<1> QED
  BY TypeInit, TypeStep, PTL DEF Spec

-----------------------------------------------------------------------------
(* The steps of requests that are not about objects *)

\* The kinds of operations are disjoint.
LEMMA OpKinds ==
    /\ AllOps = ObjectOps \cup {"create", "delete", "transfer"} \cup PolicyOps
    /\ BucketOps = {"create", "delete", "transfer"} \cup PolicyOps
    /\ RecordOps = {"transfer"} \cup PolicyOps
    /\ \A op \in BucketOps : op \notin ObjectOps
    /\ PolicyOps = {"putpolicy", "delpolicy"}
  BY DEF AllOps, BucketOps, RecordOps, ObjectOps, PolicyOps

\* A request goes on to another step, and has done what it then should have.
LEMMA Continue ==
    ASSUME TypeOK, TypeOK', IInv, up, up', NEW p \in Procs,
           Busy(p), Busy(p)', req[p].op \in BucketOps,
           req'[p].op = req[p].op, req'[p].alone = req[p].alone,
           req'[p].saw = req[p].saw,
           \A q \in Procs : q # p => req'[q] = req[q] /\ (q \in linked' => q \in linked),
           known' = known,
           RoleOf(req'[p], p \in linked'),
           Solo(p) => Progress(req[p], p \in linked)'
    PROVE  IInv'
<1>1. Role'
  BY DEF IInv, Role, RoleOf
<1>2. Down' /\ NothingInvented'
  BY DEF IInv, Down, NothingInvented
<1>3. \A q \in Procs : /\ Busy(q)' = Busy(q)
                       /\ Solo(q)' = Solo(q)
  BY DEF Busy, Solo, TypeOK
<1>4. SoloOK'
  BY <1>3 DEF IInv, SoloOK, Solo
<1>5. Calm'
  BY OpKinds DEF Calm
<1>6. ASSUME NEW q \in Procs, Solo(q)', (req[q].op \in BucketOps)'
      PROVE  Progress(req[q], q \in linked)'
  BY <1>3, <1>6 DEF IInv, SoloOK
<1>7. Working'
  BY <1>6 DEF Working
<1>8. SoloAnswers'
  BY DEF IInv, SoloAnswers, Busy
<1> QED
  BY <1>1, <1>2, <1>4, <1>5, <1>7, <1>8 DEF IInv

\* A request is answered: one that was alone rightly, and so that what is
\* known afterwards is so.
LEMMA Answered ==
    ASSUME TypeOK, TypeOK', IInv, up, up', NEW p \in Procs, NEW out \in Outcomes,
           Busy(p), req[p].op \in BucketOps, Finish(p, out),
           p \notin linked',
           \A q \in Procs : q \in linked' => q \in linked,
           Solo(p) => DiskKnown' /\ CacheKnown' /\ (out # "failed" => Right(req[p].op, known.life, out))
    PROVE  IInv'
<1>0. /\ \A q \in Procs : q # p => req'[q] = req[q]
      /\ req'[p] = [req[p] EXCEPT !.pc = "done", !.out = out]
      /\ req[p] \in Request
      /\ known' = After(req[p], out)
      /\ req'[p].pc = "done" /\ req'[p].out = out /\ req'[p].op = req[p].op
      /\ req'[p].alone = req[p].alone /\ req'[p].saw = req[p].saw
      /\ req'[p].meta = req[p].meta /\ req'[p].owner = req[p].owner
  BY DEF Finish, TypeOK, Request
<1>1. Role'
  <2>1. RoleOf(req'[p], p \in linked')
    BY <1>0 DEF IInv, Role, RoleOf, CreatePCs, DeletePCs, PolicyPCs, ObjectPCs
  <2>2. ASSUME NEW q \in Procs, q # p PROVE RoleOf(req'[q], q \in linked')
    BY <1>0, <2>2 DEF IInv, Role, RoleOf
  <2> QED
    BY <2>1, <2>2 DEF Role
<1>2. Down'
  BY DEF Down
<1>3. ~Solo(p) => known' = Unknown
  BY <1>0, OpKinds DEF Solo, After
<1>4. NothingInvented'
  <2>1. known'.life # "there" => known'.policy = NoPolicy
    BY <1>0, OpKinds DEF IInv, NothingInvented, After, Unknown, Gone
  <2>2. known'.life = "unknown" => ~known'.told
    BY <1>0, OpKinds DEF IInv, NothingInvented, After, Unknown, Gone
  <2> QED
    BY <2>1, <2>2 DEF NothingInvented
<1>5. ~Busy(p)' /\ \A q \in Procs : q # p => Busy(q)' = Busy(q) /\ Solo(q)' = Solo(q)
  BY <1>0 DEF Busy, Solo
<1>6. \A q \in Procs : ~Solo(q)'
  BY <1>5 DEF IInv, SoloOK, Solo
<1>7. SoloOK' /\ Working'
  BY <1>6 DEF SoloOK, Working
<1>8. Calm'
  <2>1. CASE Solo(p)
    <3>1. \A q \in Procs : ~Busy(q)'
      BY <1>5, <2>1 DEF IInv, SoloOK
    <3> QED
      BY <2>1, <3>1 DEF Calm, Busy
  <2>2. CASE ~Solo(p)
    <3>1. known'.life = "unknown" /\ ~known'.told
      BY <1>3, <2>2 DEF Unknown, Gone
    <3> QED
      BY <3>1 DEF Calm, DiskKnown, CacheKnown
  <2> QED
    BY <2>1, <2>2
<1>9. SoloAnswers'
  <2>1. req[p].alone /\ out # "failed" => Right(req[p].op, req[p].saw, out)
    BY DEF IInv, SoloOK, Solo
  <2> QED
    BY <1>0, <2>1 DEF IInv, SoloAnswers
<1> QED
  BY <1>1, <1>2, <1>4, <1>7, <1>8, <1>9 DEF IInv

\* A request that is refused leaves all as it was.
LEMMA Refused ==
    ASSUME TypeOK, TypeOK', IInv, up, up', NEW p \in Procs,
           NEW out \in {"exists", "notempty", "notfound", "error"},
           out = "error" => req[p].op \in PolicyOps,
           Busy(p), req[p].op \in BucketOps, Finish(p, out),
           p \notin linked, UNCHANGED <<dir, rec, linked, cached>>,
           Solo(p) => DiskKnown /\ CacheKnown /\ Right(req[p].op, known.life, out)
    PROVE  IInv'
<1>1. out \in Outcomes
  BY DEF Outcomes
<1>2. Solo(p) => known' = known
  BY OpKinds DEF Solo, Finish, After
<1>3. Solo(p) => DiskKnown' /\ CacheKnown'
  BY <1>2 DEF DiskKnown, CacheKnown
<1> QED
  BY <1>1, <1>3, Answered

\* Of a request that failed nothing is known.
LEMMA Failed ==
    ASSUME TypeOK, TypeOK', IInv, up, up', NEW p \in Procs,
           NEW out \in {"failed", "error"},
           out = "error" => req[p].op \notin PolicyOps,
           Busy(p), req[p].op \in BucketOps, Finish(p, out),
           p \notin linked', \A q \in Procs : q \in linked' => q \in linked,
           Solo(p) /\ out # "failed" => known.life = "unknown"
    PROVE  IInv'
<1>1. out \in Outcomes
  BY DEF Outcomes
<1>2. known' = Unknown
  BY OpKinds DEF Finish, After
<1>3. DiskKnown' /\ CacheKnown'
  BY <1>2 DEF Unknown, Gone, DiskKnown, CacheKnown
<1>4. Solo(p) => (out # "failed" => Right(req[p].op, known.life, out))
  BY DEF Right
<1> QED
  BY <1>1, <1>3, <1>4, Answered

\* What is so of a request of a kind that is about to take a step.
LEMMA Taking ==
    ASSUME TypeOK, IInv, NEW p \in Procs, Busy(p), req[p].pc \notin ObjectPCs
    PROVE  /\ req[p] \in Request /\ req[p].op \in BucketOps
           /\ RoleOf(req[p], p \in linked)
           /\ Solo(p) => Progress(req[p], p \in linked)
<1>1. req[p] \in Request /\ RoleOf(req[p], p \in linked)
  BY DEF TypeOK, IInv, Role
<1>2. req[p].op \in BucketOps
  BY <1>1, OpKinds DEF RoleOf, Request, Busy, PCs, CreatePCs, DeletePCs, PolicyPCs,
     SavePCs, ObjectPCs
<1> QED
  BY <1>1, <1>2 DEF IInv, Working

\* Every step of a request that is not about an object.
LEMMA BucketStep ==
    ASSUME TypeOK, TypeOK', IInv, NEW p \in Procs,
           CreateStep(p) \/ SaveStep(p) \/ PolicyStep(p) \/ DeleteStep(p)
    PROVE  IInv'
<1> DEFINE r == req[p]
<1> USE DEF At, disk
<1>a. up /\ up' /\ Busy(p) /\ r.pc \notin ObjectPCs
  BY DEF CreateStep, SaveStep, PolicyStep, DeleteStep, CreateStat, CreateMkdir,
     CreateMkdirFail, CreateUndo, CreateShow, Load, SaveTruncate, SaveWrite, SaveFail,
     PolicyExists, Publish, DeleteFind, DeleteList, DeleteRemove, DeleteRecord, DeleteFail,
     Busy, ObjectPCs, TypeOK
<1>b. /\ r \in Request /\ r.op \in BucketOps /\ RoleOf(r, p \in linked)
      /\ Solo(p) => Progress(r, p \in linked)
  BY <1>a, Taking
<1>c. req \in [Procs -> Request]
  BY DEF TypeOK
<1> USE <1>a, <1>b
<1>1. CASE CreateStat(p)
  <2>1. CASE dir
    <3>1. Finish(p, "exists") /\ p \notin linked /\ UNCHANGED <<dir, rec, linked, cached>>
      BY <1>1, <2>1 DEF CreateStat, RoleOf
    <3>2. Solo(p) => DiskKnown /\ CacheKnown /\ Right(r.op, known.life, "exists")
      BY <1>1, <2>1, OpKinds DEF CreateStat, Progress, DiskKnown, Right, RoleOf, CreatePCs
    <3> QED
      BY <3>1, <3>2, Refused
  <2>2. CASE ~dir
    <3>1. Goto(p, "mkdir") /\ known' = known
      BY <1>1, <2>2 DEF CreateStat
    <3>2. /\ req'[p].pc = "mkdir" /\ req'[p].op = r.op /\ req'[p].alone = r.alone
          /\ req'[p].saw = r.saw /\ req'[p].meta = r.meta /\ req'[p].owner = r.owner
          /\ \A q \in Procs : q # p => req'[q] = req[q]
      BY <3>1, <1>c DEF Goto, Request
    <3>3. RoleOf(req'[p], p \in linked')
      BY <1>1, <3>1, <3>2 DEF CreateStat, RoleOf, CreatePCs, DeletePCs, PolicyPCs, ObjectPCs
    <3>4. Solo(p) => Progress(req[p], p \in linked)'
      BY <1>1, <2>2, <3>1, <3>2 DEF CreateStat, Progress, DiskKnown, CacheKnown
    <3>5. Busy(p)' /\ \A q \in Procs : q # p /\ q \in linked' => q \in linked
      BY <1>1, <3>1, <3>2 DEF CreateStat, Busy
    <3> QED
      BY <3>1, <3>2, <3>3, <3>4, <3>5, Continue
  <2> QED
    BY <1>1, <2>1, <2>2
<1>2. CASE CreateMkdir(p)
  <2>1. Goto(p, "truncate") /\ known' = known
    BY <1>2 DEF CreateMkdir
  <2>2. /\ req'[p].pc = "truncate" /\ req'[p].op = r.op /\ req'[p].alone = r.alone
        /\ req'[p].saw = r.saw /\ req'[p].meta = r.meta /\ req'[p].owner = r.owner
        /\ \A q \in Procs : q # p => req'[q] = req[q]
    BY <2>1, <1>c DEF Goto, Request
  <2>3. RoleOf(req'[p], p \in linked')
    BY <1>2, <2>1, <2>2 DEF CreateMkdir, RoleOf, CreatePCs, DeletePCs, PolicyPCs, ObjectPCs
  <2>4. Solo(p) => Progress(req[p], p \in linked)'
    BY <1>2, <2>1, <2>2, OpKinds
       DEF CreateMkdir, Progress, Saving, DiskKnown, CacheKnown, RoleOf, CreatePCs
  <2>5. Busy(p)' /\ \A q \in Procs : q # p /\ q \in linked' => q \in linked
    BY <1>2, <2>1, <2>2 DEF CreateMkdir, Busy
  <2> QED
    BY <2>1, <2>2, <2>3, <2>4, <2>5, Continue
<1>3. CASE CreateMkdirFail(p)
  <2>1. /\ Finish(p, "failed") /\ p \notin linked'
        /\ \A q \in Procs : q \in linked' => q \in linked
    BY <1>3 DEF CreateMkdirFail, RoleOf
  <2> QED
    BY <2>1, Failed
<1>4. CASE CreateUndo(p)
  <2>1. /\ Finish(p, "failed") /\ p \notin linked'
        /\ \A q \in Procs : q \in linked' => q \in linked
    BY <1>4 DEF CreateUndo, RoleOf
  <2> QED
    BY <2>1, Failed
<1>5. CASE CreateShow(p)
  <2>1. CASE rec \in Record
    <3>1. /\ Finish(p, "ok") /\ p \notin linked'
          /\ \A q \in Procs : q \in linked' => q \in linked
      BY <1>5, <2>1 DEF CreateShow, RoleOf
    <3>2. Solo(p) => known' = After(r, "ok") /\ r.alone
      BY <3>1 DEF Finish, Solo
    <3>3. Solo(p) => DiskKnown' /\ CacheKnown'
      BY <1>5, <2>1, <3>2, OpKinds
         DEF CreateShow, After, Gone, Progress, Saving, DiskKnown, CacheKnown, RoleOf,
             CreatePCs, TypeOK, Known
    <3>4. Solo(p) => Right(r.op, known.life, "ok")
      BY <1>5, <2>1, OpKinds DEF CreateShow, Progress, Saving, Right, RoleOf, CreatePCs
    <3>5. "ok" \in Outcomes
      BY DEF Outcomes
    <3> QED
      BY <3>1, <3>3, <3>4, <3>5, Answered
  <2>2. CASE rec \notin Record
    <3>1. /\ Finish(p, "error") /\ p \notin linked'
          /\ \A q \in Procs : q \in linked' => q \in linked
      BY <1>5, <2>2 DEF CreateShow, RoleOf
    <3>2. Solo(p) => known.life = "unknown"
      BY <1>5, <2>2 DEF CreateShow, Progress, Request
    <3>3. r.op \notin PolicyOps
      BY <1>5, OpKinds DEF CreateShow, RoleOf, CreatePCs
    <3> QED
      BY <3>1, <3>2, <3>3, Failed
  <2> QED
    BY <1>5, <2>1, <2>2
<1>6. CASE SaveTruncate(p)
  <2>1. Goto(p, "write") /\ known' = known
    BY <1>6 DEF SaveTruncate
  <2>2. /\ req'[p].pc = "write" /\ req'[p].op = r.op /\ req'[p].alone = r.alone
        /\ req'[p].saw = r.saw /\ req'[p].meta = r.meta /\ req'[p].owner = r.owner
        /\ \A q \in Procs : q # p => req'[q] = req[q]
    BY <2>1, <1>c DEF Goto, Request
  <2>3. RoleOf(req'[p], p \in linked')
    BY <1>6, <2>1, <2>2 DEF SaveTruncate, RoleOf, CreatePCs, DeletePCs, PolicyPCs, ObjectPCs
  <2>4. Solo(p) => Progress(req[p], p \in linked)'
    BY <1>6, <2>1, <2>2 DEF SaveTruncate, Progress, Saving, CacheKnown
  <2>5. Busy(p)' /\ \A q \in Procs : q # p /\ q \in linked' => q \in linked
    BY <1>6, <2>1, <2>2 DEF SaveTruncate, Busy
  <2> QED
    BY <2>1, <2>2, <2>3, <2>4, <2>5, Continue
<1>7. CASE SaveFail(p)
  <2>1. CASE r.op = "create"
    <3>1. Goto(p, "undo") /\ known' = known
      BY <1>7, <2>1 DEF SaveFail
    <3>2. /\ req'[p].pc = "undo" /\ req'[p].op = r.op /\ req'[p].alone = r.alone
          /\ req'[p].saw = r.saw /\ req'[p].meta = r.meta /\ req'[p].owner = r.owner
          /\ \A q \in Procs : q # p => req'[q] = req[q]
      BY <3>1, <1>c DEF Goto, Request
    <3>3. RoleOf(req'[p], p \in linked')
      BY <1>7, <2>1, <3>1, <3>2 DEF SaveFail, RoleOf, DeletePCs, PolicyPCs, ObjectPCs
    <3>4. Solo(p) => Progress(req[p], p \in linked)'
      BY <1>7, <2>1, <3>1, <3>2 DEF SaveFail, Progress, CacheKnown
    <3>5. Busy(p)' /\ \A q \in Procs : q # p /\ q \in linked' => q \in linked
      BY <1>7, <3>1, <3>2 DEF SaveFail, Busy
    <3> QED
      BY <3>1, <3>2, <3>3, <3>4, <3>5, Continue
  <2>2. CASE r.op # "create"
    <3>1. /\ Finish(p, "failed") /\ p \notin linked'
          /\ \A q \in Procs : q \in linked' => q \in linked
      BY <1>7, <2>2 DEF SaveFail, RoleOf
    <3> QED
      BY <3>1, Failed
  <2> QED
    BY <1>7, <2>1, <2>2
<1>8. CASE PolicyExists(p)
  <2>1. CASE dir
    <3>1. Goto(p, "load") /\ known' = known
      BY <1>8, <2>1 DEF PolicyExists
    <3>2. /\ req'[p].pc = "load" /\ req'[p].op = r.op /\ req'[p].alone = r.alone
          /\ req'[p].saw = r.saw /\ req'[p].meta = r.meta /\ req'[p].owner = r.owner
          /\ \A q \in Procs : q # p => req'[q] = req[q]
      BY <3>1, <1>c DEF Goto, Request
    <3>3. RoleOf(req'[p], p \in linked')
      BY <1>8, <3>1, <3>2, OpKinds
         DEF PolicyExists, RoleOf, CreatePCs, DeletePCs, PolicyPCs, ObjectPCs
    <3>4. Solo(p) => Progress(req[p], p \in linked)'
      BY <1>8, <2>1, <3>1, <3>2 DEF PolicyExists, Progress, DiskKnown, CacheKnown
    <3>5. Busy(p)' /\ \A q \in Procs : q # p /\ q \in linked' => q \in linked
      BY <1>8, <3>1, <3>2 DEF PolicyExists, Busy
    <3> QED
      BY <3>1, <3>2, <3>3, <3>4, <3>5, Continue
  <2>2. CASE ~dir
    <3>1. Finish(p, "error") /\ p \notin linked /\ UNCHANGED <<dir, rec, linked, cached>>
      BY <1>8, <2>2 DEF PolicyExists, RoleOf
    <3>2. r.op \in PolicyOps
      BY <1>8, OpKinds DEF PolicyExists, RoleOf, PolicyPCs
    <3>3. Solo(p) => DiskKnown /\ CacheKnown /\ Right(r.op, known.life, "error")
      BY <1>8, <2>2, <3>2, OpKinds DEF PolicyExists, Progress, DiskKnown, Right
    <3> QED
      BY <3>1, <3>2, <3>3, Refused
  <2> QED
    BY <1>8, <2>1, <2>2
<1>9. CASE Publish(p)
  <2>1. Finish(p, "ok") /\ p \notin linked' /\ \A q \in Procs : q \in linked' => q \in linked
    BY <1>9 DEF Publish, RoleOf
  <2>2. Solo(p) => known' = After(r, "ok") /\ r.alone
    BY <2>1 DEF Finish, Solo
  <2>3. Solo(p) => DiskKnown' /\ CacheKnown'
    BY <1>9, <2>2, OpKinds
       DEF Publish, After, Gone, Progress, Saving, DiskKnown, CacheKnown, RoleOf,
           PolicyPCs, Request, Record
  <2>4. Solo(p) => Right(r.op, known.life, "ok")
    BY <1>9, OpKinds DEF Publish, Progress, Saving, Right, RoleOf, PolicyPCs
  <2>5. "ok" \in Outcomes
    BY DEF Outcomes
  <2> QED
    BY <2>1, <2>3, <2>4, <2>5, Answered
<1>10. CASE DeleteFind(p)
  <2>1. CASE dir
    <3>1. Goto(p, "list") /\ known' = known
      BY <1>10, <2>1 DEF DeleteFind
    <3>2. /\ req'[p].pc = "list" /\ req'[p].op = r.op /\ req'[p].alone = r.alone
          /\ req'[p].saw = r.saw /\ req'[p].meta = r.meta /\ req'[p].owner = r.owner
          /\ \A q \in Procs : q # p => req'[q] = req[q]
      BY <3>1, <1>c DEF Goto, Request
    <3>3. RoleOf(req'[p], p \in linked')
      BY <1>10, <3>1, <3>2 DEF DeleteFind, RoleOf, CreatePCs, DeletePCs, PolicyPCs, ObjectPCs
    <3>4. Solo(p) => Progress(req[p], p \in linked)'
      BY <1>10, <2>1, <3>1, <3>2 DEF DeleteFind, Progress, DiskKnown, CacheKnown
    <3>5. Busy(p)' /\ \A q \in Procs : q # p /\ q \in linked' => q \in linked
      BY <1>10, <3>1, <3>2 DEF DeleteFind, Busy
    <3> QED
      BY <3>1, <3>2, <3>3, <3>4, <3>5, Continue
  <2>2. CASE ~dir
    <3>1. Finish(p, "notfound") /\ p \notin linked /\ UNCHANGED <<dir, rec, linked, cached>>
      BY <1>10, <2>2 DEF DeleteFind, RoleOf
    <3>2. Solo(p) => DiskKnown /\ CacheKnown /\ Right(r.op, known.life, "notfound")
      BY <1>10, <2>2, OpKinds DEF DeleteFind, Progress, DiskKnown, Right, RoleOf, DeletePCs
    <3> QED
      BY <3>1, <3>2, Refused
  <2> QED
    BY <1>10, <2>1, <2>2
<1>11. CASE DeleteList(p)
  <2>1. CASE ~dir
    <3>1. /\ Finish(p, "error") /\ p \notin linked'
          /\ \A q \in Procs : q \in linked' => q \in linked
      BY <1>11, <2>1 DEF DeleteList, RoleOf
    <3>2. Solo(p) => known.life = "unknown"
      BY <1>11, <2>1 DEF DeleteList, Progress
    <3>3. r.op \notin PolicyOps
      BY <1>11, OpKinds DEF DeleteList, RoleOf, DeletePCs
    <3> QED
      BY <3>1, <3>2, <3>3, Failed
  <2>2. CASE dir /\ obj
    <3>1. Finish(p, "notempty") /\ p \notin linked /\ UNCHANGED <<dir, rec, linked, cached>>
      BY <1>11, <2>2 DEF DeleteList, RoleOf
    <3>2. Solo(p) => DiskKnown /\ CacheKnown /\ Right(r.op, known.life, "notempty")
      BY <1>11, <2>2, OpKinds DEF DeleteList, Progress, DiskKnown, Right, RoleOf, DeletePCs
    <3> QED
      BY <3>1, <3>2, Refused
  <2>3. CASE dir /\ ~obj
    <3>1. Goto(p, "rmdir") /\ known' = known
      BY <1>11, <2>3 DEF DeleteList
    <3>2. /\ req'[p].pc = "rmdir" /\ req'[p].op = r.op /\ req'[p].alone = r.alone
          /\ req'[p].saw = r.saw /\ req'[p].meta = r.meta /\ req'[p].owner = r.owner
          /\ \A q \in Procs : q # p => req'[q] = req[q]
      BY <3>1, <1>c DEF Goto, Request
    <3>3. RoleOf(req'[p], p \in linked')
      BY <1>11, <3>1, <3>2 DEF DeleteList, RoleOf, CreatePCs, DeletePCs, PolicyPCs, ObjectPCs
    <3>4. Solo(p) => Progress(req[p], p \in linked)'
      BY <1>11, <2>3, <3>1, <3>2 DEF DeleteList, Progress, DiskKnown, CacheKnown
    <3>5. Busy(p)' /\ \A q \in Procs : q # p /\ q \in linked' => q \in linked
      BY <1>11, <3>1, <3>2 DEF DeleteList, Busy
    <3> QED
      BY <3>1, <3>2, <3>3, <3>4, <3>5, Continue
  <2> QED
    BY <1>11, <2>1, <2>2, <2>3
<1>12. CASE DeleteRemove(p)
  <2>1. CASE dir /\ ~obj
    <3>1. Goto(p, "drop") /\ known' = known
      BY <1>12, <2>1 DEF DeleteRemove
    <3>2. /\ req'[p].pc = "drop" /\ req'[p].op = r.op /\ req'[p].alone = r.alone
          /\ req'[p].saw = r.saw /\ req'[p].meta = r.meta /\ req'[p].owner = r.owner
          /\ \A q \in Procs : q # p => req'[q] = req[q]
      BY <3>1, <1>c DEF Goto, Request
    <3>3. RoleOf(req'[p], p \in linked')
      BY <1>12, <3>1, <3>2
         DEF DeleteRemove, RoleOf, CreatePCs, DeletePCs, PolicyPCs, ObjectPCs
    <3>4. Solo(p) => Progress(req[p], p \in linked)'
      BY <1>12, <2>1, <3>1, <3>2, RecordKinds
         DEF DeleteRemove, Progress, DiskKnown, CacheKnown, TypeOK, Known, Record
    <3>5. Busy(p)' /\ \A q \in Procs : q # p /\ q \in linked' => q \in linked
      BY <1>12, <3>1, <3>2 DEF DeleteRemove, Busy
    <3> QED
      BY <3>1, <3>2, <3>3, <3>4, <3>5, Continue
  <2>2. CASE ~(dir /\ ~obj)
    <3>1. /\ Finish(p, "error") /\ p \notin linked'
          /\ \A q \in Procs : q \in linked' => q \in linked
      BY <1>12, <2>2 DEF DeleteRemove, RoleOf
    <3>2. Solo(p) => known.life = "unknown"
      BY <1>12, <2>2 DEF DeleteRemove, Progress
    <3>3. r.op \notin PolicyOps
      BY <1>12, OpKinds DEF DeleteRemove, RoleOf, DeletePCs
    <3> QED
      BY <3>1, <3>2, <3>3, Failed
  <2> QED
    BY <1>12, <2>1, <2>2
<1>13. CASE DeleteRecord(p)
  <2>1. CASE rec = NoRecord
    <3>1. /\ Finish(p, "error") /\ p \notin linked'
          /\ \A q \in Procs : q \in linked' => q \in linked
      BY <1>13, <2>1 DEF DeleteRecord, RoleOf
    <3>2. Solo(p) => known.life = "unknown"
      BY <1>13, <2>1 DEF DeleteRecord, TypeOK, Known, Lives, Progress
    <3>3. r.op \notin PolicyOps
      BY <1>13, OpKinds DEF DeleteRecord, RoleOf, DeletePCs
    <3> QED
      BY <3>1, <3>2, <3>3, Failed
  <2>2. CASE rec # NoRecord
    <3>1. /\ Finish(p, "ok") /\ p \notin linked'
          /\ \A q \in Procs : q \in linked' => q \in linked
      BY <1>13, <2>2 DEF DeleteRecord, RoleOf
    <3>2. Solo(p) => known' = After(r, "ok") /\ r.alone
      BY <3>1 DEF Finish, Solo
    <3>3. Solo(p) => DiskKnown' /\ CacheKnown'
      BY <1>13, <2>2, <3>2, OpKinds
         DEF DeleteRecord, After, Gone, Progress, DiskKnown, CacheKnown, RoleOf,
             DeletePCs, TypeOK
    <3>4. Solo(p) => Right(r.op, known.life, "ok")
      BY <1>13, <2>2 DEF DeleteRecord, Progress, Right, RoleOf, DeletePCs
    <3>5. "ok" \in Outcomes
      BY DEF Outcomes
    <3> QED
      BY <3>1, <3>3, <3>4, <3>5, Answered
  <2> QED
    BY <1>13, <2>1, <2>2
<1>14. CASE DeleteFail(p)
  <2>1. /\ Finish(p, "failed") /\ p \notin linked'
        /\ \A q \in Procs : q \in linked' => q \in linked
    BY <1>14 DEF DeleteFail, RoleOf
  <2> QED
    BY <2>1, Failed
<1>15. CASE SaveWrite(p)
  <2>1. CASE r.op = "transfer"
    <3>1. /\ Finish(p, "ok") /\ p \notin linked'
          /\ \A q \in Procs : q \in linked' => q \in linked
      BY <1>15, <2>1 DEF SaveWrite, RoleOf
    <3>2. Solo(p) => known' = After(r, "ok") /\ r.alone
      BY <3>1 DEF Finish, Solo
    <3>3. Solo(p) => DiskKnown' /\ CacheKnown'
      BY <1>15, <2>1, <3>2, OpKinds
         DEF SaveWrite, After, Gone, Unknown, Progress, Saving, DiskKnown, CacheKnown,
             Request, Record, TypeOK, Known
    <3>4. Solo(p) => Right(r.op, known.life, "ok")
      BY <1>15, <2>1, OpKinds DEF SaveWrite, Progress, Saving, Right
    <3>5. "ok" \in Outcomes
      BY DEF Outcomes
    <3> QED
      BY <3>1, <3>3, <3>4, <3>5, Answered
  <2>2. CASE r.op = "create"
    <3>1. Goto(p, "show") /\ known' = known
      BY <1>15, <2>2 DEF SaveWrite
    <3>2. /\ req'[p].pc = "show" /\ req'[p].op = r.op /\ req'[p].alone = r.alone
          /\ req'[p].saw = r.saw /\ req'[p].meta = r.meta /\ req'[p].owner = r.owner
          /\ \A q \in Procs : q # p => req'[q] = req[q]
      BY <3>1, <1>c DEF Goto, Request
    <3>3. RoleOf(req'[p], p \in linked')
      BY <1>15, <2>2, <3>1, <3>2 DEF SaveWrite, RoleOf, DeletePCs, PolicyPCs, ObjectPCs
    <3>4. Solo(p) => Progress(req[p], p \in linked)'
      BY <1>15, <2>2, <3>1, <3>2 DEF SaveWrite, Progress, Saving, CacheKnown
    <3>5. Busy(p)' /\ \A q \in Procs : q # p /\ q \in linked' => q \in linked
      BY <1>15, <3>1, <3>2 DEF SaveWrite, Busy
    <3> QED
      BY <3>1, <3>2, <3>3, <3>4, <3>5, Continue
  <2>3. CASE r.op \in PolicyOps
    <3>1. Goto(p, "publish") /\ known' = known
      BY <1>15, <2>3, OpKinds DEF SaveWrite
    <3>2. /\ req'[p].pc = "publish" /\ req'[p].op = r.op /\ req'[p].alone = r.alone
          /\ req'[p].saw = r.saw /\ req'[p].meta = r.meta /\ req'[p].owner = r.owner
          /\ \A q \in Procs : q # p => req'[q] = req[q]
      BY <3>1, <1>c DEF Goto, Request
    <3>3. RoleOf(req'[p], p \in linked')
      BY <1>15, <2>3, <3>1, <3>2 DEF SaveWrite, RoleOf, CreatePCs, DeletePCs, ObjectPCs
    <3>4. Solo(p) => Progress(req[p], p \in linked)'
      BY <1>15, <2>3, <3>1, <3>2 DEF SaveWrite, Progress, Saving, CacheKnown
    <3>5. Busy(p)' /\ \A q \in Procs : q # p /\ q \in linked' => q \in linked
      BY <1>15, <3>1, <3>2 DEF SaveWrite, Busy
    <3> QED
      BY <3>1, <3>2, <3>3, <3>4, <3>5, Continue
  <2> QED
    BY <1>15, <2>1, <2>2, <2>3, OpKinds DEF SaveWrite, RoleOf
<1>16. CASE Load(p)
  <2>1. CASE rec \in Record
    <3> DEFINE meta == CASE r.op = "transfer" -> [rec EXCEPT !.owner = r.owner]
                         [] OTHER -> [rec EXCEPT !.policy = r.meta.policy]
    <3>1. known' = known /\ req' = [req EXCEPT ![p] = [r EXCEPT !.pc = "truncate", !.meta = meta]]
      BY <1>16, <2>1 DEF Load
    <3>2. /\ req'[p].pc = "truncate" /\ req'[p].op = r.op /\ req'[p].alone = r.alone
          /\ req'[p].saw = r.saw /\ req'[p].meta = meta /\ req'[p].owner = r.owner
          /\ \A q \in Procs : q # p => req'[q] = req[q]
      BY <3>1, <1>c DEF Request
    <3>3. /\ UNCHANGED <<dir, obj, rec, linked, cached>> /\ r.pc = "load"
          /\ r.op \in RecordOps /\ p \notin linked
      BY <1>16 DEF Load, RoleOf
    <3>4. RoleOf(req'[p], p \in linked')
      BY <3>2, <3>3, OpKinds DEF RoleOf, CreatePCs, DeletePCs, PolicyPCs, ObjectPCs
    <3>5. ASSUME Solo(p) PROVE Progress(req[p], p \in linked)'
      <4>1. DiskKnown /\ CacheKnown /\ (r.op \in PolicyOps => dir)
        BY <3>3, <3>5 DEF Progress
      <4>2. known.life # "gone"
        BY <2>1, <4>1, RecordKinds DEF DiskKnown
      <4>3. known.life = "there" => rec.owner = known.owner /\ rec.policy = known.policy /\ dir
        BY <4>1 DEF DiskKnown
      <4>4. /\ r.op = "transfer" => meta.owner = r.owner /\ meta.policy = rec.policy
            /\ r.op # "transfer" => meta.owner = rec.owner
        BY <2>1 DEF Record
      <4>5. Saving(req[p])'
        BY <3>1, <3>2, <3>3, <4>1, <4>2, <4>3, <4>4, OpKinds DEF Saving
      <4> QED
        BY <3>1, <3>2, <3>3, <4>1, <4>5 DEF Progress, CacheKnown
    <3>6. Busy(p)'
      BY <3>2 DEF Busy
    <3> QED
      BY <3>1, <3>2, <3>3, <3>4, <3>5, <3>6, Continue
  <2>2. CASE rec = NoRecord /\ r.op = "transfer"
    <3>0. rec \notin Record
      BY <2>2, RecordKinds
    <3>1. Finish(p, "notfound") /\ p \notin linked /\ UNCHANGED <<dir, rec, linked, cached>>
      BY <1>16, <2>2, <3>0 DEF Load, RoleOf
    <3>2. Solo(p) => DiskKnown /\ CacheKnown /\ Right(r.op, known.life, "notfound")
      BY <1>16, <2>2, OpKinds, RecordKinds
         DEF Load, Progress, DiskKnown, Right, RoleOf, TypeOK, Known, Record
    <3> QED
      BY <3>1, <3>2, Refused
  <2>3. CASE rec \notin Record /\ r.op \in PolicyOps
    <3>1. Finish(p, "error") /\ p \notin linked /\ UNCHANGED <<dir, rec, linked, cached>>
      BY <1>16, <2>3, OpKinds DEF Load, RoleOf
    <3>2. Solo(p) => DiskKnown /\ CacheKnown /\ dir
      BY <1>16, <2>3 DEF Load, Progress
    <3>3. Solo(p) => known.life \notin {"there", "gone"}
      BY <2>3, <3>2 DEF DiskKnown, TypeOK, Known, Record
    <3>4. Solo(p) => DiskKnown /\ CacheKnown /\ Right(r.op, known.life, "error")
      BY <3>2, <3>3 DEF Right
    <3> QED
      BY <2>3, <3>1, <3>4, Refused
  <2>4. CASE rec \notin Record /\ rec # NoRecord /\ r.op = "transfer"
    <3>1. /\ Finish(p, "error") /\ p \notin linked'
          /\ \A q \in Procs : q \in linked' => q \in linked
      BY <1>16, <2>4 DEF Load, RoleOf
    <3>2. Solo(p) => known.life = "unknown"
      BY <1>16, <2>4 DEF Load, TypeOK, Known, Lives, Record, Progress, DiskKnown
    <3> QED
      BY <2>4, <3>1, <3>2, OpKinds, Failed
  <2>5. r.op = "transfer" \/ r.op \in PolicyOps
    BY <1>16, OpKinds DEF Load, RoleOf
  <2> QED
    BY <2>1, <2>2, <2>3, <2>4, <2>5
<1> QED
  BY <1>1, <1>2, <1>3, <1>4, <1>5, <1>6, <1>7, <1>8, <1>9, <1>10, <1>11, <1>12, <1>13,
     <1>14, <1>15, <1>16
     DEF CreateStep, SaveStep, PolicyStep, DeleteStep

-----------------------------------------------------------------------------
(* The steps of requests that are about objects *)

\* While only object requests run, and so while one runs alone, all that is
\* known of the bucket is so.
LEMMA OnlyObjects ==
    ASSUME TypeOK, IInv, NEW p \in Procs, Solo(p), req[p].op \in ObjectOps
    PROVE  \A q \in Procs : Busy(q) => req[q].op \in ObjectOps
  BY DEF IInv, SoloOK

\* An object request goes on or is answered: it leaves a bucket that is there,
\* makes none where there was none, and is answered rightly if it was alone.
LEMMA Object ==
    ASSUME TypeOK, TypeOK', IInv, up, up', NEW p \in Procs,
           Busy(p), req[p].op \in ObjectOps, UNCHANGED <<rec, linked, cached, known>>,
           \A q \in Procs : q # p => req'[q] = req[q],
           req'[p].op = req[p].op, req'[p].alone = req[p].alone, req'[p].saw = req[p].saw,
           RoleOf(req'[p], p \in linked'),
           dir => dir',
           DiskKnown /\ known.life = "gone" /\ req[p].pc \notin {"scope", "touch"} =>
               dir' = dir /\ req'[p].pc \notin {"scope", "touch"},
           ~Busy(p)' /\ Solo(p) => Right(req[p].op, known.life, req'[p].out)
    PROVE  IInv'
<1>1. Role' /\ Down' /\ NothingInvented'
  BY DEF IInv, Role, RoleOf, Down, NothingInvented
<1>2. \A q \in Procs : q # p => Busy(q)' = Busy(q) /\ Solo(q)' = Solo(q)
  BY DEF Busy, Solo
<1>3. \A q \in Procs : Busy(q)' => Busy(q)
  BY <1>2
<1>4. \A q \in Procs : Solo(q)' => Solo(q)
  BY <1>3 DEF Solo
<1>5. SoloOK'
  BY <1>3, <1>4 DEF IInv, SoloOK
<1>6. Working'
  <2>1. \A q \in Procs : Solo(q)' => req'[q].op \in ObjectOps
    BY <1>4 DEF IInv, SoloOK
  <2> QED
    BY <2>1, OpKinds DEF Working
<1>7. Calm'
  <2> SUFFICES ASSUME \A q \in Procs : Busy(q)' => req'[q].op \in ObjectOps
               PROVE  /\ DiskKnown' /\ CacheKnown'
                      /\ known'.life = "gone" => \A q \in Procs : req'[q].pc \notin {"scope", "touch"}
    BY DEF Calm
  <2>1. \A q \in Procs : Busy(q) => req[q].op \in ObjectOps
    BY <1>2
  <2>2. DiskKnown /\ CacheKnown /\ (known.life = "gone" => \A q \in Procs : req[q].pc \notin {"scope", "touch"})
    BY <2>1 DEF IInv, Calm
  <2>3. known.life = "gone" => dir' = dir /\ req'[p].pc \notin {"scope", "touch"}
    BY <2>2
  <2>4. DiskKnown' /\ CacheKnown'
    BY <2>2, <2>3 DEF DiskKnown, CacheKnown
  <2> QED
    BY <2>2, <2>3, <2>4
<1>8. SoloAnswers'
  <2>1. ASSUME req'[p].pc = "done", req'[p].alone
        PROVE  Right(req'[p].op, req'[p].saw, req'[p].out)
    <3>1. ~Busy(p)' /\ Solo(p)
      BY <2>1 DEF Busy, Solo
    <3>2. req[p].saw = known.life
      BY <3>1 DEF IInv, SoloOK
    <3> QED
      BY <3>1, <3>2
  <2> QED
    BY <2>1 DEF IInv, SoloAnswers
<1> QED
  BY <1>1, <1>5, <1>6, <1>7, <1>8 DEF IInv

\* Every step of a request that is about an object.
LEMMA ObjectStepInv ==
    ASSUME TypeOK, TypeOK', IInv, NEW p \in Procs, ObjectStep(p)
    PROVE  IInv'
<1> DEFINE r == req[p]
<1> USE DEF At, disk
<1>a. up /\ up' /\ Busy(p) /\ r.pc \in ObjectPCs /\ UNCHANGED <<rec, linked, cached>>
  BY DEF ObjectStep, ObjectHead, ObjectScope, ObjectTouch, Busy, ObjectPCs
<1>b. r \in Request /\ r.op \in ObjectOps /\ p \notin linked
  BY <1>a DEF TypeOK, IInv, Role, RoleOf, ObjectPCs
<1>c. req \in [Procs -> Request]
  BY DEF TypeOK
<1>d. Solo(p) => /\ DiskKnown
                 /\ known.life = "gone" => r.pc \notin {"scope", "touch"}
  BY <1>b, OnlyObjects DEF IInv, Calm
<1>e. ASSUME NEW pc \in {"scope", "touch", "done"}, NEW out \in Outcomes,
             req' = [req EXCEPT ![p] = [r EXCEPT !.pc = pc, !.out = out]]
      PROVE  /\ \A q \in Procs : q # p => req'[q] = req[q]
             /\ req'[p].pc = pc /\ req'[p].op = r.op /\ req'[p].alone = r.alone
             /\ req'[p].saw = r.saw /\ req'[p].out = out
             /\ RoleOf(req'[p], p \in linked')
  <2>1. /\ \A q \in Procs : q # p => req'[q] = req[q]
        /\ req'[p].pc = pc /\ req'[p].op = r.op /\ req'[p].alone = r.alone
        /\ req'[p].saw = r.saw /\ req'[p].out = out
    BY <1>c, <1>e DEF Request
  <2>2. RoleOf(req'[p], p \in linked')
    BY <1>a, <1>b, <1>c, <1>e, <2>1, OpKinds
       DEF RoleOf, CreatePCs, DeletePCs, PolicyPCs, ObjectPCs, ObjectOps, Request
  <2> QED
    BY <2>1, <2>2
<1>f. ASSUME NEW pc \in {"scope", "touch"}, Goto(p, pc)
      PROVE  /\ \A q \in Procs : q # p => req'[q] = req[q]
             /\ req'[p].pc = pc /\ req'[p].op = r.op /\ req'[p].alone = r.alone
             /\ req'[p].saw = r.saw /\ Busy(p)'
             /\ RoleOf(req'[p], p \in linked')
  <2>1. req' = [req EXCEPT ![p] = [r EXCEPT !.pc = pc, !.out = r.out]] /\ r.out \in Outcomes
    BY <1>b, <1>c, <1>f DEF Goto, Request
  <2> QED
    BY <1>e, <2>1 DEF Busy
<1>g. ASSUME NEW out \in Outcomes, Finish(p, out)
      PROVE  /\ \A q \in Procs : q # p => req'[q] = req[q]
             /\ req'[p].pc = "done" /\ req'[p].op = r.op /\ req'[p].alone = r.alone
             /\ req'[p].saw = r.saw /\ req'[p].out = out /\ ~Busy(p)'
             /\ RoleOf(req'[p], p \in linked') /\ known' = known
  <2>1. req' = [req EXCEPT ![p] = [r EXCEPT !.pc = "done", !.out = out]] /\ known' = known
    BY <1>b, <1>c, <1>g DEF Finish, After
  <2> QED
    BY <1>e, <2>1 DEF Busy
<1>h. {"ok", "notfound", "error"} \subseteq Outcomes
  BY DEF Outcomes
<1>1. CASE ObjectHead(p)
  <2>1. CASE dir
    <3>1. Goto(p, "scope") /\ known' = known /\ dir' = dir
      BY <1>1, <2>1 DEF ObjectHead
    <3>2. ~(DiskKnown /\ known.life = "gone")
      BY <2>1 DEF DiskKnown
    <3> QED
      BY <1>a, <1>b, <1>f, <3>1, <3>2, Object
  <2>2. CASE ~dir
    <3>1. Finish(p, "notfound") /\ dir' = dir
      BY <1>1, <2>2 DEF ObjectHead
    <3>2. Solo(p) => Right(r.op, known.life, "notfound")
      BY <1>b, <1>d, <2>2, OpKinds DEF DiskKnown, Right, ObjectOps
    <3> QED
      BY <1>a, <1>b, <1>g, <1>h, <3>1, <3>2, Object
  <2> QED
    BY <2>1, <2>2
<1>2. CASE ObjectScope(p)
  <2>1. Goto(p, "touch") /\ known' = known /\ dir' = TRUE /\ r.pc = "scope"
    BY <1>2 DEF ObjectScope
  <2> QED
    BY <1>a, <1>b, <1>f, <2>1, Object
<1>3. CASE ObjectTouch(p)
  <2>1. r.pc = "touch" /\ (dir => dir')
    BY <1>3 DEF ObjectTouch
  <2>2. PICK out \in {"ok", "notfound", "error"} :
          /\ Finish(p, out)
          /\ r.op = "put" => out = "ok" \/ (out = "error" /\ ~dir)
          /\ r.op # "put" => out \in {"ok", "notfound"}
    BY <1>3 DEF ObjectTouch
  <2>3. Solo(p) => Right(r.op, known.life, out)
    BY <1>b, <1>d, <2>1, <2>2, OpKinds DEF DiskKnown, Right, ObjectOps
  <2>4. /\ \A q \in Procs : q # p => req'[q] = req[q]
        /\ req'[p].pc = "done" /\ req'[p].op = r.op /\ req'[p].alone = r.alone
        /\ req'[p].saw = r.saw /\ req'[p].out = out /\ ~Busy(p)'
        /\ RoleOf(req'[p], p \in linked') /\ known' = known
    BY <1>g, <1>h, <2>2
  <2> QED
    BY <1>a, <1>b, <2>1, <2>3, <2>4, Object
<1> QED
  BY <1>1, <1>2, <1>3 DEF ObjectStep

-----------------------------------------------------------------------------
(* Requests begin and end; the process dies and starts *)

\* A request that begins may be alone only if no other is in progress, and
\* those in progress are not any more.
LEMMA BeginInv ==
    ASSUME TypeOK, TypeOK', IInv, NEW p \in Procs, Begin(p)
    PROVE  IInv'
<1>1. PICK op \in Ops, o \in Owners, d \in Policies :
        LET new == [Idle EXCEPT
                      !.pc = FirstPC(op), !.op = op,
                      !.owner = IF op \in {"create", "transfer"} THEN o ELSE AnyOwner,
                      !.meta = [owner |-> IF op = "create" THEN o ELSE AnyOwner,
                                policy |-> IF op = "putpolicy" THEN d ELSE NoPolicy],
                      !.alone = Quiet, !.saw = known.life]
        IN req' = [q \in Procs |-> IF q = p THEN new
                                   ELSE [req[q] EXCEPT !.alone = @ /\ ~Busy(q)]]
  BY DEF Begin
<1>2. UNCHANGED <<dir, obj, rec, linked, cached, up, known>> /\ up /\ req[p].pc = "idle"
  BY DEF Begin, At, disk
<1>3. /\ req'[p].pc = FirstPC(op) /\ req'[p].op = op /\ req'[p].alone = Quiet
      /\ req'[p].saw = known.life
      /\ op = "create" => req'[p].owner = o /\ req'[p].meta = [owner |-> o, policy |-> NoPolicy]
  BY <1>1 DEF Idle
<1>4. ASSUME NEW q \in Procs, q # p
      PROVE  /\ req'[q].pc = req[q].pc /\ req'[q].op = req[q].op /\ req'[q].owner = req[q].owner
             /\ req'[q].meta = req[q].meta /\ req'[q].saw = req[q].saw /\ req'[q].out = req[q].out
             /\ req'[q].alone = (req[q].alone /\ ~Busy(q))
  BY <1>1, <1>4 DEF TypeOK, Request
<1>5. op \in AllOps /\ p \notin linked
  BY <1>2, OpsAssumption DEF IInv, Role, RoleOf
<1>6. Role'
  <2>1. RoleOf(req'[p], p \in linked')
    BY <1>2, <1>3, <1>5, OpKinds
       DEF RoleOf, FirstPC, CreatePCs, DeletePCs, PolicyPCs, ObjectPCs, ObjectOps
  <2>2. ASSUME NEW q \in Procs, q # p PROVE RoleOf(req'[q], q \in linked')
    BY <1>2, <1>4, <2>2 DEF IInv, Role, RoleOf
  <2> QED
    BY <2>1, <2>2 DEF Role
<1>7. Down' /\ NothingInvented'
  BY <1>2 DEF IInv, Down, NothingInvented
<1>8. Busy(p)' /\ (Solo(p)' => Quiet)
  BY <1>3, <1>5 DEF Busy, Solo, FirstPC, PolicyOps
<1>9. \A q \in Procs : q # p => Busy(q)' = Busy(q) /\ ~Solo(q)'
  BY <1>4 DEF Busy, Solo
<1>10. SoloOK'
  BY <1>2, <1>3, <1>8, <1>9 DEF SoloOK, Quiet
<1>11. Calm'
  <2> SUFFICES ASSUME \A q \in Procs : Busy(q)' => req'[q].op \in ObjectOps
               PROVE  /\ DiskKnown' /\ CacheKnown'
                      /\ known'.life = "gone" => \A q \in Procs : req'[q].pc \notin {"scope", "touch"}
    BY DEF Calm
  <2>1. \A q \in Procs : Busy(q) => req[q].op \in ObjectOps
    BY <1>2, <1>4, <1>9 DEF Busy
  <2>2. DiskKnown /\ CacheKnown /\ (known.life = "gone" => \A q \in Procs : req[q].pc \notin {"scope", "touch"})
    BY <1>2, <2>1 DEF IInv, Calm
  <2>3. req'[p].pc \notin {"scope", "touch"}
    BY <1>3 DEF FirstPC
  <2> QED
    BY <1>2, <1>4, <2>2, <2>3 DEF DiskKnown, CacheKnown
<1>12. Working'
  <2>1. ASSUME Quiet PROVE DiskKnown /\ CacheKnown
    BY <1>2, <2>1 DEF Quiet, IInv, Calm
  <2>2. Solo(p)' /\ op \in BucketOps => Progress(req[p], p \in linked)'
    <3> SUFFICES ASSUME Quiet, op \in BucketOps PROVE Progress(req[p], p \in linked)'
      BY <1>8
    <3>1. FirstPC(op) \in {"stat", "find", "load", "exists"}
      BY OpKinds DEF FirstPC
    <3>2. FirstPC(op) = "load" => op \notin PolicyOps
      BY OpKinds DEF FirstPC
    <3>3. DiskKnown' /\ CacheKnown'
      BY <1>2, <2>1 DEF DiskKnown, CacheKnown
    <3> QED
      BY <1>3, <3>1, <3>2, <3>3 DEF Progress
  <2> QED
    BY <1>3, <1>9, <2>2 DEF Working
<1>13. SoloAnswers'
  <2>1. req'[p].pc # "done"
    BY <1>8 DEF Busy
  <2> QED
    BY <1>4, <2>1 DEF IInv, SoloAnswers
<1> QED
  BY <1>6, <1>7, <1>10, <1>11, <1>12, <1>13 DEF IInv

\* A goroutine is free again once its request has been answered.
LEMMA ReplyInv ==
    ASSUME TypeOK, TypeOK', IInv, NEW p \in Procs, Reply(p)
    PROVE  IInv'
<1>1. UNCHANGED <<dir, obj, rec, linked, cached, up, known>> /\ up /\ req[p].pc = "done"
  BY DEF Reply, At, disk
<1>2. req'[p] = Idle /\ \A q \in Procs : q # p => req'[q] = req[q]
  BY DEF Reply, TypeOK
<1>3. /\ Idle.pc = "idle" /\ Idle.op = "get" /\ "get" \in ObjectOps
  BY DEF Idle, ObjectOps
<1>4. Role'
  BY <1>1, <1>2, <1>3
     DEF IInv, Role, RoleOf, CreatePCs, DeletePCs, PolicyPCs, ObjectPCs
<1>5. \A q \in Procs : Busy(q)' = Busy(q) /\ Solo(q)' = Solo(q)
  BY <1>1, <1>2, <1>3 DEF Busy, Solo
<1>6. ~Busy(p) /\ \A q \in Procs : Busy(q) => req'[q] = req[q]
  BY <1>1, <1>2 DEF Busy
<1>7. Down' /\ NothingInvented'
  BY <1>1 DEF IInv, Down, NothingInvented
<1>8. SoloOK'
  BY <1>1, <1>5, <1>6 DEF IInv, SoloOK, Solo
<1>9. Calm'
  BY <1>1, <1>2, <1>3, <1>5, <1>6 DEF IInv, Calm, DiskKnown, CacheKnown
<1>10. Working'
  <2>1. ASSUME NEW q \in Procs, Solo(q)', req'[q].op \in BucketOps
        PROVE  Progress(req[q], q \in linked)'
    <3>1. req'[q] = req[q] /\ Progress(req[q], q \in linked)
      BY <1>5, <1>6, <2>1 DEF IInv, Working, Solo
    <3> QED
      BY <1>1, <3>1 DEF Progress, Saving, DiskKnown, CacheKnown
  <2> QED
    BY <2>1 DEF Working
<1>11. SoloAnswers'
  BY <1>2, <1>3 DEF IInv, SoloAnswers
<1> QED
  BY <1>4, <1>7, <1>8, <1>9, <1>10, <1>11 DEF IInv

\* A crash leaves no request, and of a request it cut short nothing is known.
LEMMA CrashInv ==
    ASSUME TypeOK, TypeOK', IInv, Crash
    PROVE  IInv'
<1>1. /\ \A p \in Procs : req'[p] = Idle /\ ~Busy(p)' /\ ~Solo(p)' /\ p \notin linked'
      /\ ~up' /\ UNCHANGED <<dir, obj, rec>>
  BY DEF Crash, Busy, Solo, Idle
<1>2. Role'
  BY <1>1 DEF Role, RoleOf, Idle, CreatePCs, DeletePCs, PolicyPCs, ObjectPCs
<1>3. Down' /\ SoloOK' /\ Working'
  BY <1>1 DEF Down, SoloOK, Working
<1>4. NothingInvented'
  BY DEF Crash, IInv, NothingInvented, Unknown, Gone
<1>5. Calm'
  <2>1. CASE \E p \in Procs : Busy(p) /\ req[p].op \in BucketOps
    BY <1>1, <2>1 DEF Crash, Calm, DiskKnown, Unknown
  <2>2. CASE \A p \in Procs : Busy(p) => req[p].op \notin BucketOps
    <3>1. \A p \in Procs : Busy(p) => req[p].op \in ObjectOps
      BY <2>2, OpKinds DEF TypeOK, Request
    <3>2. DiskKnown /\ known' = known
      BY <2>2, <3>1 DEF Crash, IInv, Calm
    <3> QED
      BY <1>1, <3>2 DEF Calm, DiskKnown, Idle
  <2> QED
    BY <2>1, <2>2
<1>6. SoloAnswers'
  BY <1>1 DEF SoloAnswers, Idle
<1> QED
  BY <1>2, <1>3, <1>4, <1>5, <1>6 DEF IInv

\* A start reads the policy of a record that can be read, or no policy and
\* then claims to know of none.
LEMMA StartInv ==
    ASSUME TypeOK, TypeOK', IInv, Start
    PROVE  IInv'
<1>1. /\ ~up /\ up' /\ UNCHANGED <<dir, obj, rec, linked, req>>
      /\ known'.life = known.life /\ known'.owner = known.owner
      /\ known'.policy = known.policy /\ (known'.told => known.life # "unknown")
      /\ \/ cached' = IF rec \in Record THEN rec.policy ELSE NoPolicy
         \/ cached' = NoPolicy /\ (known'.told => known.policy = NoPolicy)
  BY DEF Start, disk, TypeOK, Known
<1>2. \A p \in Procs : req[p].pc = "idle" /\ ~Busy(p) /\ ~Solo(p)
  <2>1. \A p \in Procs : req[p] = Idle
    BY <1>1 DEF IInv, Down
  <2> QED
    BY <2>1 DEF Busy, Solo, Idle
<1>3. Role' /\ Down' /\ NothingInvented' /\ SoloAnswers'
  BY <1>1 DEF IInv, Role, Down, NothingInvented, SoloAnswers
<1>4. SoloOK' /\ Working'
  BY <1>1, <1>2 DEF SoloOK, Working, Solo, Busy
<1>5. DiskKnown
  BY <1>2 DEF IInv, Calm
<1>6. CacheKnown'
  <2>1. CASE known.life = "there"
    <3>1. rec \in Record /\ rec.policy = known.policy
      BY <1>5, <2>1 DEF DiskKnown, TypeOK, Known, Record
    <3> QED
      BY <1>1, <3>1 DEF CacheKnown
  <2>2. CASE known.life = "gone"
    <3>1. rec \notin Record /\ known.policy = NoPolicy
      BY <1>5, <2>2, RecordKinds DEF DiskKnown, IInv, NothingInvented
    <3> QED
      BY <1>1, <3>1 DEF CacheKnown
  <2>3. CASE known.life = "unknown"
    BY <1>1, <2>3 DEF CacheKnown
  <2> QED
    BY <2>1, <2>2, <2>3 DEF TypeOK, Known, Lives
<1>7. Calm'
  BY <1>1, <1>2, <1>5, <1>6 DEF Calm, DiskKnown
<1> QED
  BY <1>3, <1>4, <1>7 DEF IInv

-----------------------------------------------------------------------------
(* The theorems *)

LEMMA InvInit == Init => IInv
<1> SUFFICES ASSUME Init PROVE IInv
  OBVIOUS
<1>1. \A p \in Procs : /\ req[p].pc = "idle" /\ req[p].op = "get" /\ p \notin linked
                       /\ req[p] = Idle
  BY DEF Init, Idle
<1>2. \A p \in Procs : ~Busy(p) /\ ~Solo(p)
  BY <1>1 DEF Busy, Solo
<1>3. Role
  BY <1>1 DEF Role, RoleOf, CreatePCs, DeletePCs, PolicyPCs, ObjectPCs
<1>4. /\ known.life = "gone" /\ known.policy = NoPolicy /\ cached = NoPolicy
      /\ up /\ ~dir /\ rec = NoRecord
  BY DEF Init, Gone
<1>5. Calm
  BY <1>1, <1>4 DEF Calm, DiskKnown, CacheKnown
<1>6. Down /\ SoloOK /\ NothingInvented /\ Working
  BY <1>2, <1>4 DEF Down, SoloOK, NothingInvented, Working
<1>7. SoloAnswers
  BY <1>1 DEF SoloAnswers
<1> QED
  BY <1>3, <1>5, <1>6, <1>7 DEF IInv

LEMMA InvStep == TypeOK /\ TypeOK' /\ IInv /\ [Next]_vars => IInv'
<1> SUFFICES ASSUME TypeOK, TypeOK', IInv, [Next]_vars PROVE IInv'
  OBVIOUS
<1>1. ASSUME NEW p \in Procs,
             Begin(p) \/ Reply(p) \/ CreateStep(p) \/ SaveStep(p)
               \/ PolicyStep(p) \/ DeleteStep(p) \/ ObjectStep(p)
      PROVE  IInv'
  BY <1>1, BeginInv, ReplyInv, BucketStep, ObjectStepInv
<1>2. CASE UNCHANGED vars
  BY <1>2
     DEF vars, disk, IInv, Role, Down, SoloOK, NothingInvented, Calm, DiskKnown,
         CacheKnown,
     Working, Progress, Saving, SoloAnswers, Solo, Busy
<1> QED
  BY <1>1, <1>2, CrashInv, StartInv DEF Next

\* A request that runs alone on a bucket whose state is known is answered
\* accordingly, whatever crashes, failed writes and races came before it:
\* CreateBucket, DeleteBucket and the policy handlers (service/s3).
THEOREM SoloAnswered == Spec => []SoloAnswers
<1>1. IInv => SoloAnswers
  BY DEF IInv
<1> QED
  BY TypeInit, TypeStep, InvInit, InvStep, <1>1, PTL DEF Spec

\* Once no request is in progress, the directory, the record and the cached
\* policy of the bucket are what the requests that ran alone made them.
THEOREM Settled == Spec => []SettledBucket
<1>1. IInv => SettledBucket
  BY DEF IInv, Calm, SettledBucket, Quiet, DiskKnown, CacheKnown
<1> QED
  BY TypeInit, TypeStep, InvInit, InvStep, <1>1, PTL DEF Spec
=============================================================================
