------------------------- MODULE ObjectStoreProofs -------------------------
(***************************************************************************)
(* Theorems about ObjectStore for every set of goroutines and keys, every  *)
(* number of uploads and every choice of the fault flags.                  *)
(*                                                                         *)
(* The inductive invariant is built in layers, each proved with the help   *)
(* of those below it:                                                      *)
(*   Control    what a goroutine at a program point has in hand            *)
(*   Fresh      who owns which upload, and which were committed            *)
(*   Carried    metadata in hand describes a committed upload              *)
(***************************************************************************)
EXTENDS ObjectStore, TLAPS

USE DEF Bodies, Absent

-----------------------------------------------------------------------------
(* Strengthenings *)

\* A goroutine is inside PutObject only for a PUT, whose body is real; what
\* it saves, or fills the cache with, is parsed metadata; a tagging request
\* that already verified its object never computes metadata from the file.
Controlled(r) ==
    /\ r.op = "put" => r.body \in Bodies
    /\ r.pc \in PutPCs => r.op = "put"
    /\ r.pc \in ReadPCs \cup {"mutate"} => r.op # "put"
    /\ r.pc \in {"fill"} \cup SavePCs => r.meta \in Meta
    /\ r.pc = "compute" => ~(r.op = "tag" /\ r.checked)

Control == \A p \in Procs : Controlled(req[p])

\* Uploads are numbered in the order they arrive; no two requests carry the
\* same one, it is in no data path before its rename and complete from its
\* finalize on.
Fresh ==
    /\ \A p \in Procs : req[p].op = "put" => req[p].body <= puts
    /\ \A p, q \in Procs :
         p # q /\ req[p].op = "put" /\ req[q].op = "put"
            => req[p].body # req[q].body
    /\ \A k \in Keys : committed[k] \subseteq 1..puts
    /\ \A p \in Procs, k \in Keys :
         req[p].pc \in {"stage", "copy", "finalize", "lock", "rename"}
            => req[p].body \notin committed[k]
    /\ \A p \in Procs :
         req[p].pc \in {"finalize", "lock", "rename"} => req[p].body \in whole

\* Metadata a goroutine has in hand describes a committed upload.
Carried ==
    \A p \in Procs : req[p].meta.etag \in committed[req[p].key] \cup {Absent}

-----------------------------------------------------------------------------
(* Values *)

\* The idle request is a request.
LEMMA IdleType == Idle \in Request
<1>1. (CHOOSE k \in Keys : TRUE) \in Keys
  BY KeysAssumption
<1> QED
  BY <1>1 DEF Idle, Request, PCs, AllOps, Outcomes, NoMeta

\* The four kinds of metadata content are distinct.
LEMMA MetaKinds ==
    /\ NoMeta \notin Meta
    /\ Torn \notin Meta
    /\ NoMeta # Torn
  BY MaxPutsAssumption DEF NoMeta, Torn, Meta

-----------------------------------------------------------------------------
(* Type correctness *)

\* A request replaced by a well-formed one leaves all of them well formed.
LEMMA UpdateOK ==
    ASSUME TypeOK, Control, NEW p \in Procs, NEW r \in Request, Controlled(r),
           req' = [req EXCEPT ![p] = r]
    PROVE  req' \in [Procs -> Request] /\ Control'
  BY DEF TypeOK, Control

\* Answering a request keeps it well formed.
LEMMA FinishOK ==
    ASSUME TypeOK, Control, NEW p \in Procs, NEW out \in Outcomes, Finish(p, out)
    PROVE  req' \in [Procs -> Request] /\ Control'
<1> DEFINE r == [req[p] EXCEPT !.pc = "done", !.out = out]
<1>1. req[p] \in Request /\ Controlled(req[p])
  BY DEF TypeOK, Control
<1>2. r \in Request /\ Controlled(r)
  BY <1>1 DEF Request, PCs, Controlled, PutPCs, ReadPCs, SavePCs
<1>3. req' = [req EXCEPT ![p] = r]
  BY DEF Finish
<1> QED
  BY <1>2, <1>3, UpdateOK

\* Moving on keeps a request well formed if it has what the next step needs.
LEMMA GotoOK ==
    ASSUME TypeOK, Control, NEW p \in Procs, NEW pc \in PCs, Goto(p, pc),
           Controlled([req[p] EXCEPT !.pc = pc])
    PROVE  req' \in [Procs -> Request] /\ Control'
<1> DEFINE r == [req[p] EXCEPT !.pc = pc]
<1>1. req[p] \in Request
  BY DEF TypeOK
<1>2. r \in Request
  BY <1>1 DEF Request
<1>3. req' = [req EXCEPT ![p] = r]
  BY DEF Goto
<1> QED
  BY <1>2, <1>3, UpdateOK

\* Metadata in hand: the request goes on, or is answered.
LEMMA GotMetaOK ==
    ASSUME TypeOK, Control, NEW p \in Procs, NEW m \in Meta \cup {NoMeta},
           req[p].op # "put",
           req[p].op = "tag" /\ req[p].checked => m \in Meta,
           GotMeta(p, m)
    PROVE  req' \in [Procs -> Request] /\ Control'
<1>1. req[p] \in Request /\ Controlled(req[p])
  BY DEF TypeOK, Control
<1>2. CASE req[p].op = "tag"
  <2> DEFINE r == [req[p] EXCEPT !.meta = m, !.checked = TRUE,
                       !.pc = IF req[p].checked THEN "mutate" ELSE "lookup"]
  <2>0. IF req[p].checked THEN "mutate" \in PCs ELSE "lookup" \in PCs
    BY DEF PCs, ReadPCs, SavePCs
  <2>1. r \in Request
    BY <1>1, <2>0 DEF Request
  <2>2. Controlled(r)
    BY <1>1, <1>2 DEF Request, Controlled, PutPCs, ReadPCs, SavePCs
  <2>3. req' = [req EXCEPT ![p] = r]
    BY <1>2 DEF GotMeta
  <2> QED
    BY <2>1, <2>2, <2>3, UpdateOK
<1>3. CASE req[p].op # "tag"
  <2> DEFINE r == [req[p] EXCEPT !.meta = m, !.pc = "done", !.out = "ok"]
  <2>1. r \in Request
    BY <1>1 DEF Request, PCs, Outcomes
  <2>2. Controlled(r)
    BY <1>1 DEF Request, Controlled, PutPCs, ReadPCs, SavePCs
  <2>3. req' = [req EXCEPT ![p] = r]
    BY <1>3 DEF GotMeta
  <2> QED
    BY <2>1, <2>2, <2>3, UpdateOK
<1> QED
  BY <1>2, <1>3

\* No usable metadata: the request is answered, or computes some.
LEMMA MetaFailedOK ==
    ASSUME TypeOK, Control, NEW p \in Procs, NEW absent \in BOOLEAN,
           req[p].op # "put", MetaFailed(p, absent)
    PROVE  req' \in [Procs -> Request] /\ Control'
<1>1. req[p] \in Request /\ Controlled(req[p])
  BY DEF TypeOK, Control
<1>2. CASE req[p].op = "owner"
  BY <1>2, FinishOK DEF MetaFailed, Outcomes
<1>3. CASE req[p].op = "tag" /\ req[p].checked
  BY <1>3, FinishOK DEF MetaFailed, Outcomes
<1>4. CASE req[p].op # "owner" /\ ~(req[p].op = "tag" /\ req[p].checked)
  <2>1. Goto(p, "compute")
    BY <1>4 DEF MetaFailed
  <2>2. Controlled([req[p] EXCEPT !.pc = "compute"])
    BY <1>1, <1>4 DEF Request, Controlled, PutPCs, SavePCs
  <2>3. "compute" \in PCs
    BY DEF PCs, ReadPCs
  <2> QED
    BY <2>1, <2>2, <2>3, GotoOK
<1> QED
  BY <1>2, <1>3, <1>4

\* Every step keeps the types and what goroutines have in hand.
LEMMA TypeStep == TypeOK /\ Control /\ [Next]_vars => TypeOK' /\ Control'
<1> SUFFICES ASSUME TypeOK, Control, [Next]_vars
             PROVE  TypeOK' /\ Control'
  OBVIOUS
<1> USE MaxPutsAssumption DEF At, stores
<1>1. ASSUME NEW p \in Procs, Begin(p) PROVE TypeOK' /\ Control'
  <2>1. PICK op \in Ops, k \in Keys, custom \in BOOLEAN :
            /\ op = "put" => puts < MaxPuts
            /\ puts' = IF op = "put" THEN puts + 1 ELSE puts
            /\ req' = [req EXCEPT ![p] =
                   [Idle EXCEPT !.pc = FirstPC(op), !.op = op, !.key = k,
                                !.custom = custom,
                                !.body = IF op = "put" THEN puts + 1 ELSE Absent]]
    BY <1>1 DEF Begin
  <2> DEFINE b == IF op = "put" THEN puts + 1 ELSE Absent
             r == [Idle EXCEPT !.pc = FirstPC(op), !.op = op, !.key = k,
                               !.custom = custom, !.body = b]
  <2>2. /\ b \in Bodies \cup {Absent}
        /\ op = "put" => b \in Bodies
        /\ puts' \in 0..MaxPuts
    BY <2>1 DEF TypeOK
  <2>3. /\ op \in AllOps
        /\ FirstPC(op) \in {"stage", "dstat", "lookup", "stat"}
        /\ op = "put" <=> FirstPC(op) = "stage"
    BY OpsAssumption DEF FirstPC, AllOps
  <2>4. FirstPC(op) \in PCs
    BY <2>3 DEF PCs, PutPCs, ReadPCs, DeletePCs
  <2> HIDE DEF b
  <2>5. r \in Request
    BY <2>2, <2>3, <2>4, IdleType DEF Request
  <2>6. /\ r.op = op /\ r.body = b
        /\ r.pc \in {"stage", "dstat", "lookup", "stat"}
        /\ r.op = "put" <=> r.pc = "stage"
    BY <2>3, IdleType DEF Request
  <2>7. Controlled(r)
    BY <2>2, <2>6 DEF Controlled, PutPCs, ReadPCs, SavePCs
  <2>8. req' = [req EXCEPT ![p] = r]
    BY <2>1 DEF b
  <2>9. req' \in [Procs -> Request] /\ Control'
    BY <2>5, <2>7, <2>8, UpdateOK
  <2> QED
    BY <1>1, <2>2, <2>9 DEF Begin, TypeOK
<1>2. ASSUME NEW p \in Procs, Reply(p) PROVE TypeOK' /\ Control'
  <2>1. Controlled(Idle)
    BY DEF Idle, Controlled, PutPCs, ReadPCs, SavePCs
  <2>2. req' \in [Procs -> Request] /\ Control'
    BY <1>2, <2>1, IdleType, UpdateOK DEF Reply
  <2> QED
    BY <1>2, <2>2 DEF Reply, TypeOK
<1>3. ASSUME NEW p \in Procs, Cancel(p) PROVE TypeOK' /\ Control'
  <2>1. req[p] \in Request /\ Controlled(req[p])
    BY DEF TypeOK, Control
  <2> DEFINE r == [req[p] EXCEPT !.cancelled = TRUE]
  <2>2. r \in Request
    BY <2>1 DEF Request
  <2>3. Controlled(r)
    BY <2>1 DEF Request, Controlled
  <2>4. req' = [req EXCEPT ![p] = r]
    BY <1>3 DEF Cancel
  <2>5. req' \in [Procs -> Request] /\ Control'
    BY <2>2, <2>3, <2>4, UpdateOK
  <2> QED
    BY <1>3, <2>5 DEF Cancel, TypeOK
<1>4. ASSUME NEW p \in Procs, PutCopy(p) PROVE TypeOK' /\ Control'
  <2>1. req[p] \in Request /\ Controlled(req[p])
    BY DEF TypeOK, Control
  <2>2. req' \in [Procs -> Request] /\ Control'
    BY <1>4, <2>1, FinishOK, GotoOK DEF PutCopy, Controlled, PCs, PutPCs, ReadPCs, SavePCs, Outcomes, DeletePCs, Request
  <2> QED
    BY <1>4, <2>1, <2>2 DEF PutCopy, TypeOK, Request, Controlled, PutPCs
<1>5. ASSUME NEW p \in Procs, PutLock(p) PROVE TypeOK' /\ Control'
  <2>1. req[p] \in Request /\ Controlled(req[p])
    BY DEF TypeOK, Control
  <2>2. req' \in [Procs -> Request] /\ Control'
    BY <1>5, <2>1, FinishOK, GotoOK DEF PutLock, Controlled, PCs, PutPCs, ReadPCs, SavePCs, Outcomes, DeletePCs, Request
  <2> QED
    BY <1>5, <2>1, <2>2 DEF PutLock, TypeOK, Request, Controlled, PutPCs
<1>6. ASSUME NEW p \in Procs, SaveWrite(p) PROVE TypeOK' /\ Control'
  <2>1. req[p] \in Request /\ Controlled(req[p])
    BY DEF TypeOK, Control
  <2>2. req' \in [Procs -> Request] /\ Control'
    BY <1>6, <2>1, FinishOK, GotoOK DEF SaveWrite, Controlled, PCs, PutPCs, ReadPCs, SavePCs, Outcomes, DeletePCs, Request
  <2> QED
    BY <1>6, <2>1, <2>2 DEF SaveWrite, TypeOK, Request, Controlled, PutPCs, SavePCs
<1>7. ASSUME NEW p \in Procs, PutStage(p) PROVE TypeOK' /\ Control'
  <2>1. req[p] \in Request /\ Controlled(req[p])
    BY DEF TypeOK, Control
  <2>2. req' \in [Procs -> Request] /\ Control'
    BY <1>7, <2>1, FinishOK, GotoOK DEF PutStage, Controlled, PCs, PutPCs, ReadPCs, SavePCs, Outcomes, DeletePCs, Request
  <2> QED
    BY <1>7, <2>1, <2>2 DEF PutStage, TypeOK, Request, Controlled, PutPCs
<1>8. ASSUME NEW p \in Procs, PutFinalize(p) PROVE TypeOK' /\ Control'
  <2>1. req[p] \in Request /\ Controlled(req[p])
    BY DEF TypeOK, Control
  <2>2. req' \in [Procs -> Request] /\ Control'
    BY <1>8, <2>1, FinishOK, GotoOK DEF PutFinalize, Controlled, PCs, PutPCs, ReadPCs, SavePCs, Outcomes, DeletePCs, Request
  <2> QED
    BY <1>8, <2>1, <2>2 DEF PutFinalize, TypeOK, Request, Controlled, PutPCs
<1>9. ASSUME NEW p \in Procs, DeleteStat(p) PROVE TypeOK' /\ Control'
  <2>1. req[p] \in Request /\ Controlled(req[p])
    BY DEF TypeOK, Control
  <2>2. req' \in [Procs -> Request] /\ Control'
    BY <1>9, <2>1, FinishOK, GotoOK DEF DeleteStat, Controlled, PCs, PutPCs, ReadPCs, SavePCs, Outcomes, DeletePCs, Request
  <2> QED
    BY <1>9, <2>1, <2>2 DEF DeleteStat, TypeOK, Request, Controlled, PutPCs
<1>10. ASSUME NEW p \in Procs, DeleteRemove(p) PROVE TypeOK' /\ Control'
  <2>1. req[p] \in Request /\ Controlled(req[p])
    BY DEF TypeOK, Control
  <2>2. req' \in [Procs -> Request] /\ Control'
    BY <1>10, <2>1, FinishOK, GotoOK DEF DeleteRemove, Controlled, PCs, PutPCs, ReadPCs, SavePCs, Outcomes, DeletePCs, Request
  <2> QED
    BY <1>10, <2>1, <2>2 DEF DeleteRemove, TypeOK, Request, Controlled, PutPCs
<1>11. ASSUME NEW p \in Procs, DeleteMeta(p) PROVE TypeOK' /\ Control'
  <2>1. req[p] \in Request /\ Controlled(req[p])
    BY DEF TypeOK, Control
  <2>2. req' \in [Procs -> Request] /\ Control'
    BY <1>11, <2>1, FinishOK, GotoOK DEF DeleteMeta, Controlled, PCs, PutPCs, ReadPCs, SavePCs, Outcomes, DeletePCs, Request
  <2> QED
    BY <1>11, <2>1, <2>2 DEF DeleteMeta, TypeOK, Request, Controlled, PutPCs
<1>12. ASSUME NEW p \in Procs, SaveTruncate(p) PROVE TypeOK' /\ Control'
  <2>1. req[p] \in Request /\ Controlled(req[p])
    BY DEF TypeOK, Control
  <2>2. req' \in [Procs -> Request] /\ Control'
    BY <1>12, <2>1, FinishOK, GotoOK DEF SaveTruncate, SaveFailed, Controlled, PCs, PutPCs, ReadPCs, SavePCs, Outcomes, Request
  <2> QED
    BY <1>12, <2>1, <2>2 DEF SaveTruncate, TypeOK, Request
<1>13. ASSUME NEW p \in Procs, SaveFail(p) PROVE TypeOK' /\ Control'
  <2>1. req[p] \in Request /\ Controlled(req[p])
    BY DEF TypeOK, Control
  <2>2. req' \in [Procs -> Request] /\ Control'
    BY <1>13, <2>1, FinishOK, GotoOK DEF SaveFail, SaveFailed, Controlled, PCs, PutPCs, ReadPCs, SavePCs, Outcomes, Request
  <2> QED
    BY <1>13, <2>1, <2>2 DEF SaveFail, TypeOK, Request
<1>14. ASSUME NEW p \in Procs, PutCopyFail(p) PROVE TypeOK' /\ Control'
  <2>1. req[p] \in Request /\ Controlled(req[p])
    BY DEF TypeOK, Control
  <2>2. req' \in [Procs -> Request] /\ Control'
    BY <1>14, <2>1, FinishOK DEF PutCopyFail, Outcomes
  <2> QED
    BY <1>14, <2>1, <2>2 DEF PutCopyFail, TypeOK, Request
<1>15. ASSUME NEW p \in Procs, PutRenameFail(p) PROVE TypeOK' /\ Control'
  <2>1. req[p] \in Request /\ Controlled(req[p])
    BY DEF TypeOK, Control
  <2>2. req' \in [Procs -> Request] /\ Control'
    BY <1>15, <2>1, FinishOK DEF PutRenameFail, Outcomes
  <2> QED
    BY <1>15, <2>1, <2>2 DEF PutRenameFail, TypeOK, Request, Unlock
<1>16. ASSUME NEW p \in Procs, DeleteCache(p) PROVE TypeOK' /\ Control'
  <2>1. req[p] \in Request /\ Controlled(req[p])
    BY DEF TypeOK, Control
  <2>2. req' \in [Procs -> Request] /\ Control'
    BY <1>16, <2>1, FinishOK DEF DeleteCache, Outcomes
  <2> QED
    BY <1>16, <2>1, <2>2 DEF DeleteCache, TypeOK, Request
<1>17. ASSUME NEW p \in Procs, SavePublish(p) PROVE TypeOK' /\ Control'
  <2>1. req[p] \in Request /\ Controlled(req[p])
    BY DEF TypeOK, Control
  <2>2. req' \in [Procs -> Request] /\ Control'
    BY <1>17, <2>1, FinishOK DEF SavePublish, Outcomes
  <2> QED
    BY <1>17, <2>1, <2>2 DEF SavePublish, TypeOK, Request, Unlock
<1>18. ASSUME NEW p \in Procs, PutUndo(p) PROVE TypeOK' /\ Control'
  <2>1. req[p] \in Request /\ Controlled(req[p])
    BY DEF TypeOK, Control
  <2>2. req' \in [Procs -> Request] /\ Control'
    BY <1>18, <2>1, FinishOK DEF PutUndo, Outcomes
  <2> QED
    BY <1>18, <2>1, <2>2 DEF PutUndo, TypeOK, Request, Unlock
<1>19. ASSUME NEW p \in Procs, PutRename(p) PROVE TypeOK' /\ Control'
  <2>1. req[p] \in Request /\ Controlled(req[p])
    BY DEF TypeOK, Control
  <2> DEFINE m == [etag |-> req[p].body, tags |-> FALSE]
             r == [req[p] EXCEPT !.pc = "truncate", !.meta = m]
  <2>2. req[p].body \in Bodies /\ req[p].op = "put"
    BY <1>19, <2>1 DEF PutRename, Controlled, PutPCs
  <2>3. m \in Meta
    BY <2>2 DEF Meta
  <2> HIDE DEF m
  <2>4. r \in Request
    BY <2>1, <2>3 DEF Request, PCs, SavePCs
  <2>5. Controlled(r)
    BY <2>1, <2>2, <2>3 DEF Request, Controlled, PutPCs, ReadPCs, SavePCs
  <2>6. req' = [req EXCEPT ![p] = r]
    BY <1>19 DEF PutRename, m
  <2>7. req' \in [Procs -> Request] /\ Control'
    BY <2>4, <2>5, <2>6, UpdateOK
  <2> QED
    BY <1>19, <2>1, <2>2, <2>7 DEF PutRename, TypeOK, Request
<1>20. ASSUME NEW p \in Procs, ReadStat(p) PROVE TypeOK' /\ Control'
  <2>1. req[p] \in Request /\ Controlled(req[p])
    BY DEF TypeOK, Control
  <2>2. req[p].op # "put"
    BY <1>20, <2>1 DEF ReadStat, Controlled, ReadPCs
  <2>3. req' \in [Procs -> Request] /\ Control'
    <3>3. CASE Finish(p, "error") \/ Finish(p, "notfound")
      BY <3>3, FinishOK DEF Outcomes
    <3>4. CASE req' = [req EXCEPT
                  ![p].size = file[req[p].key],
                  ![p].pc = IF req[p].op = "get" THEN "open" ELSE "lookup"]
      <4> DEFINE r == [req[p] EXCEPT !.size = file[req[p].key],
                           !.pc = IF req[p].op = "get" THEN "open" ELSE "lookup"]
      <4>1. r \in Request
        BY <2>1 DEF Request, PCs, ReadPCs, TypeOK
      <4>2. Controlled(r)
        BY <2>1, <2>2 DEF Request, Controlled, PutPCs, SavePCs
      <4> QED
        BY <3>4, <4>1, <4>2, UpdateOK
    <3> QED
      BY <1>20, <3>3, <3>4 DEF ReadStat
  <2> QED
    BY <1>20, <2>3 DEF ReadStat, TypeOK
<1>21. ASSUME NEW p \in Procs, ReadOpen(p) PROVE TypeOK' /\ Control'
  <2>1. req[p] \in Request /\ Controlled(req[p])
    BY DEF TypeOK, Control
  <2>2. req[p].op # "put"
    BY <1>21, <2>1 DEF ReadOpen, Controlled, ReadPCs
  <2>3. req' \in [Procs -> Request] /\ Control'
    <3>3. CASE Finish(p, "error")
      BY <3>3, FinishOK DEF Outcomes
    <3>4. CASE req' = [req EXCEPT ![p].open = file[req[p].key], ![p].pc = "lookup"]
      <4> DEFINE r == [req[p] EXCEPT !.open = file[req[p].key], !.pc = "lookup"]
      <4>1. r \in Request
        BY <2>1 DEF Request, PCs, ReadPCs, TypeOK
      <4>2. Controlled(r)
        BY <2>1, <2>2 DEF Request, Controlled, PutPCs, SavePCs
      <4> QED
        BY <3>4, <4>1, <4>2, UpdateOK
    <3> QED
      BY <1>21, <3>3, <3>4 DEF ReadOpen
  <2> QED
    BY <1>21, <2>3 DEF ReadOpen, TypeOK
<1>22. ASSUME NEW p \in Procs, ReadLookup(p) PROVE TypeOK' /\ Control'
  <2>1. req[p] \in Request /\ Controlled(req[p])
    BY DEF TypeOK, Control
  <2>2. req[p].op # "put" /\ cache[req[p].key] \in Meta \cup {NoMeta}
    BY <1>22, <2>1 DEF ReadLookup, Controlled, ReadPCs, TypeOK, Request
  <2>3. req' \in [Procs -> Request] /\ Control'
    <3>3. CASE MetaFailed(p, FALSE)
      BY <2>2, <3>3, MetaFailedOK
    <3>4. CASE cache[req[p].key] # NoMeta /\ GotMeta(p, cache[req[p].key])
      BY <2>2, <3>4, GotMetaOK
    <3>5. CASE Goto(p, "read")
      BY <2>1, <2>2, <3>5, GotoOK
         DEF Controlled, PCs, PutPCs, ReadPCs, SavePCs, Request
    <3> QED
      BY <1>22, <3>3, <3>4, <3>5 DEF ReadLookup
  <2> QED
    BY <1>22, <2>3 DEF ReadLookup, TypeOK
<1>23. ASSUME NEW p \in Procs, ReadDisk(p) PROVE TypeOK' /\ Control'
  <2>1. req[p] \in Request /\ Controlled(req[p])
    BY DEF TypeOK, Control
  <2>2. req[p].op # "put"
    BY <1>23, <2>1 DEF ReadDisk, Controlled, ReadPCs
  <2>3. req' \in [Procs -> Request] /\ Control'
    <3>3. CASE MetaFailed(p, disk[req[p].key] = NoMeta)
      BY <2>2, <3>3, MetaFailedOK
    <3>4. CASE /\ disk[req[p].key] \in Meta
               /\ req' = [req EXCEPT ![p].meta = disk[req[p].key], ![p].pc = "fill"]
      <4> DEFINE r == [req[p] EXCEPT !.meta = disk[req[p].key], !.pc = "fill"]
      <4>1. r \in Request
        BY <2>1, <3>4 DEF Request, PCs, ReadPCs, TypeOK
      <4>2. Controlled(r)
        BY <2>1, <2>2, <3>4 DEF Request, Controlled, PutPCs, SavePCs
      <4> QED
        BY <3>4, <4>1, <4>2, UpdateOK
    <3> QED
      BY <1>23, <3>3, <3>4 DEF ReadDisk
  <2> QED
    BY <1>23, <2>3 DEF ReadDisk, TypeOK
<1>24. ASSUME NEW p \in Procs, ReadFill(p) PROVE TypeOK' /\ Control'
  <2>1. req[p] \in Request /\ Controlled(req[p])
    BY DEF TypeOK, Control
  <2>2. req[p].op # "put" /\ req[p].meta \in Meta
    BY <1>24, <2>1 DEF ReadFill, Controlled, ReadPCs
  <2>3. req' \in [Procs -> Request] /\ Control'
    BY <1>24, <2>2, GotMetaOK DEF ReadFill
  <2> QED
    BY <1>24, <2>1, <2>2, <2>3 DEF ReadFill, TypeOK, Request
<1>25. ASSUME NEW p \in Procs, ReadCompute(p) PROVE TypeOK' /\ Control'
  <2>1. req[p] \in Request /\ Controlled(req[p])
    BY DEF TypeOK, Control
  <2>2. req[p].op # "put" /\ ~(req[p].op = "tag" /\ req[p].checked)
    BY <1>25, <2>1 DEF ReadCompute, Controlled, ReadPCs
  <2>3. [etag |-> file[req[p].key], tags |-> FALSE] \in Meta \cup {NoMeta}
    BY <2>1 DEF TypeOK, Request, Meta, NoMeta
  <2>4. req' \in [Procs -> Request] /\ Control'
    BY <1>25, <2>2, <2>3, GotMetaOK DEF ReadCompute
  <2> QED
    BY <1>25, <2>4 DEF ReadCompute, TypeOK
<1>26. ASSUME NEW p \in Procs, TagMutate(p) PROVE TypeOK' /\ Control'
  <2>1. req[p] \in Request /\ Controlled(req[p])
    BY DEF TypeOK, Control
  <2> DEFINE m == [req[p].meta EXCEPT !.tags = TRUE]
             r == [req[p] EXCEPT !.meta = m, !.pc = "truncate"]
  <2>3. m \in Meta
    BY <1>26, <2>1 DEF TagMutate, Controlled, SavePCs, Meta
  <2> HIDE DEF m
  <2>4. r \in Request
    BY <2>1, <2>3 DEF Request, PCs, SavePCs
  <2>5. Controlled(r)
    BY <2>1, <2>3 DEF Request, Controlled, PutPCs, ReadPCs, SavePCs
  <2>6. req' = [req EXCEPT ![p] = r]
    BY <1>26 DEF TagMutate, m
  <2>7. req' \in [Procs -> Request] /\ Control'
    BY <2>4, <2>5, <2>6, UpdateOK
  <2>8. cache' \in [Keys -> Meta \cup {NoMeta}]
    BY <1>26, <2>1, <2>3 DEF TagMutate, TypeOK, Request, m
  <2> QED
    BY <1>26, <2>7, <2>8 DEF TagMutate, TypeOK
<1>27. ASSUME NEW k \in Keys, Evict(k) PROVE TypeOK' /\ Control'
  BY <1>27 DEF Evict, TypeOK, Control
<1>28. CASE Crash
  <2>1. Controlled(Idle)
    BY DEF Idle, Controlled, PutPCs, ReadPCs, SavePCs
  <2> QED
    BY <1>28, <2>1, IdleType DEF Crash, TypeOK, Control
<1>29. CASE Start
  BY <1>29 DEF Start, TypeOK, Control
<1>30. CASE UNCHANGED vars
  BY <1>30 DEF vars, TypeOK, Control
<1> QED
  BY <1>1, <1>2, <1>3, <1>4, <1>5, <1>6, <1>7, <1>8, <1>9, <1>10, <1>11, <1>12, <1>13, <1>14, <1>15, <1>16, <1>17, <1>18, <1>19, <1>20, <1>21, <1>22, <1>23, <1>24, <1>25, <1>26, <1>27, <1>28, <1>29, <1>30
     DEF Next, PutStep, SaveStep, ReadStep, DeleteStep

\* The initial state is well typed.
LEMMA TypeInit == Init => TypeOK /\ Control
<1> SUFFICES ASSUME Init PROVE TypeOK /\ Control
  OBVIOUS
<1>1. Controlled(Idle)
  BY DEF Idle, Controlled, PutPCs, ReadPCs, SavePCs
<1> QED
  BY <1>1, IdleType, MaxPutsAssumption DEF Init, TypeOK, Control

\* Every reachable state is well typed: no interleaving, cancellation, write
\* failure or crash makes the JSON file, the cache or a request hold anything
\* else than an upload's metadata, a torn file being told from a good one.
THEOREM TypeCorrect == Spec => []TypeOK
  BY TypeInit, TypeStep, PTL DEF Spec

-----------------------------------------------------------------------------
(* The key mutex *)

\* Every step keeps the key mutex with the PUT that is committing.
LEMMA LockStep ==
    TypeOK /\ Control /\ CommitExclusive /\ [Next]_vars => CommitExclusive'
<1> SUFFICES ASSUME TypeOK, Control, CommitExclusive, [Next]_vars
             PROVE  CommitExclusive'
  OBVIOUS
<1> USE FreeAssumption DEF CommitExclusive, InCommit, At, stores
<1>0. \A p \in Procs : req[p] \in Request /\ Controlled(req[p])
  BY DEF TypeOK, Control
<1>1. ASSUME NEW p \in Procs, Begin(p) PROVE CommitExclusive'
  BY <1>0, <1>1 DEF Begin, FirstPC, Idle, AllOps, TypeOK, Request, Controlled, PutPCs, ReadPCs, SavePCs
<1>2. ASSUME NEW p \in Procs, Reply(p) PROVE CommitExclusive'
  BY <1>0, <1>2 DEF Reply, Idle, TypeOK, Request, Controlled, PutPCs, ReadPCs, SavePCs
<1>3. ASSUME NEW p \in Procs, Cancel(p) PROVE CommitExclusive'
  BY <1>0, <1>3 DEF Cancel, TypeOK, Request, Controlled, PutPCs, ReadPCs, SavePCs
<1>4. ASSUME NEW p \in Procs, PutStage(p) PROVE CommitExclusive'
  BY <1>0, <1>4 DEF PutStage, Goto, Finish, TypeOK, Request, Controlled, PutPCs, ReadPCs, SavePCs
<1>5. ASSUME NEW p \in Procs, PutCopy(p) PROVE CommitExclusive'
  BY <1>0, <1>5 DEF PutCopy, Goto, TypeOK, Request, Controlled, PutPCs, ReadPCs, SavePCs
<1>6. ASSUME NEW p \in Procs, PutCopyFail(p) PROVE CommitExclusive'
  BY <1>0, <1>6 DEF PutCopyFail, Finish, TypeOK, Request, Controlled, PutPCs, ReadPCs, SavePCs
<1>7. ASSUME NEW p \in Procs, PutFinalize(p) PROVE CommitExclusive'
  BY <1>0, <1>7 DEF PutFinalize, Goto, Finish, TypeOK, Request, Controlled, PutPCs, ReadPCs, SavePCs
<1>8. ASSUME NEW p \in Procs, PutLock(p) PROVE CommitExclusive'
  BY <1>0, <1>8 DEF PutLock, Goto, TypeOK, Request, Controlled, PutPCs, ReadPCs, SavePCs
<1>9. ASSUME NEW p \in Procs, PutRename(p) PROVE CommitExclusive'
  BY <1>0, <1>9 DEF PutRename, TypeOK, Request, Controlled, PutPCs, ReadPCs, SavePCs
<1>10. ASSUME NEW p \in Procs, PutRenameFail(p) PROVE CommitExclusive'
  BY <1>0, <1>10 DEF PutRenameFail, Finish, Unlock, TypeOK, Request, Controlled, PutPCs, ReadPCs, SavePCs
<1>11. ASSUME NEW p \in Procs, PutUndo(p) PROVE CommitExclusive'
  BY <1>0, <1>11 DEF PutUndo, Finish, Unlock, TypeOK, Request, Controlled, PutPCs, ReadPCs, SavePCs
<1>12. ASSUME NEW p \in Procs, SaveTruncate(p) PROVE CommitExclusive'
  BY <1>0, <1>12 DEF SaveTruncate, SaveFailed, Goto, Finish, TypeOK, Request, Controlled, PutPCs, ReadPCs, SavePCs
<1>13. ASSUME NEW p \in Procs, SaveWrite(p) PROVE CommitExclusive'
  BY <1>0, <1>13 DEF SaveWrite, Goto, TypeOK, Request, Controlled, PutPCs, ReadPCs, SavePCs
<1>14. ASSUME NEW p \in Procs, SaveFail(p) PROVE CommitExclusive'
  BY <1>0, <1>14 DEF SaveFail, SaveFailed, Goto, Finish, TypeOK, Request, Controlled, PutPCs, ReadPCs, SavePCs
<1>15. ASSUME NEW p \in Procs, SavePublish(p) PROVE CommitExclusive'
  BY <1>0, <1>15 DEF SavePublish, Finish, Unlock, TypeOK, Request, Controlled, PutPCs, ReadPCs, SavePCs
<1>16. ASSUME NEW p \in Procs, ReadStat(p) PROVE CommitExclusive'
  BY <1>0, <1>16 DEF ReadStat, Finish, TypeOK, Request, Controlled, PutPCs, ReadPCs, SavePCs
<1>17. ASSUME NEW p \in Procs, ReadOpen(p) PROVE CommitExclusive'
  BY <1>0, <1>17 DEF ReadOpen, Finish, TypeOK, Request, Controlled, PutPCs, ReadPCs, SavePCs
<1>18. ASSUME NEW p \in Procs, ReadLookup(p) PROVE CommitExclusive'
  BY <1>0, <1>18 DEF ReadLookup, Goto, Finish, GotMeta, MetaFailed, TypeOK, Request, Controlled, PutPCs, ReadPCs, SavePCs
<1>19. ASSUME NEW p \in Procs, ReadDisk(p) PROVE CommitExclusive'
  BY <1>0, <1>19 DEF ReadDisk, Goto, Finish, MetaFailed, TypeOK, Request, Controlled, PutPCs, ReadPCs, SavePCs
<1>20. ASSUME NEW p \in Procs, ReadFill(p) PROVE CommitExclusive'
  BY <1>0, <1>20 DEF ReadFill, GotMeta, TypeOK, Request, Controlled, PutPCs, ReadPCs, SavePCs
<1>21. ASSUME NEW p \in Procs, ReadCompute(p) PROVE CommitExclusive'
  BY <1>0, <1>21 DEF ReadCompute, GotMeta, TypeOK, Request, Controlled, PutPCs, ReadPCs, SavePCs
<1>22. ASSUME NEW p \in Procs, DeleteStat(p) PROVE CommitExclusive'
  BY <1>0, <1>22 DEF DeleteStat, Goto, Finish, TypeOK, Request, Controlled, PutPCs, ReadPCs, SavePCs
<1>23. ASSUME NEW p \in Procs, DeleteRemove(p) PROVE CommitExclusive'
  BY <1>0, <1>23 DEF DeleteRemove, Goto, Finish, TypeOK, Request, Controlled, PutPCs, ReadPCs, SavePCs
<1>24. ASSUME NEW p \in Procs, DeleteMeta(p) PROVE CommitExclusive'
  BY <1>0, <1>24 DEF DeleteMeta, Goto, Finish, TypeOK, Request, Controlled, PutPCs, ReadPCs, SavePCs
<1>25. ASSUME NEW p \in Procs, DeleteCache(p) PROVE CommitExclusive'
  BY <1>0, <1>25 DEF DeleteCache, Goto, Finish, TypeOK, Request, Controlled, PutPCs, ReadPCs, SavePCs
<1>26. ASSUME NEW p \in Procs, TagMutate(p) PROVE CommitExclusive'
  BY <1>0, <1>26 DEF TagMutate, TypeOK, Request, Controlled, PutPCs, ReadPCs, SavePCs
<1>27. ASSUME NEW k \in Keys, Evict(k) PROVE CommitExclusive'
  BY <1>27 DEF Evict
<1>28. CASE Crash
  BY <1>28 DEF Crash, Idle
<1>29. CASE Start
  BY <1>29 DEF Start
<1>30. CASE UNCHANGED vars
  BY <1>30 DEF vars
<1> QED
  BY <1>1, <1>2, <1>3, <1>4, <1>5, <1>6, <1>7, <1>8, <1>9, <1>10, <1>11, <1>12, <1>13, <1>14, <1>15, <1>16, <1>17, <1>18, <1>19, <1>20, <1>21, <1>22, <1>23, <1>24, <1>25, <1>26, <1>27, <1>28, <1>29, <1>30
     DEF Next, PutStep, SaveStep, ReadStep, DeleteStep

\* The key mutex is held exactly by the PUT that is committing under it: every
\* return path of PutObject unlocks, and a crash leaves no mutex locked.
THEOREM MutexHeldByCommit == Spec => []CommitExclusive
<1>1. Init => CommitExclusive
  BY FreeAssumption DEF Init, CommitExclusive, InCommit, Idle
<1> QED
  BY <1>1, TypeInit, TypeStep, LockStep, PTL DEF Spec

-----------------------------------------------------------------------------
(* Whole bodies *)

\* Program points of a PUT before its commit.
Uncommitted == {"stage", "copy", "finalize", "lock", "rename"}

\* What most steps of a request do to the data path: nothing, or they remove
\* an object, drop a temp file, or open the file of their key.
Quiet ==
    /\ UNCHANGED <<whole, committed, puts>>
    /\ staged' \subseteq staged
    /\ \A k \in Keys : file'[k] \in {file[k], Absent}
    /\ \A p \in Procs :
         /\ req'[p].op = req[p].op
         /\ req'[p].key = req[p].key
         /\ req'[p].body = req[p].body
         /\ req'[p].open \in {req[p].open, file[req[p].key]}
         /\ req'[p].pc \in Uncommitted => req[p].pc \in Uncommitted
         /\ req'[p].pc \in {"finalize", "lock", "rename"}
              => req[p].pc \in {"finalize", "lock", "rename"}

\* A quiet step keeps uploads apart and the data paths whole.
LEMMA QuietStep ==
    ASSUME TypeOK, Fresh, WholeBodies, Quiet
    PROVE  Fresh' /\ WholeBodies'
<1>1. Fresh'
  BY DEF Fresh, Quiet, Uncommitted
<1>2. ASSUME NEW k \in Keys
      PROVE  /\ committed'[k] \subseteq whole' \ staged'
             /\ file'[k] # Absent => file'[k] \in committed'[k]
             /\ \A j \in Keys \ {k} : committed'[j] \cap committed'[k] = {}
  BY <1>2 DEF WholeBodies, Quiet
<1>3. ASSUME NEW p \in Procs, req'[p].open # Absent
      PROVE  req'[p].open \in committed'[req'[p].key]
  <2>1. req[p].key \in Keys
    BY DEF TypeOK, Request
  <2> QED
    BY <1>3, <2>1 DEF WholeBodies, Quiet
<1> QED
  BY <1>1, <1>2, <1>3 DEF WholeBodies

\* The steps of requests that are quiet.
LEMMA QuietSteps ==
    ASSUME TypeOK, Control, NEW p \in Procs,
           \/ Cancel(p) \/ PutCopyFail(p) \/ PutFinalize(p) \/ PutLock(p)
           \/ PutRenameFail(p) \/ PutUndo(p) \/ SaveStep(p) \/ ReadStep(p)
           \/ DeleteStep(p) \/ TagMutate(p)
    PROVE  Quiet
<1> USE DEF Quiet, Uncommitted, At, stores
<1>0. \A q \in Procs : req[q] \in Request
  BY DEF TypeOK
<1>1. CASE Cancel(p)
  BY <1>0, <1>1 DEF Cancel, TypeOK, Request
<1>2. CASE PutCopyFail(p)
  BY <1>0, <1>2 DEF PutCopyFail, Finish, TypeOK, Request
<1>3. CASE PutFinalize(p)
  BY <1>0, <1>3 DEF PutFinalize, Goto, Finish, TypeOK, Request
<1>4. CASE PutLock(p)
  BY <1>0, <1>4 DEF PutLock, Goto, TypeOK, Request
<1>5. CASE PutRenameFail(p)
  BY <1>0, <1>5 DEF PutRenameFail, Finish, TypeOK, Request
<1>6. CASE PutUndo(p)
  BY <1>0, <1>6 DEF PutUndo, Finish, TypeOK, Request
<1>7. CASE SaveTruncate(p)
  BY <1>0, <1>7 DEF SaveTruncate, SaveFailed, Goto, Finish, TypeOK, Request
<1>8. CASE SaveWrite(p)
  BY <1>0, <1>8 DEF SaveWrite, Goto, TypeOK, Request
<1>9. CASE SaveFail(p)
  BY <1>0, <1>9 DEF SaveFail, SaveFailed, Goto, Finish, TypeOK, Request
<1>10. CASE SavePublish(p)
  BY <1>0, <1>10 DEF SavePublish, Finish, TypeOK, Request
<1>11. CASE ReadStat(p)
  BY <1>0, <1>11 DEF ReadStat, Finish, TypeOK, Request
<1>12. CASE ReadOpen(p)
  BY <1>0, <1>12 DEF ReadOpen, Finish, TypeOK, Request
<1>13. CASE ReadLookup(p)
  BY <1>0, <1>13 DEF ReadLookup, Goto, Finish, GotMeta, MetaFailed, TypeOK, Request
<1>14. CASE ReadDisk(p)
  BY <1>0, <1>14 DEF ReadDisk, Goto, Finish, MetaFailed, TypeOK, Request
<1>15. CASE ReadFill(p)
  BY <1>0, <1>15 DEF ReadFill, GotMeta, TypeOK, Request
<1>16. CASE ReadCompute(p)
  BY <1>0, <1>16 DEF ReadCompute, GotMeta, TypeOK, Request
<1>17. CASE DeleteStat(p)
  BY <1>0, <1>17 DEF DeleteStat, Goto, Finish, TypeOK, Request
<1>18. CASE DeleteRemove(p)
  <2>1. \A k \in Keys : file'[k] \in {file[k], Absent}
    BY <1>0, <1>18 DEF DeleteRemove, TypeOK, Request
  <2>2. \A q \in Procs :
          /\ req'[q].op = req[q].op /\ req'[q].key = req[q].key
          /\ req'[q].body = req[q].body /\ req'[q].open = req[q].open
          /\ req'[q].pc = req[q].pc \/ req'[q].pc \in {"done", "dmeta"}
    BY <1>0, <1>18 DEF DeleteRemove, Goto, Finish, TypeOK, Request
  <2> QED
    BY <1>18, <2>1, <2>2 DEF DeleteRemove
<1>19. CASE DeleteMeta(p)
  BY <1>0, <1>19 DEF DeleteMeta, Goto, Finish, TypeOK, Request
<1>20. CASE DeleteCache(p)
  BY <1>0, <1>20 DEF DeleteCache, Goto, Finish, TypeOK, Request
<1>21. CASE TagMutate(p)
  BY <1>0, <1>21 DEF TagMutate, TypeOK, Request
<1> QED
  BY <1>1, <1>2, <1>3, <1>4, <1>5, <1>6, <1>7, <1>8, <1>9, <1>10, <1>11, <1>12, <1>13, <1>14, <1>15, <1>16, <1>17, <1>18, <1>19, <1>20, <1>21
     DEF SaveStep, ReadStep, DeleteStep

\* Every step keeps uploads apart and the data paths whole.
LEMMA WholeStep ==
    TypeOK /\ Control /\ Fresh /\ WholeBodies /\ [Next]_vars => Fresh' /\ WholeBodies'
<1> SUFFICES ASSUME TypeOK, Control, Fresh, WholeBodies, [Next]_vars
             PROVE  Fresh' /\ WholeBodies'
  OBVIOUS
<1> USE MaxPutsAssumption DEF Fresh, WholeBodies, At, stores
<1>0. \A p \in Procs : req[p] \in Request /\ Controlled(req[p])
  BY DEF TypeOK, Control
<1>1. ASSUME NEW p \in Procs, Begin(p) PROVE Fresh' /\ WholeBodies'
  BY <1>0, <1>1 DEF Begin, FirstPC, Idle, AllOps, TypeOK, Request, Controlled, PutPCs
<1>2. ASSUME NEW p \in Procs, Reply(p) PROVE Fresh' /\ WholeBodies'
  BY <1>0, <1>2 DEF Reply, Idle, TypeOK, Request, Controlled, PutPCs
<1>3. ASSUME NEW p \in Procs, PutStage(p) PROVE Fresh' /\ WholeBodies'
  <2>1. CASE Finish(p, "error") /\ UNCHANGED staged
    <3>1. Quiet
      BY <1>0, <1>3, <2>1 DEF PutStage, Quiet, Uncommitted, Finish, TypeOK, Request
    <3> QED
      BY <3>1, QuietStep
  <2>2. CASE Goto(p, "copy") /\ staged' = staged \cup {req[p].body}
    BY <1>0, <1>3, <2>2 DEF PutStage, Goto, TypeOK, Request
  <2> QED
    BY <1>3, <2>1, <2>2 DEF PutStage
<1>4. ASSUME NEW p \in Procs, PutCopy(p) PROVE Fresh' /\ WholeBodies'
  BY <1>0, <1>4 DEF PutCopy, Goto, TypeOK, Request, Controlled, PutPCs
<1>5. ASSUME NEW p \in Procs, PutRename(p) PROVE Fresh' /\ WholeBodies'
  BY <1>0, <1>5 DEF PutRename, TypeOK, Request, Controlled, PutPCs
<1>6. ASSUME NEW k \in Keys, Evict(k) PROVE Fresh' /\ WholeBodies'
  BY <1>6 DEF Evict
<1>7. CASE Crash
  BY <1>7 DEF Crash, Idle
<1>8. CASE Start
  BY <1>8 DEF Start
<1>9. CASE UNCHANGED vars
  BY <1>9 DEF vars
<1> QED
  BY <1>1, <1>2, <1>3, <1>4, <1>5, <1>6, <1>7, <1>8, <1>9, QuietSteps, QuietStep
     DEF Next, PutStep

\* At every moment an object is one complete upload that was sent to its key,
\* and so is whatever a reader streams: staging and rename let no reader see a
\* partial, refused or foreign body.
THEOREM BodiesAreWhole == Spec => []WholeBodies
<1>1. Init => Fresh /\ WholeBodies
  BY DEF Init, Fresh, WholeBodies, Idle
<1> QED
  BY <1>1, TypeInit, TypeStep, WholeStep, PTL DEF Spec

-----------------------------------------------------------------------------
(* Metadata *)

\* A step of a request that neither changes its key nor its metadata in hand.
Kept == \A p \in Procs : req'[p].meta = req[p].meta /\ req'[p].key = req[p].key

\* Answering a request is such a step.
LEMMA FinishKept ==
    ASSUME TypeOK, NEW p \in Procs, NEW out, Finish(p, out)
    PROVE  Kept
  BY DEF Kept, Finish, TypeOK, Request

\* Moving on is one too.
LEMMA GotoKept ==
    ASSUME TypeOK, NEW p \in Procs, NEW pc, Goto(p, pc)
    PROVE  Kept
  BY DEF Kept, Goto, TypeOK, Request

\* Every step keeps metadata about committed uploads only.
LEMMA MetadataStep ==
    TypeOK /\ Control /\ WholeBodies /\ Carried /\ MetadataOfCommitted /\ [Next]_vars
        => Carried' /\ MetadataOfCommitted'
<1> SUFFICES ASSUME TypeOK, Control, WholeBodies, Carried, MetadataOfCommitted, [Next]_vars
             PROVE  Carried' /\ MetadataOfCommitted'
  OBVIOUS
<1> USE DEF Carried, MetadataOfCommitted, At, stores
<1>0. \A p \in Procs : req[p] \in Request /\ Controlled(req[p])
  BY DEF TypeOK, Control
<1>1. ASSUME NEW p \in Procs, Begin(p) PROVE Carried' /\ MetadataOfCommitted'
  BY <1>0, <1>1 DEF Begin, Idle, NoMeta, TypeOK, Request
<1>2. ASSUME NEW p \in Procs, Reply(p) PROVE Carried' /\ MetadataOfCommitted'
  BY <1>0, <1>2 DEF Reply, Idle, NoMeta, TypeOK, Request
<1>3. ASSUME NEW p \in Procs, Cancel(p) PROVE Carried' /\ MetadataOfCommitted'
  <2>1. Kept
    BY <1>0, <1>3 DEF Cancel, Kept, TypeOK, Request
  <2>2. committed' = committed /\ disk' = disk /\ cache' = cache
    BY <1>3 DEF Cancel
  <2>3. Carried'
    BY <2>1, <2>2 DEF Kept
  <2>4. MetadataOfCommitted'
    BY <2>2
  <2> QED
    BY <2>3, <2>4
<1>4. ASSUME NEW p \in Procs, PutStage(p) PROVE Carried' /\ MetadataOfCommitted'
  <2>1. Kept
    BY <1>4, FinishKept, GotoKept DEF PutStage
  <2> QED
    BY <1>0, <1>4, <2>1 DEF PutStage, Kept, Request
<1>5. ASSUME NEW p \in Procs, PutCopy(p) PROVE Carried' /\ MetadataOfCommitted'
  <2>1. Kept
    BY <1>5, FinishKept, GotoKept DEF PutCopy
  <2> QED
    BY <1>0, <1>5, <2>1 DEF PutCopy, Kept, Request
<1>6. ASSUME NEW p \in Procs, PutCopyFail(p) PROVE Carried' /\ MetadataOfCommitted'
  <2>1. Kept
    BY <1>6, FinishKept, GotoKept DEF PutCopyFail
  <2> QED
    BY <1>0, <1>6, <2>1 DEF PutCopyFail, Kept, Request
<1>7. ASSUME NEW p \in Procs, PutFinalize(p) PROVE Carried' /\ MetadataOfCommitted'
  <2>1. Kept
    BY <1>7, FinishKept, GotoKept DEF PutFinalize
  <2> QED
    BY <1>0, <1>7, <2>1 DEF PutFinalize, Kept, TypeOK, Request
<1>8. ASSUME NEW p \in Procs, PutLock(p) PROVE Carried' /\ MetadataOfCommitted'
  <2>1. Kept
    BY <1>8, FinishKept, GotoKept DEF PutLock
  <2> QED
    BY <1>0, <1>8, <2>1 DEF PutLock, Kept, Request
<1>9. ASSUME NEW p \in Procs, PutRename(p) PROVE Carried' /\ MetadataOfCommitted'
  BY <1>0, <1>9 DEF PutRename, TypeOK, Request
<1>10. ASSUME NEW p \in Procs, PutRenameFail(p) PROVE Carried' /\ MetadataOfCommitted'
  <2>1. Kept
    BY <1>10, FinishKept, GotoKept DEF PutRenameFail
  <2> QED
    BY <1>0, <1>10, <2>1 DEF PutRenameFail, Kept, Request
<1>11. ASSUME NEW p \in Procs, PutUndo(p) PROVE Carried' /\ MetadataOfCommitted'
  <2>1. Kept
    BY <1>11, FinishKept, GotoKept DEF PutUndo
  <2> QED
    BY <1>0, <1>11, <2>1 DEF PutUndo, Kept, TypeOK, Request
<1>12. ASSUME NEW p \in Procs, SaveTruncate(p) PROVE Carried' /\ MetadataOfCommitted'
  <2>1. Kept
    BY <1>12, FinishKept, GotoKept DEF SaveTruncate, SaveFailed
  <2> QED
    BY <1>0, <1>12, <2>1 DEF SaveTruncate, Kept, Torn, TypeOK, Request
<1>13. ASSUME NEW p \in Procs, SaveWrite(p) PROVE Carried' /\ MetadataOfCommitted'
  <2>1. Kept
    BY <1>13, GotoKept DEF SaveWrite
  <2>2. \A k \in Keys :
          \/ disk'[k] \in {disk[k], Overlaid}
          \/ k = req[p].key /\ disk'[k] = req[p].meta
    BY <1>0, <1>13 DEF SaveWrite, TypeOK, Request
  <2>3. \A k \in Keys : disk'[k].etag \in committed[k] \cup {Absent}
    BY <2>2 DEF Overlaid
  <2> QED
    BY <1>0, <1>13, <2>1, <2>3 DEF SaveWrite, Kept, Request
<1>14. ASSUME NEW p \in Procs, SaveFail(p) PROVE Carried' /\ MetadataOfCommitted'
  <2>1. Kept
    BY <1>14, FinishKept, GotoKept DEF SaveFail, SaveFailed
  <2> QED
    BY <1>0, <1>14, <2>1 DEF SaveFail, Kept, TypeOK, Request
<1>15. ASSUME NEW p \in Procs, SavePublish(p) PROVE Carried' /\ MetadataOfCommitted'
  BY <1>0, <1>15 DEF SavePublish, Finish, Unlock, TypeOK, Request
<1>16. ASSUME NEW p \in Procs, ReadStat(p) PROVE Carried' /\ MetadataOfCommitted'
  <2>1. Kept
    <3>1. CASE Finish(p, "error") \/ Finish(p, "notfound")
      BY <3>1, FinishKept
    <3>2. CASE req' = [req EXCEPT
                  ![p].size = file[req[p].key],
                  ![p].pc = IF req[p].op = "get" THEN "open" ELSE "lookup"]
      BY <1>0, <3>2 DEF Kept, TypeOK, Request
    <3> QED
      BY <1>16, <3>1, <3>2 DEF ReadStat
  <2> QED
    BY <1>0, <1>16, <2>1 DEF ReadStat, Kept, TypeOK, Request
<1>17. ASSUME NEW p \in Procs, ReadOpen(p) PROVE Carried' /\ MetadataOfCommitted'
  <2>1. Kept
    <3>1. CASE Finish(p, "error")
      BY <3>1, FinishKept
    <3>2. CASE req' = [req EXCEPT ![p].open = file[req[p].key], ![p].pc = "lookup"]
      BY <1>0, <3>2 DEF Kept, TypeOK, Request
    <3> QED
      BY <1>17, <3>1, <3>2 DEF ReadOpen
  <2> QED
    BY <1>0, <1>17, <2>1 DEF ReadOpen, Kept, Request
<1>18. ASSUME NEW p \in Procs, ReadLookup(p) PROVE Carried' /\ MetadataOfCommitted'
  <2>1. \A q \in Procs :
          /\ req'[q].key = req[q].key
          /\ req'[q].meta \in {req[q].meta, cache[req[q].key]}
    <3>1. CASE MetaFailed(p, FALSE)
      BY <1>0, <3>1 DEF MetaFailed, Goto, Finish, TypeOK, Request
    <3>2. CASE GotMeta(p, cache[req[p].key])
      BY <1>0, <3>2 DEF GotMeta, TypeOK, Request
    <3>3. CASE Goto(p, "read")
      BY <1>0, <3>3 DEF Goto, TypeOK, Request
    <3> QED
      BY <1>18, <3>1, <3>2, <3>3 DEF ReadLookup
  <2> QED
    BY <1>0, <1>18, <2>1 DEF ReadLookup, Request
<1>19. ASSUME NEW p \in Procs, ReadDisk(p) PROVE Carried' /\ MetadataOfCommitted'
  <2>1. \A q \in Procs :
          /\ req'[q].key = req[q].key
          /\ req'[q].meta \in {req[q].meta, disk[req[q].key]}
    <3>1. CASE MetaFailed(p, disk[req[p].key] = NoMeta)
      BY <3>1, FinishKept, GotoKept DEF MetaFailed, Kept
    <3>2. CASE req' = [req EXCEPT ![p].meta = disk[req[p].key], ![p].pc = "fill"]
      BY <1>0, <3>2 DEF TypeOK, Request
    <3> QED
      BY <1>19, <3>1, <3>2 DEF ReadDisk
  <2> QED
    BY <1>0, <1>19, <2>1 DEF ReadDisk, Request
<1>20. ASSUME NEW p \in Procs, ReadFill(p) PROVE Carried' /\ MetadataOfCommitted'
  BY <1>0, <1>20 DEF ReadFill, GotMeta, TypeOK, Request
<1>21. ASSUME NEW p \in Procs, ReadCompute(p) PROVE Carried' /\ MetadataOfCommitted'
  BY <1>0, <1>21 DEF ReadCompute, GotMeta, WholeBodies, TypeOK, Request
<1>22. ASSUME NEW p \in Procs, DeleteStat(p) PROVE Carried' /\ MetadataOfCommitted'
  <2>1. Kept
    BY <1>22, FinishKept, GotoKept DEF DeleteStat
  <2> QED
    BY <1>0, <1>22, <2>1 DEF DeleteStat, Kept, Request
<1>23. ASSUME NEW p \in Procs, DeleteRemove(p) PROVE Carried' /\ MetadataOfCommitted'
  <2>1. Kept
    BY <1>23, FinishKept, GotoKept DEF DeleteRemove
  <2> QED
    BY <1>0, <1>23, <2>1 DEF DeleteRemove, Kept, TypeOK, Request
<1>24. ASSUME NEW p \in Procs, DeleteMeta(p) PROVE Carried' /\ MetadataOfCommitted'
  <2>1. Kept
    BY <1>24, FinishKept, GotoKept DEF DeleteMeta
  <2> QED
    BY <1>0, <1>24, <2>1 DEF DeleteMeta, Kept, NoMeta, TypeOK, Request
<1>25. ASSUME NEW p \in Procs, DeleteCache(p) PROVE Carried' /\ MetadataOfCommitted'
  BY <1>0, <1>25 DEF DeleteCache, Goto, Finish, NoMeta, TypeOK, Request
<1>26. ASSUME NEW p \in Procs, TagMutate(p) PROVE Carried' /\ MetadataOfCommitted'
  BY <1>0, <1>26 DEF TagMutate, Meta, NoMeta, TypeOK, Request
<1>27. ASSUME NEW k \in Keys, Evict(k) PROVE Carried' /\ MetadataOfCommitted'
  BY <1>27 DEF Evict, NoMeta, TypeOK
<1>28. CASE Crash
  BY <1>28 DEF Crash, Idle, NoMeta
<1>29. CASE Start
  BY <1>29 DEF Start
<1>30. CASE UNCHANGED vars
  BY <1>30 DEF vars
<1> QED
  BY <1>1, <1>2, <1>3, <1>4, <1>5, <1>6, <1>7, <1>8, <1>9, <1>10, <1>11, <1>12, <1>13, <1>14, <1>15, <1>16, <1>17, <1>18, <1>19, <1>20, <1>21, <1>22, <1>23, <1>24, <1>25, <1>26, <1>27, <1>28, <1>29, <1>30
     DEF Next, PutStep, SaveStep, ReadStep, DeleteStep

\* No ETag, size or owner of an upload that was not renamed into place is
\* ever in a JSON file or in the cache.
THEOREM MetadataIsOfCommitted == Spec => []MetadataOfCommitted
<1>1. Init => Fresh /\ WholeBodies /\ Carried /\ MetadataOfCommitted
  BY DEF Init, Fresh, WholeBodies, Carried, MetadataOfCommitted, Idle, NoMeta
<1> QED
  BY <1>1, TypeInit, TypeStep, WholeStep, MetadataStep, PTL DEF Spec

-----------------------------------------------------------------------------
(* Last write wins *)

\* Clients only upload and read, and nothing is cancelled, fails or crashes.
Undisturbed ==
    /\ Ops \subseteq {"put", "get", "head", "owner"}
    /\ ~CanCancel /\ ~CanFail /\ ~CanCrash

\* The JSON file describes the body at the data path.
Agree(k) == disk[k] = [etag |-> file[k], tags |-> FALSE]

\* A request before its commit and a reader have nothing to settle; a PUT in
\* its commit finds file and metadata in agreement, and after its rename has
\* in hand the metadata that will agree, which goes to the file it emptied.
Settles(p) ==
    /\ ~req[p].cancelled
    /\ req[p].op \notin {"delete", "tag"}
    /\ req[p].pc \notin DeletePCs \cup {"mutate", "undo"}
    /\ req[p].pc \in SavePCs => req[p].op = "put"
    /\ req[p].pc = "rename" => Agree(req[p].key)
    /\ req[p].pc \in {"truncate", "write", "publish"} =>
         /\ req[p].meta = [etag |-> req[p].body, tags |-> FALSE]
         /\ file[req[p].key] = req[p].body
    /\ req[p].pc = "write" => p \in linked /\ disk[req[p].key] = Torn
    /\ req[p].pc = "publish" => disk[req[p].key] = req[p].meta

Settled == LastWriteWins /\ \A p \in Procs : Settles(p)

\* A step of p that leaves the stores alone and does not take p into a commit.
LEMMA Passive ==
    ASSUME Settled, NEW p \in Procs, UNCHANGED <<file, disk, linked, lock>>,
           \A q \in Procs \ {p} : req'[q] = req[q],
           ~req'[p].cancelled, req'[p].op = req[p].op,
           req'[p].pc \in {"done", "copy", "finalize", "lock",
                           "open", "lookup", "read", "fill", "compute"}
    PROVE  Settled'
<1>1. \A q \in Procs \ {p} : Settles(q)'
  BY DEF Settled, Settles, Agree
<1>2. Settles(p)'
  BY DEF Settled, Settles, DeletePCs, SavePCs
<1>3. LastWriteWins'
  BY DEF Settled, LastWriteWins
<1> QED
  BY <1>1, <1>2, <1>3 DEF Settled

\* Answering a request is such a step.
LEMMA FinishPassive ==
    ASSUME TypeOK, Settled, NEW p \in Procs, NEW out, Finish(p, out),
           UNCHANGED <<file, disk, linked, lock>>
    PROVE  Settled'
<1>1. /\ \A q \in Procs \ {p} : req'[q] = req[q]
      /\ ~req'[p].cancelled /\ req'[p].op = req[p].op /\ req'[p].pc = "done"
  BY DEF Finish, Settled, Settles, TypeOK, Request
<1> QED
  BY <1>1, Passive

\* Moving on to a point outside a commit is one too.
LEMMA GotoPassive ==
    ASSUME TypeOK, Settled, NEW p \in Procs,
           NEW pc \in {"copy", "finalize", "lock",
                       "open", "lookup", "read", "fill", "compute"},
           Goto(p, pc), UNCHANGED <<file, disk, linked, lock>>
    PROVE  Settled'
<1>1. /\ \A q \in Procs \ {p} : req'[q] = req[q]
      /\ ~req'[p].cancelled /\ req'[p].op = req[p].op /\ req'[p].pc = pc
  BY DEF Goto, Settled, Settles, TypeOK, Request
<1> QED
  BY <1>1, Passive

\* Requests of other goroutines are not touched by a commit under their nose:
\* if they are in a commit themselves, it is one of another key.
LEMMA OtherKeys ==
    ASSUME TypeOK, Control, CommitExclusive, Settled,
           NEW p \in Procs, InCommit(p), NEW q \in Procs \ {p}, req'[q] = req[q],
           q \in linked => q \in linked',
           \A k \in Keys \ {req[p].key} : file'[k] = file[k] /\ disk'[k] = disk[k]
    PROVE  Settles(q)'
<1>1. req[p].key \in Keys /\ req[q].key \in Keys
  BY DEF TypeOK, Request
<1>2. CASE InCommit(q)
  <2>1. lock[req[p].key] = p /\ lock[req[q].key] = q
    BY <1>1, <1>2 DEF CommitExclusive
  <2>2. req[q].key # req[p].key
    BY <2>1
  <2> QED
    BY <1>1, <2>2 DEF Settled, Settles, Agree
<1>3. CASE ~InCommit(q)
  <2>1. req[q].pc \notin {"rename", "undo", "truncate", "write", "publish"}
    BY <1>3 DEF InCommit, Settled, Settles, SavePCs, Control, Controlled, PutPCs
  <2> QED
    BY <2>1 DEF Settled, Settles, SavePCs, DeletePCs
<1> QED
  BY <1>2, <1>3

\* Every step keeps file and metadata settled.
LEMMA SettledStep ==
    Undisturbed /\ TypeOK /\ Control /\ CommitExclusive /\ Settled /\ [Next]_vars => Settled'
<1> SUFFICES ASSUME Undisturbed, TypeOK, Control, CommitExclusive, Settled, [Next]_vars
             PROVE  Settled'
  OBVIOUS
<1> USE DEF At, stores
<1>0. \A p \in Procs : req[p] \in Request /\ Controlled(req[p])
  BY DEF TypeOK, Control
<1>00. \A p \in Procs : Settles(p)
  BY DEF Settled
<1>1. ASSUME NEW p \in Procs, Begin(p) PROVE Settled'
  BY <1>0, <1>00, <1>1 DEF Begin, Idle, Undisturbed, FirstPC, Settled, Settles, LastWriteWins, Agree, TypeOK, Request, SavePCs, DeletePCs
<1>2. ASSUME NEW p \in Procs, Reply(p) PROVE Settled'
  BY <1>0, <1>00, <1>2 DEF Reply, Idle, Settled, Settles, LastWriteWins, Agree, TypeOK, Request, SavePCs, DeletePCs
<1>3. ASSUME NEW p \in Procs, Cancel(p) PROVE Settled'
  BY <1>0, <1>00, <1>3 DEF Cancel, Undisturbed, TypeOK, Request, SavePCs, DeletePCs
<1>4. ASSUME NEW p \in Procs, PutStage(p) PROVE Settled'
  BY <1>4, FinishPassive, GotoPassive DEF PutStage
<1>5. ASSUME NEW p \in Procs, PutCopy(p) PROVE Settled'
  BY <1>5, FinishPassive, GotoPassive DEF PutCopy
<1>6. ASSUME NEW p \in Procs, PutFinalize(p) PROVE Settled'
  BY <1>6, FinishPassive, GotoPassive DEF PutFinalize
<1>7. ASSUME NEW p \in Procs, ReadStat(p) PROVE Settled'
  <2>1. CASE Finish(p, "error") \/ Finish(p, "notfound")
    BY <1>7, <2>1, FinishPassive DEF ReadStat
  <2>2. CASE req' = [req EXCEPT ![p].size = file[req[p].key],
                             ![p].pc = IF req[p].op = "get" THEN "open" ELSE "lookup"]
    <3>1. /\ \A q \in Procs \ {p} : req'[q] = req[q]
          /\ ~req'[p].cancelled /\ req'[p].op = req[p].op
          /\ req'[p].pc \in {"open", "lookup"}
      BY <1>0, <1>00, <2>2 DEF Settles, TypeOK, Request
    <3> QED
      BY <1>7, <3>1, Passive DEF ReadStat
  <2> QED
    BY <1>7, <2>1, <2>2 DEF ReadStat
<1>8. ASSUME NEW p \in Procs, ReadOpen(p) PROVE Settled'
  <2>1. CASE Finish(p, "error") \/ Finish(p, "notfound")
    BY <1>8, <2>1, FinishPassive DEF ReadOpen
  <2>2. CASE req' = [req EXCEPT ![p].open = file[req[p].key],
                             ![p].pc = "lookup"]
    <3>1. /\ \A q \in Procs \ {p} : req'[q] = req[q]
          /\ ~req'[p].cancelled /\ req'[p].op = req[p].op
          /\ req'[p].pc \in {"open", "lookup"}
      BY <1>0, <1>00, <2>2 DEF Settles, TypeOK, Request
    <3> QED
      BY <1>8, <3>1, Passive DEF ReadOpen
  <2> QED
    BY <1>8, <2>1, <2>2 DEF ReadOpen
<1>9. ASSUME NEW p \in Procs, ReadLookup(p) PROVE Settled'
  <2>1. CASE MetaFailed(p, FALSE)
    BY <1>9, <2>1, FinishPassive, GotoPassive DEF ReadLookup, MetaFailed
  <2>2. CASE GotMeta(p, cache[req[p].key])
    <3>0. req[p].op # "tag" /\ ~req[p].cancelled
      BY <1>00 DEF Settles
    <3>1. /\ \A q \in Procs \ {p} : req'[q] = req[q]
          /\ ~req'[p].cancelled /\ req'[p].op = req[p].op
          /\ req'[p].pc = "done"
      BY <1>0, <2>2, <3>0 DEF GotMeta, TypeOK, Request
    <3> QED
      BY <1>9, <3>1, Passive DEF ReadLookup
  <2>3. CASE Goto(p, "read")
    BY <1>9, <2>3, GotoPassive DEF ReadLookup
  <2> QED
    BY <1>9, <2>1, <2>2, <2>3 DEF ReadLookup
<1>10. ASSUME NEW p \in Procs, ReadDisk(p) PROVE Settled'
  <2>1. CASE MetaFailed(p, disk[req[p].key] = NoMeta)
    BY <1>10, <2>1, FinishPassive, GotoPassive DEF ReadDisk, MetaFailed
  <2>2. CASE req' = [req EXCEPT ![p].meta = disk[req[p].key], ![p].pc = "fill"]
    <3>1. /\ \A q \in Procs \ {p} : req'[q] = req[q]
          /\ ~req'[p].cancelled /\ req'[p].op = req[p].op
          /\ req'[p].pc = "fill"
      BY <1>0, <1>00, <2>2 DEF Settles, TypeOK, Request
    <3> QED
      BY <1>10, <3>1, Passive DEF ReadDisk
  <2> QED
    BY <1>10, <2>1, <2>2 DEF ReadDisk
<1>11. ASSUME NEW p \in Procs, ReadFill(p) PROVE Settled'
  <2>1. /\ \A q \in Procs \ {p} : req'[q] = req[q]
        /\ ~req'[p].cancelled
        /\ req'[p].op = req[p].op
        /\ req'[p].pc \in {"done", "copy", "finalize", "lock",
                           "open", "lookup", "read", "fill", "compute"}
    BY <1>0, <1>00, <1>11 DEF ReadFill, GotMeta, Settles, TypeOK, Request
  <2> QED
    BY <1>11, <2>1, Passive DEF ReadFill
<1>12. ASSUME NEW p \in Procs, ReadCompute(p) PROVE Settled'
  <2>1. /\ \A q \in Procs \ {p} : req'[q] = req[q]
        /\ ~req'[p].cancelled
        /\ req'[p].op = req[p].op
        /\ req'[p].pc \in {"done", "copy", "finalize", "lock",
                           "open", "lookup", "read", "fill", "compute"}
    BY <1>0, <1>00, <1>12 DEF ReadCompute, GotMeta, Settles, TypeOK, Request
  <2> QED
    BY <1>12, <2>1, Passive DEF ReadCompute
<1>13. ASSUME NEW p \in Procs, PutCopyFail(p) PROVE FALSE
  BY <1>00, <1>13 DEF PutCopyFail, Undisturbed, Settles
<1>14. ASSUME NEW p \in Procs, PutRenameFail(p) PROVE FALSE
  BY <1>00, <1>14 DEF PutRenameFail, Undisturbed
<1>15. ASSUME NEW p \in Procs, SaveFail(p) PROVE FALSE
  BY <1>00, <1>15 DEF SaveFail, Undisturbed
<1>16. ASSUME NEW p \in Procs, PutUndo(p) PROVE FALSE
  BY <1>00, <1>16 DEF PutUndo, Settles
<1>17. ASSUME NEW p \in Procs, DeleteStat(p) PROVE FALSE
  BY <1>00, <1>17 DEF DeleteStat, Settles, DeletePCs
<1>18. ASSUME NEW p \in Procs, DeleteRemove(p) PROVE FALSE
  BY <1>00, <1>18 DEF DeleteRemove, Settles, DeletePCs
<1>19. ASSUME NEW p \in Procs, DeleteMeta(p) PROVE FALSE
  BY <1>00, <1>19 DEF DeleteMeta, Settles, DeletePCs
<1>20. ASSUME NEW p \in Procs, DeleteCache(p) PROVE FALSE
  BY <1>00, <1>20 DEF DeleteCache, Settles, DeletePCs
<1>21. ASSUME NEW p \in Procs, TagMutate(p) PROVE FALSE
  BY <1>00, <1>21 DEF TagMutate, Settles
<1>22. ASSUME NEW p \in Procs, PutLock(p) PROVE Settled'
  <2>1. \A q \in Procs \ {p} : Settles(q)'
    BY <1>0, <1>00, <1>22 DEF PutLock, Goto, Settles, Agree, TypeOK
  <2>2. Agree(req[p].key)
    BY <1>0, <1>22 DEF PutLock, Settled, LastWriteWins, Agree, Request
  <2>3. Settles(p)'
    BY <1>0, <1>00, <1>22, <2>2
       DEF PutLock, Goto, Settles, Agree, TypeOK, Request, SavePCs, DeletePCs
  <2>4. LastWriteWins'
    BY <1>0, <1>22, FreeAssumption DEF PutLock, Settled, LastWriteWins, TypeOK
  <2> QED
    BY <2>1, <2>3, <2>4 DEF Settled
<1>23. ASSUME NEW p \in Procs, PutRename(p) PROVE Settled'
  <2>1. InCommit(p)
    BY <1>0, <1>00, <1>23 DEF PutRename, InCommit, Settles, SavePCs, Controlled, PutPCs
  <2>2. req[p].key \in Keys /\ lock[req[p].key] = p
    BY <1>0, <2>1 DEF CommitExclusive, Request
  <2>3. ASSUME NEW q \in Procs \ {p} PROVE Settles(q)'
    <3>1. /\ req'[q] = req[q]
          /\ q \in linked => q \in linked'
          /\ \A k \in Keys \ {req[p].key} : file'[k] = file[k] /\ disk'[k] = disk[k]
      BY <1>0, <1>00, <1>23 DEF PutRename, Settles, PutPCs, Controlled, TypeOK
    <3> QED
      BY <2>1, <3>1, OtherKeys
  <2>4. Settles(p)'
    <3>1. /\ req'[p].pc = "truncate" /\ req'[p].op = "put" /\ ~req'[p].cancelled
          /\ req'[p].key = req[p].key /\ req'[p].body = req[p].body
          /\ req'[p].meta = [etag |-> req[p].body, tags |-> FALSE]
      BY <1>0, <1>00, <1>23, <2>1 DEF PutRename, InCommit, Settles, TypeOK, Request
    <3>2. file'[req[p].key] = req[p].body
      BY <1>23, <2>2 DEF PutRename, TypeOK
    <3> QED
      BY <3>1, <3>2 DEF Settles, SavePCs, DeletePCs
  <2>5. LastWriteWins'
    <3>1. ASSUME NEW k \in Keys, lock'[k] = Free
          PROVE  k # req[p].key /\ lock[k] = Free
      BY <1>23, <2>2, <3>1, FreeAssumption DEF PutRename
    <3>2. ASSUME NEW k \in Keys, k # req[p].key
          PROVE  file'[k] = file[k] /\ disk'[k] = disk[k]
      BY <1>0, <1>00, <1>23, <3>2 DEF PutRename, Settles, TypeOK
    <3> QED
      BY <3>1, <3>2 DEF Settled, LastWriteWins
  <2> QED
    BY <2>3, <2>4, <2>5 DEF Settled
<1>24. ASSUME NEW p \in Procs, SaveTruncate(p) PROVE Settled'
  <2>1. InCommit(p)
    BY <1>0, <1>00, <1>24 DEF SaveTruncate, InCommit, Settles, SavePCs, Controlled, PutPCs
  <2>2. req[p].key \in Keys /\ lock[req[p].key] = p
    BY <1>0, <2>1 DEF CommitExclusive, Request
  <2>3. ASSUME NEW q \in Procs \ {p} PROVE Settles(q)'
    <3>1. /\ req'[q] = req[q]
          /\ q \in linked => q \in linked'
          /\ \A k \in Keys \ {req[p].key} : file'[k] = file[k] /\ disk'[k] = disk[k]
      BY <1>0, <1>00, <1>24 DEF SaveTruncate, Settles, Goto, TypeOK
    <3> QED
      BY <2>1, <3>1, OtherKeys
  <2>4. Settles(p)'
    <3>1. Goto(p, "write") /\ UNCHANGED file
      BY <1>00, <1>24 DEF SaveTruncate, Settles
    <3>2. /\ req'[p].pc = "write" /\ req'[p].op = "put" /\ ~req'[p].cancelled
          /\ req'[p].key = req[p].key /\ req'[p].body = req[p].body
          /\ req'[p].meta = req[p].meta
      BY <1>0, <1>00, <2>1, <3>1 DEF Goto, InCommit, Settles, TypeOK, Request
    <3>3. p \in linked' /\ disk'[req[p].key] = Torn
      BY <1>00, <1>24, <2>2 DEF SaveTruncate, Settles, TypeOK
    <3> QED
      BY <1>00, <1>24, <3>1, <3>2, <3>3 DEF SaveTruncate, Settles, SavePCs, DeletePCs
  <2>5. LastWriteWins'
    <3>1. ASSUME NEW k \in Keys, lock'[k] = Free
          PROVE  k # req[p].key /\ lock[k] = Free
      BY <1>24, <2>2, <3>1, FreeAssumption DEF SaveTruncate
    <3>2. ASSUME NEW k \in Keys, k # req[p].key
          PROVE  file'[k] = file[k] /\ disk'[k] = disk[k]
      BY <1>0, <1>00, <1>24, <3>2 DEF SaveTruncate, Settles, TypeOK
    <3> QED
      BY <3>1, <3>2 DEF Settled, LastWriteWins
  <2> QED
    BY <2>3, <2>4, <2>5 DEF Settled
<1>25. ASSUME NEW p \in Procs, SaveWrite(p) PROVE Settled'
  <2>1. InCommit(p)
    BY <1>0, <1>00, <1>25 DEF SaveWrite, InCommit, Settles, SavePCs, Controlled, PutPCs
  <2>2. req[p].key \in Keys /\ lock[req[p].key] = p
    BY <1>0, <2>1 DEF CommitExclusive, Request
  <2>3. ASSUME NEW q \in Procs \ {p} PROVE Settles(q)'
    <3>1. /\ req'[q] = req[q]
          /\ q \in linked => q \in linked'
          /\ \A k \in Keys \ {req[p].key} : file'[k] = file[k] /\ disk'[k] = disk[k]
      BY <1>0, <1>00, <1>25 DEF SaveWrite, Settles, Goto, TypeOK
    <3> QED
      BY <2>1, <3>1, OtherKeys
  <2>4. Settles(p)'
    <3>1. disk'[req[p].key] = req[p].meta /\ UNCHANGED file
      BY <1>00, <1>25, <2>2 DEF SaveWrite, Settles, TypeOK
    <3>2. /\ req'[p].pc = "publish" /\ req'[p].op = "put" /\ ~req'[p].cancelled
          /\ req'[p].key = req[p].key /\ req'[p].body = req[p].body
          /\ req'[p].meta = req[p].meta
      BY <1>0, <1>00, <1>25, <2>1 DEF SaveWrite, Goto, InCommit, Settles, TypeOK, Request
    <3> QED
      BY <1>00, <1>25, <3>1, <3>2 DEF SaveWrite, Settles, SavePCs, DeletePCs
  <2>5. LastWriteWins'
    <3>1. ASSUME NEW k \in Keys, lock'[k] = Free
          PROVE  k # req[p].key /\ lock[k] = Free
      BY <1>25, <2>2, <3>1, FreeAssumption DEF SaveWrite
    <3>2. ASSUME NEW k \in Keys, k # req[p].key
          PROVE  file'[k] = file[k] /\ disk'[k] = disk[k]
      BY <1>0, <1>00, <1>25, <3>2 DEF SaveWrite, Settles, TypeOK
    <3> QED
      BY <3>1, <3>2 DEF Settled, LastWriteWins
  <2> QED
    BY <2>3, <2>4, <2>5 DEF Settled
<1>26. ASSUME NEW p \in Procs, SavePublish(p) PROVE Settled'
  <2>1. InCommit(p)
    BY <1>0, <1>00, <1>26 DEF SavePublish, InCommit, Settles, SavePCs, Controlled, PutPCs
  <2>2. req[p].key \in Keys /\ lock[req[p].key] = p
    BY <1>0, <2>1 DEF CommitExclusive, Request
  <2>3. ASSUME NEW q \in Procs \ {p} PROVE Settles(q)'
    <3>1. /\ req'[q] = req[q]
          /\ q \in linked => q \in linked'
          /\ \A k \in Keys \ {req[p].key} : file'[k] = file[k] /\ disk'[k] = disk[k]
      BY <1>0, <1>00, <1>26 DEF SavePublish, Settles, Finish, Unlock, TypeOK
    <3> QED
      BY <2>1, <3>1, OtherKeys
  <2>4. Settles(p)'
    BY <1>0, <1>00, <1>26, <2>2
       DEF SavePublish, Finish, Unlock, Settles, TypeOK, Request, SavePCs, DeletePCs
  <2>5. LastWriteWins'
    <3>1. ASSUME NEW k \in Keys, lock'[k] = Free
          PROVE  k = req[p].key \/ lock[k] = Free
      BY <1>26, <2>1, <3>1 DEF SavePublish, Unlock, InCommit, TypeOK
    <3>2. disk[req[p].key] = [etag |-> file[req[p].key], tags |-> FALSE]
      BY <1>00, <1>26 DEF SavePublish, Settles
    <3> QED
      BY <1>26, <3>1, <3>2 DEF SavePublish, Settled, LastWriteWins
  <2> QED
    BY <2>3, <2>4, <2>5 DEF Settled
<1>27. ASSUME NEW k \in Keys, Evict(k) PROVE Settled'
  BY <1>27 DEF Evict, Settled, Settles, LastWriteWins, Agree
<1>28. CASE Crash
  BY <1>28 DEF Crash, Undisturbed
<1>29. CASE Start
  BY <1>29 DEF Start, Settled, Settles, LastWriteWins, Agree
<1>30. CASE UNCHANGED vars
  BY <1>30 DEF vars, Settled, Settles, LastWriteWins, Agree
<1> QED
  BY <1>1, <1>2, <1>3, <1>4, <1>5, <1>6, <1>7, <1>8, <1>9, <1>10, <1>11, <1>12, <1>13, <1>14, <1>15, <1>16, <1>17, <1>18, <1>19, <1>20, <1>21, <1>22, <1>23, <1>24, <1>25, <1>26, <1>27, <1>28, <1>29, <1>30
     DEF Next, PutStep, SaveStep, ReadStep, DeleteStep

\* With uploads and readers only, the last upload to commit wins for the bytes
\* and for the metadata alike, however many uploads race: the per-key mutex is
\* enough for that, although readers fill the cache without it.
THEOREM LastWriteWinsTogether == Undisturbed => (Spec => []LastWriteWins)
<1> SUFFICES ASSUME Undisturbed PROVE Spec => []LastWriteWins
  OBVIOUS
<1>1. Init => CommitExclusive
  BY FreeAssumption DEF Init, CommitExclusive, InCommit, Idle
<1>2. Init => Settled
  BY DEF Init, Settled, Settles, LastWriteWins, Idle, NoMeta, DeletePCs, SavePCs
<1>3. Settled => LastWriteWins
  BY DEF Settled
<1>4. TypeOK /\ Control /\ CommitExclusive /\ Settled /\ [Next]_vars => Settled'
  BY SettledStep
<1> QED
  BY <1>1, <1>2, <1>3, <1>4, TypeInit, TypeStep, LockStep, PTL DEF Spec

=============================================================================
