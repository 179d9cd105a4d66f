----------------------- MODULE ObjectStoreRefinement -----------------------
(***************************************************************************)
(* ObjectStore implements ObjectRegister, for every set of goroutines and  *)
(* keys and every fault: the bytes of an object are a linearizable         *)
(* register.  A PUT takes effect at its rename, a GET when it opens the    *)
(* file, a DELETE when it removes the file; a request that finds nothing   *)
(* takes effect when it looks.                                             *)
(***************************************************************************)
EXTENDS ObjectStoreProofs

-----------------------------------------------------------------------------
(* Strengthening *)

\* A request has no outcome before it is answered, a GET holds no bytes before
\* it opened the file, and between its rename and its unlock a PUT finds its
\* own body at the data path, or nothing where a DELETE came in between.
Answered(p) ==
    /\ req[p].pc # "done" => req[p].out = "none"
    /\ req[p].pc \in ReadPCs \cup {"mutate"} => req[p].op # "delete"
    /\ req[p].pc \in SavePCs => req[p].op \in {"put", "tag"}
    /\ req[p].pc = "mutate" => req[p].op = "tag"
    /\ req[p].pc \in DeletePCs => req[p].op = "delete"
    /\ req[p].op = "get" /\ req[p].pc \in {"stat", "open"} => req[p].open = Absent
    /\ req[p].op = "put" /\ req[p].pc \in {"truncate", "write", "publish", "undo"}
         => file[req[p].key] \in {req[p].body, Absent}

Answers == \A p \in Procs : Answered(p)

\* A step of p that stores no new object disturbs nobody else.
LEMMA OthersAnswered ==
    ASSUME TypeOK, Answers, NEW p \in Procs, Answered(p)',
           \A q \in Procs \ {p} : req'[q] = req[q],
           \A k \in Keys : file'[k] \in {file[k], Absent}
    PROVE  Answers'
<1>1. ASSUME NEW q \in Procs \ {p} PROVE Answered(q)'
  <2>1. req[q].key \in Keys
    BY DEF TypeOK, Request
  <2> QED
    BY <2>1 DEF Answers, Answered
<1> QED
  BY <1>1 DEF Answers

\* Answering a request keeps what is known of it.
LEMMA FinishAnswered ==
    ASSUME TypeOK, Answers, NEW p \in Procs, NEW out, Finish(p, out),
           \A k \in Keys : file'[k] \in {file[k], Absent}
    PROVE  Answers'
<1>1. \A q \in Procs \ {p} : req'[q] = req[q]
  BY DEF Finish, TypeOK
<1>2. Answered(p)'
  BY DEF Finish, TypeOK, Request, Answered, ReadPCs, SavePCs, DeletePCs
<1> QED
  BY <1>1, <1>2, OthersAnswered

\* Moving on keeps what is known of a request if the next step may be its own.
LEMMA GotoAnswered ==
    ASSUME TypeOK, Answers, NEW p \in Procs, NEW pc \in PCs \ {"done", "mutate"},
           Goto(p, pc), req[p].pc # "done",
           pc \in ReadPCs => req[p].op # "delete" /\ pc \notin {"stat", "open"},
           pc \in SavePCs => req[p].op \in {"put", "tag"},
           pc \in DeletePCs => req[p].op = "delete",
           req[p].op = "put" /\ pc \in {"truncate", "write", "publish", "undo"}
               => req[p].pc \in {"truncate", "write", "publish", "undo"},
           \A k \in Keys : file'[k] \in {file[k], Absent}
    PROVE  Answers'
<1>1. /\ \A q \in Procs \ {p} : req'[q] = req[q]
      /\ req'[p] = [req[p] EXCEPT !.pc = pc]
  BY DEF Goto, TypeOK
<1>2. /\ req'[p].pc = pc /\ req'[p].op = req[p].op /\ req'[p].key = req[p].key
      /\ req'[p].body = req[p].body /\ req'[p].out = req[p].out
  BY <1>1 DEF TypeOK, Request
<1>3. Answered(p)'
  <2>1. Answered(p) /\ req[p].key \in Keys
    BY DEF Answers, TypeOK, Request
  <2>2. pc \notin {"stat", "open"} /\ "stat" \in ReadPCs
    BY DEF ReadPCs
  <2> QED
    BY <1>2, <2>1, <2>2 DEF Answered, SavePCs
<1> QED
  BY <1>1, <1>3, OthersAnswered

\* Metadata in hand: likewise.
LEMMA GotMetaAnswered ==
    ASSUME TypeOK, Answers, NEW p \in Procs, NEW m, GotMeta(p, m),
           req[p].pc \in {"lookup", "fill", "compute"}, UNCHANGED file
    PROVE  Answers'
<1>0. Answered(p) /\ req[p] \in Request
  BY DEF Answers, TypeOK
<1>1. CASE req[p].op = "tag"
  <2> DEFINE to == IF req[p].checked THEN "mutate" ELSE "lookup"
  <2>1. /\ \A q \in Procs \ {p} : req'[q] = req[q]
        /\ req'[p].pc = to /\ req'[p].op = "tag" /\ req'[p].out = req[p].out
    BY <1>0, <1>1 DEF GotMeta, TypeOK, Request
  <2>2. to \in {"mutate", "lookup"}
    OBVIOUS
  <2> HIDE DEF to
  <2>3. Answered(p)'
    BY <1>0, <2>1, <2>2 DEF Answered, ReadPCs, SavePCs, DeletePCs
  <2> QED
    BY <2>1, <2>3, OthersAnswered
<1>2. CASE req[p].op # "tag"
  <2>1. /\ \A q \in Procs \ {p} : req'[q] = req[q]
        /\ req'[p].pc = "done"
    BY <1>0, <1>2 DEF GotMeta, TypeOK, Request
  <2>2. Answered(p)'
    BY <2>1 DEF Answered, ReadPCs, SavePCs, DeletePCs
  <2> QED
    BY <2>1, <2>2, OthersAnswered
<1> QED
  BY <1>1, <1>2

\* No usable metadata: likewise.
LEMMA MetaFailedAnswered ==
    ASSUME TypeOK, Control, Answers, NEW p \in Procs, NEW absent, MetaFailed(p, absent),
           req[p].pc \in {"lookup", "read"}, UNCHANGED file
    PROVE  Answers'
<1>0. Answered(p)
  BY DEF Answers
<1>1. req[p].op \notin {"put", "delete"}
  BY <1>0 DEF Control, Controlled, Answered, ReadPCs
<1>2. CASE \E out : Finish(p, out)
  BY <1>2, FinishAnswered
<1>3. CASE Goto(p, "compute")
  <2>1. "compute" \in PCs /\ "compute" \in ReadPCs \ (SavePCs \cup DeletePCs)
    BY DEF PCs, ReadPCs, SavePCs, DeletePCs
  <2> QED
    BY <1>1, <1>3, <2>1, GotoAnswered
<1> QED
  BY <1>2, <1>3 DEF MetaFailed

\* Every step keeps what is known of the requests.
LEMMA AnswersStep ==
    TypeOK /\ Control /\ CommitExclusive /\ Answers /\ [Next]_vars => Answers'
<1> SUFFICES ASSUME TypeOK, Control, CommitExclusive, Answers, [Next]_vars
             PROVE  Answers'
  OBVIOUS
<1> USE DEF At, stores
<1>1. ASSUME NEW p \in Procs, Begin(p) PROVE Answers'
  <2>1. PICK op \in Ops, k \in Keys, custom \in BOOLEAN :
            req' = [req EXCEPT ![p] =
                   [Idle EXCEPT !.pc = FirstPC(op), !.op = op, !.key = k,
                                !.custom = custom,
                                !.body = IF op = "put" THEN puts + 1 ELSE Absent]]
    BY <1>1 DEF Begin
  <2>2. /\ \A q \in Procs \ {p} : req'[q] = req[q]
        /\ req'[p].op = op /\ req'[p].out = "none" /\ req'[p].open = Absent
        /\ req'[p].pc = FirstPC(op)
    BY <2>1 DEF Idle, TypeOK, Request
  <2>3. FirstPC(op) = CASE op = "put" -> "stage" [] op = "delete" -> "dstat"
                        [] op = "owner" -> "lookup" [] OTHER -> "stat"
    BY DEF FirstPC
  <2>4. Answered(p)'
    BY <2>2, <2>3 DEF Answered, ReadPCs, SavePCs, DeletePCs
  <2> QED
    BY <2>2, <2>4, <1>1, OthersAnswered DEF Begin
<1>2. ASSUME NEW p \in Procs, Reply(p) PROVE Answers'
  <2>1. /\ \A q \in Procs \ {p} : req'[q] = req[q]
        /\ req'[p] = Idle
    BY <1>2 DEF Reply, TypeOK
  <2>2. Answered(p)'
    BY <2>1 DEF Answered, Idle, ReadPCs, SavePCs, DeletePCs
  <2> QED
    BY <2>1, <2>2, <1>2, OthersAnswered DEF Reply
<1>3. ASSUME NEW p \in Procs, Cancel(p) PROVE Answers'
  <2>0. /\ Answered(p) /\ Controlled(req[p]) /\ req[p] \in Request
        /\ req[p].key \in Keys
    BY DEF Answers, Control, TypeOK, Request
  <2>1. /\ \A q \in Procs \ {p} : req'[q] = req[q]
        /\ req'[p] = [req[p] EXCEPT !.cancelled = TRUE]
    BY <1>3 DEF Cancel, TypeOK
  <2>2. Answered(p)'
    BY <2>0, <2>1, <1>3 DEF Cancel, Answered, Request
  <2> QED
    BY <2>1, <2>2, <1>3, OthersAnswered DEF Cancel
<1>4. ASSUME NEW p \in Procs, PutStage(p) PROVE Answers'
  <2>0. /\ Answered(p) /\ Controlled(req[p]) /\ req[p] \in Request
        /\ req[p].key \in Keys
    BY DEF Answers, Control, TypeOK, Request
  <2> QED
    BY <2>0, <1>4, FinishAnswered, GotoAnswered
       DEF PutStage, Answered, Controlled, PCs, PutPCs, ReadPCs, SavePCs, DeletePCs
<1>5. ASSUME NEW p \in Procs, PutCopy(p) PROVE Answers'
  <2>0. /\ Answered(p) /\ Controlled(req[p]) /\ req[p] \in Request
        /\ req[p].key \in Keys
    BY DEF Answers, Control, TypeOK, Request
  <2> QED
    BY <2>0, <1>5, FinishAnswered, GotoAnswered
       DEF PutCopy, Answered, Controlled, PCs, PutPCs, ReadPCs, SavePCs, DeletePCs
<1>6. ASSUME NEW p \in Procs, PutCopyFail(p) PROVE Answers'
  <2>0. /\ Answered(p) /\ Controlled(req[p]) /\ req[p] \in Request
        /\ req[p].key \in Keys
    BY DEF Answers, Control, TypeOK, Request
  <2> QED
    BY <2>0, <1>6, FinishAnswered, GotoAnswered
       DEF PutCopyFail, Answered, Controlled, PCs, PutPCs, ReadPCs, SavePCs, DeletePCs
<1>7. ASSUME NEW p \in Procs, PutFinalize(p) PROVE Answers'
  <2>0. /\ Answered(p) /\ Controlled(req[p]) /\ req[p] \in Request
        /\ req[p].key \in Keys
    BY DEF Answers, Control, TypeOK, Request
  <2> QED
    BY <2>0, <1>7, FinishAnswered, GotoAnswered
       DEF PutFinalize, Answered, Controlled, PCs, PutPCs, ReadPCs, SavePCs, DeletePCs
<1>8. ASSUME NEW p \in Procs, PutLock(p) PROVE Answers'
  <2>0. /\ Answered(p) /\ Controlled(req[p]) /\ req[p] \in Request
        /\ req[p].key \in Keys
    BY DEF Answers, Control, TypeOK, Request
  <2> QED
    BY <2>0, <1>8, FinishAnswered, GotoAnswered
       DEF PutLock, Answered, Controlled, PCs, PutPCs, ReadPCs, SavePCs, DeletePCs
<1>9. ASSUME NEW p \in Procs, PutRenameFail(p) PROVE Answers'
  <2>0. /\ Answered(p) /\ Controlled(req[p]) /\ req[p] \in Request
        /\ req[p].key \in Keys
    BY DEF Answers, Control, TypeOK, Request
  <2> QED
    BY <2>0, <1>9, FinishAnswered, GotoAnswered
       DEF PutRenameFail, Answered, Controlled, PCs, PutPCs, ReadPCs, SavePCs, DeletePCs
<1>10. ASSUME NEW p \in Procs, PutRename(p) PROVE Answers'
  <2>0. /\ Answered(p) /\ Controlled(req[p]) /\ req[p] \in Request
        /\ req[p].key \in Keys
    BY DEF Answers, Control, TypeOK, Request
  <2>1. /\ \A q \in Procs \ {p} : req'[q] = req[q]
        /\ req'[p].pc = "truncate" /\ req'[p].op = req[p].op
        /\ req'[p].key = req[p].key /\ req'[p].body = req[p].body
        /\ req'[p].out = req[p].out
    BY <2>0, <1>10 DEF PutRename, TypeOK, Request
  <2>2. /\ file'[req[p].key] = req[p].body
        /\ \A k \in Keys \ {req[p].key} : file'[k] = file[k]
    BY <2>0, <1>10 DEF PutRename, TypeOK
  <2>3. Answered(p)' /\ InCommit(p)
    BY <2>0, <2>1, <2>2, <1>10
       DEF PutRename, Answered, Controlled, InCommit, PutPCs, ReadPCs, SavePCs, DeletePCs
  <2>4. ASSUME NEW q \in Procs \ {p} PROVE Answered(q)'
    <3>1. Answered(q) /\ req[q].key \in Keys
      BY DEF Answers, TypeOK, Request
    <3>2. ~(req[q].op = "put" /\ req[q].pc \in {"truncate", "write", "publish", "undo"}
              /\ req[q].key = req[p].key)
      BY <2>0, <2>3 DEF CommitExclusive, InCommit
    <3> QED
      BY <2>1, <2>2, <3>1, <3>2 DEF Answered
  <2> QED
    BY <2>3, <2>4 DEF Answers
<1>11. ASSUME NEW p \in Procs, PutUndo(p) PROVE Answers'
  <2>0. /\ Answered(p) /\ Controlled(req[p]) /\ req[p] \in Request
        /\ req[p].key \in Keys
    BY DEF Answers, Control, TypeOK, Request
  <2>1. \A k \in Keys : file'[k] \in {file[k], Absent}
    BY <2>0, <1>11 DEF PutUndo, TypeOK
  <2> QED
    BY <1>11, <2>1, FinishAnswered DEF PutUndo
<1>12. ASSUME NEW p \in Procs, SaveTruncate(p) PROVE Answers'
  <2>0. /\ Answered(p) /\ Controlled(req[p]) /\ req[p] \in Request
        /\ req[p].key \in Keys
    BY DEF Answers, Control, TypeOK, Request
  <2> QED
    BY <2>0, <1>12, FinishAnswered, GotoAnswered
       DEF SaveTruncate, SaveFailed, Answered, Controlled, PCs, PutPCs, ReadPCs, SavePCs, DeletePCs
<1>13. ASSUME NEW p \in Procs, SaveWrite(p) PROVE Answers'
  <2>0. /\ Answered(p) /\ Controlled(req[p]) /\ req[p] \in Request
        /\ req[p].key \in Keys
    BY DEF Answers, Control, TypeOK, Request
  <2> QED
    BY <2>0, <1>13, FinishAnswered, GotoAnswered
       DEF SaveWrite, Answered, Controlled, PCs, PutPCs, ReadPCs, SavePCs, DeletePCs
<1>14. ASSUME NEW p \in Procs, SaveFail(p) PROVE Answers'
  <2>0. /\ Answered(p) /\ Controlled(req[p]) /\ req[p] \in Request
        /\ req[p].key \in Keys
    BY DEF Answers, Control, TypeOK, Request
  <2> QED
    BY <2>0, <1>14, FinishAnswered, GotoAnswered
       DEF SaveFail, SaveFailed, Answered, Controlled, PCs, PutPCs, ReadPCs, SavePCs, DeletePCs
<1>15. ASSUME NEW p \in Procs, SavePublish(p) PROVE Answers'
  <2>0. /\ Answered(p) /\ Controlled(req[p]) /\ req[p] \in Request
        /\ req[p].key \in Keys
    BY DEF Answers, Control, TypeOK, Request
  <2> QED
    BY <2>0, <1>15, FinishAnswered, GotoAnswered
       DEF SavePublish, Answered, Controlled, PCs, PutPCs, ReadPCs, SavePCs, DeletePCs
<1>16. ASSUME NEW p \in Procs, ReadStat(p) PROVE Answers'
  <2>0. /\ Answered(p) /\ Controlled(req[p]) /\ req[p] \in Request
        /\ req[p].key \in Keys
    BY DEF Answers, Control, TypeOK, Request
  <2>1. /\ \A q \in Procs \ {p} : req'[q] = req[q]
        /\ \/ req'[p].pc = "done"
           \/ /\ req'[p].pc \in {"open", "lookup"} /\ req'[p].op = req[p].op
              /\ req'[p].out = req[p].out /\ req'[p].open = req[p].open
    BY <2>0, <1>16 DEF ReadStat, Finish, TypeOK, Request
  <2>2. Answered(p)'
    BY <2>0, <2>1, <1>16 DEF ReadStat, Answered, Controlled, PCs, PutPCs, ReadPCs, SavePCs, DeletePCs
  <2> QED
    BY <2>1, <2>2, <1>16, OthersAnswered DEF ReadStat
<1>17. ASSUME NEW p \in Procs, ReadOpen(p) PROVE Answers'
  <2>0. /\ Answered(p) /\ Controlled(req[p]) /\ req[p] \in Request
        /\ req[p].key \in Keys
    BY DEF Answers, Control, TypeOK, Request
  <2>1. /\ \A q \in Procs \ {p} : req'[q] = req[q]
        /\ \/ req'[p].pc = "done"
           \/ /\ req'[p].pc = "lookup" /\ req'[p].op = req[p].op
              /\ req'[p].out = req[p].out
    BY <2>0, <1>17 DEF ReadOpen, Finish, TypeOK, Request
  <2>2. Answered(p)'
    BY <2>0, <2>1, <1>17 DEF ReadOpen, Answered, Controlled, PCs, PutPCs, ReadPCs, SavePCs, DeletePCs
  <2> QED
    BY <2>1, <2>2, <1>17, OthersAnswered DEF ReadOpen
<1>18. ASSUME NEW p \in Procs, ReadLookup(p) PROVE Answers'
  <2>0. /\ Answered(p) /\ Controlled(req[p]) /\ req[p] \in Request
        /\ req[p].key \in Keys
    BY DEF Answers, Control, TypeOK, Request
  <2>1. CASE MetaFailed(p, FALSE)
    BY <2>1, <1>18, MetaFailedAnswered DEF ReadLookup
  <2>2. CASE GotMeta(p, cache[req[p].key])
    BY <2>2, <1>18, GotMetaAnswered DEF ReadLookup
  <2>3. CASE Goto(p, "read")
    BY <2>0, <2>3, <1>18, GotoAnswered
       DEF ReadLookup, Answered, Controlled, PCs, PutPCs, ReadPCs, SavePCs, DeletePCs
  <2> QED
    BY <2>1, <2>2, <2>3, <1>18 DEF ReadLookup
<1>19. ASSUME NEW p \in Procs, ReadDisk(p) PROVE Answers'
  <2>0. /\ Answered(p) /\ Controlled(req[p]) /\ req[p] \in Request
        /\ req[p].key \in Keys
    BY DEF Answers, Control, TypeOK, Request
  <2>1. CASE MetaFailed(p, disk[req[p].key] = NoMeta)
    BY <2>1, <1>19, MetaFailedAnswered DEF ReadDisk
  <2>2. CASE req' = [req EXCEPT ![p].meta = disk[req[p].key], ![p].pc = "fill"]
    <3>1. /\ \A q \in Procs \ {p} : req'[q] = req[q]
          /\ req'[p].pc = "fill" /\ req'[p].op = req[p].op /\ req'[p].out = req[p].out
      BY <2>0, <2>2 DEF TypeOK, Request
    <3>2. Answered(p)'
      BY <2>0, <3>1, <1>19 DEF ReadDisk, Answered, Controlled, ReadPCs, SavePCs, DeletePCs
    <3> QED
      BY <3>1, <3>2, <1>19, OthersAnswered DEF ReadDisk
  <2> QED
    BY <2>1, <2>2, <1>19 DEF ReadDisk
<1>20. ASSUME NEW p \in Procs, ReadFill(p) PROVE Answers'
  BY <1>20, GotMetaAnswered DEF ReadFill
<1>21. ASSUME NEW p \in Procs, ReadCompute(p) PROVE Answers'
  BY <1>21, GotMetaAnswered DEF ReadCompute
<1>22. ASSUME NEW p \in Procs, DeleteStat(p) PROVE Answers'
  <2>0. /\ Answered(p) /\ Controlled(req[p]) /\ req[p] \in Request
        /\ req[p].key \in Keys
    BY DEF Answers, Control, TypeOK, Request
  <2> QED
    BY <2>0, <1>22, FinishAnswered, GotoAnswered
       DEF DeleteStat, Answered, Controlled, PCs, PutPCs, ReadPCs, SavePCs, DeletePCs
<1>23. ASSUME NEW p \in Procs, DeleteRemove(p) PROVE Answers'
  <2>0. /\ Answered(p) /\ Controlled(req[p]) /\ req[p] \in Request
        /\ req[p].key \in Keys
    BY DEF Answers, Control, TypeOK, Request
  <2>1. \A k \in Keys : file'[k] \in {file[k], Absent}
    BY <2>0, <1>23 DEF DeleteRemove, TypeOK
  <2>2. CASE Finish(p, "error")
    BY <2>1, <2>2, FinishAnswered
  <2>3. CASE Goto(p, "dmeta")
    BY <2>0, <2>1, <2>3, <1>23, GotoAnswered
       DEF DeleteRemove, Answered, PCs, ReadPCs, SavePCs, DeletePCs
  <2> QED
    BY <2>2, <2>3, <1>23 DEF DeleteRemove
<1>24. ASSUME NEW p \in Procs, DeleteMeta(p) PROVE Answers'
  <2>0. /\ Answered(p) /\ Controlled(req[p]) /\ req[p] \in Request
        /\ req[p].key \in Keys
    BY DEF Answers, Control, TypeOK, Request
  <2> QED
    BY <2>0, <1>24, FinishAnswered, GotoAnswered
       DEF DeleteMeta, Answered, Controlled, PCs, PutPCs, ReadPCs, SavePCs, DeletePCs
<1>25. ASSUME NEW p \in Procs, DeleteCache(p) PROVE Answers'
  <2>0. /\ Answered(p) /\ Controlled(req[p]) /\ req[p] \in Request
        /\ req[p].key \in Keys
    BY DEF Answers, Control, TypeOK, Request
  <2> QED
    BY <2>0, <1>25, FinishAnswered, GotoAnswered
       DEF DeleteCache, Answered, Controlled, PCs, PutPCs, ReadPCs, SavePCs, DeletePCs
<1>26. ASSUME NEW p \in Procs, TagMutate(p) PROVE Answers'
  <2>0. /\ Answered(p) /\ Controlled(req[p]) /\ req[p] \in Request
        /\ req[p].key \in Keys
    BY DEF Answers, Control, TypeOK, Request
  <2>1. /\ \A q \in Procs \ {p} : req'[q] = req[q]
        /\ req'[p].pc = "truncate" /\ req'[p].op = req[p].op /\ req'[p].out = req[p].out
    BY <2>0, <1>26 DEF TagMutate, TypeOK, Request
  <2>2. Answered(p)'
    BY <2>0, <2>1, <1>26 DEF TagMutate, Answered, ReadPCs, SavePCs, DeletePCs
  <2> QED
    BY <2>1, <2>2, <1>26, OthersAnswered DEF TagMutate
<1>27. ASSUME NEW k \in Keys, Evict(k) PROVE Answers'
  BY <1>27 DEF Evict, Answers, Answered
<1>28. CASE Crash
  BY <1>28 DEF Crash, Idle, Answers, Answered, ReadPCs, SavePCs, DeletePCs
<1>29. CASE Start
  BY <1>29 DEF Start, Answers, Answered
<1>30. CASE UNCHANGED vars
  BY <1>30 DEF vars, Answers, Answered
<1> QED
  BY <1>1, <1>2, <1>3, <1>4, <1>5, <1>6, <1>7, <1>8, <1>9, <1>10, <1>11, <1>12, <1>13, <1>14, <1>15, <1>16, <1>17, <1>18, <1>19, <1>20, <1>21, <1>22, <1>23, <1>24, <1>25, <1>26, <1>27, <1>28, <1>29, <1>30
     DEF Next, PutStep, SaveStep, ReadStep, DeleteStep

-----------------------------------------------------------------------------
(* The refinement mapping *)

\* What the clients see: the abstract client variable.
View == [p \in Procs |-> ClientView(req[p])]

\* A step of p alone.
Alone(p) == \A q \in Procs \ {p} : req'[q] = req[q]

\* The request of p is still the same request.
SameRequest(p) ==
    /\ req'[p].op = req[p].op /\ req'[p].key = req[p].key /\ req'[p].body = req[p].body
    /\ req'[p].pc # "idle" /\ req[p].pc # "idle"

\* A step of p alone changes what p's client sees, and nothing else.
LEMMA ViewStep ==
    ASSUME NEW p \in Procs, Alone(p)
    PROVE  View' = [View EXCEPT ![p] = ClientView(req'[p])]
<1>1. View' = [q \in Procs |-> ClientView(req'[q])]
  BY DEF View, ClientView, Visible, Stage
<1>2. \A q \in Procs \ {p} : ClientView(req'[q]) = ClientView(req[q])
  BY DEF Alone
<1> QED
  BY <1>1, <1>2 DEF View

\* What a client sees of a request that is in progress or answered.
LEMMA ViewFields ==
    ASSUME NEW p \in Procs, Visible(req[p])
    PROVE  /\ View[p].st = Stage(req[p])
           /\ View[p].op = req[p].op
           /\ View[p].key = req[p].key
           /\ View[p].body = IF req[p].op = "get" THEN req[p].open ELSE req[p].body
<1>1. View[p] = ClientView(req[p])
  BY DEF View
<1>2. CASE req[p].op = "get"
  BY <1>1, <1>2 DEF ClientView
<1>3. CASE req[p].op # "get"
  BY <1>1, <1>3 DEF ClientView
<1> QED
  BY <1>2, <1>3

\* The request goes on, and a GET has the bytes it had: only its stage changes.
LEMMA ViewMove ==
    ASSUME NEW p \in Procs, Alone(p), SameRequest(p), Visible(req[p]),
           req[p].op = "get" => req'[p].open = req[p].open
    PROVE  View' = [View EXCEPT ![p] =
                       [st |-> Stage(req'[p]), op |-> View[p].op,
                        key |-> View[p].key, body |-> View[p].body]]
<1>1. Visible(req'[p])
  BY DEF SameRequest, Visible
<1>2. ClientView(req'[p]) =
        [st |-> Stage(req'[p]), op |-> req[p].op, key |-> req[p].key,
         body |-> IF req[p].op = "get" THEN req[p].open ELSE req[p].body]
  BY <1>1 DEF ClientView, SameRequest
<1>3. /\ View[p].op = req[p].op
      /\ View[p].key = req[p].key
      /\ View[p].body = IF req[p].op = "get" THEN req[p].open ELSE req[p].body
  BY ViewFields
<1> QED
  BY <1>2, <1>3, ViewStep

\* Nothing a client could tell changes.
Unseen == UNCHANGED <<file, View>>

\* A step within one stage of a request is such a step.
LEMMA SameStage ==
    ASSUME NEW p \in Procs, Alone(p), SameRequest(p), UNCHANGED file,
           req[p].op = "get" => req'[p].open = req[p].open,
           Visible(req[p]) => Stage(req'[p]) = Stage(req[p])
    PROVE  Unseen
<1>1. CASE Visible(req[p])
  <2>1. ClientView(req'[p]) = ClientView(req[p])
    BY <1>1 DEF ClientView, Visible, SameRequest
  <2> QED
    BY <2>1, ViewStep DEF Unseen, View
<1>2. CASE ~Visible(req[p])
  <2>1. ClientView(req'[p]) = ClientView(req[p])
    BY <1>2 DEF ClientView, Visible, SameRequest
  <2> QED
    BY <2>1, ViewStep DEF Unseen, View
<1> QED
  BY <1>1, <1>2

\* A request fails before it took effect.
LEMMA Fails ==
    ASSUME NEW p \in Procs, Alone(p), SameRequest(p), Visible(req[p]), UNCHANGED file,
           req[p].op = "get" => req'[p].open = req[p].open,
           Stage(req[p]) = "pending", Stage(req'[p]) = "failed"
    PROVE  Register!Fail(p)
  BY ViewMove, ViewFields
     DEF Register!Fail, Register!At, Register!Move, Register!Update, View, Visible

\* A PUT takes effect.
LEMMA Writes ==
    ASSUME NEW p \in Procs, Alone(p), SameRequest(p), Visible(req[p]),
           req[p].op = "put", file' = [file EXCEPT ![req[p].key] = req[p].body],
           Stage(req[p]) = "pending", Stage(req'[p]) = "effective"
    PROVE  Register!Write(p)
  BY ViewMove, ViewFields
     DEF Register!Write, Register!At, Register!Move, Register!Update, Register!Store, View

\* A DELETE takes effect.
LEMMA Removes ==
    ASSUME NEW p \in Procs, Alone(p), SameRequest(p), Visible(req[p]),
           req[p].op = "delete", file' = [file EXCEPT ![req[p].key] = Absent],
           Stage(req[p]) = "pending", Stage(req'[p]) = "effective"
    PROVE  Register!Remove(p)
  BY ViewMove, ViewFields
     DEF Register!Remove, Register!At, Register!Move, Register!Update, Register!Store, View

\* A PUT takes its body away again and fails.
LEMMA Erases ==
    ASSUME NEW p \in Procs, Alone(p), SameRequest(p), Visible(req[p]),
           req[p].op = "put", file' = [file EXCEPT ![req[p].key] = Absent],
           file[req[p].key] \in {req[p].body, Absent},
           Stage(req[p]) = "effective", Stage(req'[p]) = "failed"
    PROVE  Register!Erase(p)
  BY ViewMove, ViewFields
     DEF Register!Erase, Register!At, Register!Move, Register!Update, Register!Store, View

\* A PUT fails, and its body stays.
LEMMA Keeps ==
    ASSUME NEW p \in Procs, Alone(p), SameRequest(p), Visible(req[p]),
           req[p].op = "put", UNCHANGED file,
           Stage(req[p]) = "effective", Stage(req'[p]) = "failed"
    PROVE  Register!Keep(p)
  BY ViewMove, ViewFields
     DEF Register!Keep, Register!At, Register!Move, Register!Update, View

\* A GET takes effect: it has the bytes there are.
LEMMA Reads ==
    ASSUME NEW p \in Procs, Alone(p), SameRequest(p), Visible(req[p]), UNCHANGED file,
           req[p].op = "get", req'[p].open = file[req[p].key],
           Stage(req[p]) = "pending", Stage(req'[p]) = "effective"
    PROVE  Register!Read(p)
<1>1. ClientView(req'[p]) = [st |-> "effective", op |-> "get", key |-> req[p].key,
                             body |-> file[req[p].key]]
  BY DEF ClientView, Visible, SameRequest
<1> QED
  BY <1>1, ViewStep, ViewFields
     DEF Register!Read, Register!At, Register!Update, View

\* Program points before a request takes effect.
Pending == {"stage", "copy", "finalize", "lock", "rename",
            "stat", "open", "dstat", "remove"}

\* What moving on changes of a request.
LEMMA GotoSame ==
    ASSUME TypeOK, NEW p \in Procs, NEW pc, Goto(p, pc), pc # "idle", req[p].pc # "idle"
    PROVE  /\ Alone(p) /\ SameRequest(p)
           /\ req'[p].pc = pc /\ req'[p].out = req[p].out /\ req'[p].open = req[p].open
  BY DEF Goto, Alone, SameRequest, TypeOK, Request

\* What answering changes of a request.
LEMMA FinishSame ==
    ASSUME TypeOK, NEW p \in Procs, NEW out, Finish(p, out), req[p].pc # "idle"
    PROVE  /\ Alone(p) /\ SameRequest(p)
           /\ req'[p].pc = "done" /\ req'[p].out = out /\ req'[p].open = req[p].open
  BY DEF Finish, Alone, SameRequest, TypeOK, Request

\* Moving on within a stage is a step no client could tell apart from none.
LEMMA GotoUnseen ==
    ASSUME TypeOK, NEW p \in Procs, NEW pc, Goto(p, pc), pc # "idle", req[p].pc # "idle",
           UNCHANGED file,
           Visible(req[p]) => (pc \in Pending <=> req[p].pc \in Pending)
    PROVE  Unseen
  BY GotoSame, SameStage DEF Stage, Pending

\* So is answering a request that already took effect.
LEMMA FinishUnseen ==
    ASSUME TypeOK, Answers, NEW p \in Procs, NEW out, Finish(p, out),
           req[p].pc \notin {"idle", "done"}, UNCHANGED file,
           Visible(req[p]) => out # "error" /\ req[p].pc \notin Pending
    PROVE  Unseen
<1>1. req[p].out = "none"
  BY DEF Answers, Answered
<1> QED
  BY <1>1, FinishSame, SameStage DEF Stage, Pending

\* A request that fails before it took effect, seen or not.
LEMMA FinishFails ==
    ASSUME TypeOK, Answers, NEW p \in Procs, Finish(p, "error"), UNCHANGED file,
           req[p].pc \in Pending
    PROVE  Unseen \/ Register!Fail(p)
<1>1. req[p].out = "none" /\ req[p].pc # "idle"
  BY DEF Answers, Answered, Pending
<1>2. CASE Visible(req[p])
  BY <1>1, <1>2, FinishSame, Fails DEF Stage, Pending
<1>3. CASE ~Visible(req[p])
  BY <1>1, <1>3, FinishSame, SameStage
<1> QED
  BY <1>2, <1>3

\* Every step of a request is one of the register, or one that no client sees.
LEMMA RequestStep ==
    ASSUME TypeOK, Control, Answers, NEW p \in Procs,
           \/ Cancel(p) \/ PutStep(p) \/ SaveStep(p) \/ ReadStep(p)
           \/ DeleteStep(p) \/ TagMutate(p)
    PROVE  \/ Unseen
           \/ Register!Write(p) \/ Register!Read(p) \/ Register!Remove(p)
           \/ Register!Fail(p) \/ Register!Erase(p) \/ Register!Keep(p)
<1>0. /\ Answered(p) /\ Controlled(req[p]) /\ req[p] \in Request
      /\ req[p].key \in Keys
  BY DEF Answers, Control, TypeOK, Request
<1> USE DEF At, stores
<1>1. CASE Cancel(p)
  <2>1. /\ Alone(p) /\ SameRequest(p) /\ req'[p].open = req[p].open
        /\ req'[p].pc = req[p].pc /\ req'[p].out = req[p].out
    BY <1>0, <1>1 DEF Cancel, Alone, SameRequest, TypeOK, Request
  <2> QED
    BY <1>1, <2>1, SameStage DEF Cancel, Stage
<1>2. CASE PutStage(p)
  BY <1>2, FinishFails, GotoUnseen DEF PutStage, Pending
<1>3. CASE PutCopy(p)
  BY <1>3, FinishFails, GotoUnseen DEF PutCopy, Pending
<1>4. CASE PutCopyFail(p)
  BY <1>4, FinishFails, GotoUnseen DEF PutCopyFail, Pending
<1>5. CASE PutFinalize(p)
  BY <1>5, FinishFails, GotoUnseen DEF PutFinalize, Pending
<1>6. CASE PutLock(p)
  BY <1>6, FinishFails, GotoUnseen DEF PutLock, Pending
<1>7. CASE PutRenameFail(p)
  BY <1>7, FinishFails, GotoUnseen DEF PutRenameFail, Pending
<1>8. CASE PutRename(p)
  <2>1. req[p].op = "put" /\ req[p].out = "none"
    BY <1>0, <1>8 DEF PutRename, Controlled, Answered, PutPCs
  <2>2. /\ Alone(p) /\ SameRequest(p)
        /\ req'[p].pc = "truncate" /\ req'[p].out = "none"
    BY <1>0, <2>1, <1>8 DEF PutRename, Alone, SameRequest, TypeOK, Request
  <2>3. Visible(req[p]) /\ Stage(req[p]) = "pending" /\ Stage(req'[p]) = "effective"
    BY <2>1, <2>2, <1>8 DEF PutRename, Visible, Stage
  <2> QED
    BY <1>8, <2>1, <2>2, <2>3, Writes DEF PutRename
<1>9. CASE PutUndo(p)
  <2>1. /\ req[p].op = "put" /\ req[p].out = "none"
        /\ file[req[p].key] \in {req[p].body, Absent}
    BY <1>0, <1>9 DEF PutUndo, Controlled, Answered, PutPCs
  <2>2. CASE Finish(p, "error")
    <3>1. Visible(req[p]) /\ Stage(req[p]) = "effective" /\ Stage(req'[p]) = "failed"
      BY <1>9, <2>1, <2>2, FinishSame DEF PutUndo, Visible, Stage
    <3>2. CASE file' = [file EXCEPT ![req[p].key] = Absent]
      BY <1>9, <2>1, <2>2, <3>1, <3>2, FinishSame, Erases DEF PutUndo
    <3>3. CASE UNCHANGED file
      BY <1>9, <2>1, <2>2, <3>1, <3>3, FinishSame, Keeps DEF PutUndo
    <3> QED
      BY <1>9, <2>2, <3>2, <3>3 DEF PutUndo, Finish
  <2>3. CASE Finish(p, "ok") /\ UNCHANGED file
    BY <1>9, <2>3, FinishUnseen DEF PutUndo, Pending
  <2> QED
    BY <1>9, <2>2, <2>3 DEF PutUndo
<1>10. CASE SaveTruncate(p)
  <2>1. UNCHANGED file /\ req[p].pc \in {"truncate", "write"}
    BY <1>10 DEF SaveTruncate
  <2>2. CASE Goto(p, "write") \/ Goto(p, "undo")
    BY <2>1, <2>2, GotoUnseen DEF Pending
  <2>3. CASE req[p].op # "put" /\ Finish(p, "error")
    <3>1. ~Visible(req[p])
      BY <1>0, <2>1, <2>3 DEF Answered, Visible, SavePCs
    <3> QED
      BY <2>1, <2>3, <3>1, FinishUnseen
  <2> QED
    BY <1>10, <2>2, <2>3 DEF SaveTruncate, SaveFailed
<1>11. CASE SaveFail(p)
  <2>1. UNCHANGED file /\ req[p].pc \in {"truncate", "write"}
    BY <1>11 DEF SaveFail
  <2>2. CASE Goto(p, "write") \/ Goto(p, "undo")
    BY <2>1, <2>2, GotoUnseen DEF Pending
  <2>3. CASE req[p].op # "put" /\ Finish(p, "error")
    <3>1. ~Visible(req[p])
      BY <1>0, <2>1, <2>3 DEF Answered, Visible, SavePCs
    <3> QED
      BY <2>1, <2>3, <3>1, FinishUnseen
  <2> QED
    BY <1>11, <2>2, <2>3 DEF SaveFail, SaveFailed
<1>12. CASE SaveWrite(p)
  BY <1>12, GotoUnseen DEF SaveWrite, Pending
<1>13. CASE SavePublish(p)
  BY <1>13, FinishUnseen DEF SavePublish, Pending
<1>14. CASE ReadStat(p)
  <2>1. req[p].op \notin {"put", "delete"} /\ req[p].out = "none"
    BY <1>0, <1>14 DEF ReadStat, Controlled, Answered, ReadPCs
  <2>2. CASE Finish(p, "error")
    BY <1>14, <2>2, FinishFails DEF ReadStat, Pending
  <2>3. CASE file[req[p].key] = Absent /\ Finish(p, "notfound")
    <3>1. /\ Alone(p) /\ SameRequest(p) /\ req'[p].open = req[p].open
          /\ Stage(req[p]) = "pending" /\ Stage(req'[p]) = "effective"
      BY <1>14, <2>1, <2>3, FinishSame DEF ReadStat, Stage
    <3>2. CASE req[p].op = "get"
      <4>1. req'[p].open = file[req[p].key] /\ Visible(req[p])
        BY <1>0, <1>14, <2>3, <3>1, <3>2 DEF ReadStat, Answered, Visible
      <4> QED
        BY <1>14, <3>1, <3>2, <4>1, Reads DEF ReadStat
    <3>3. CASE req[p].op # "get"
      BY <1>14, <2>1, <3>1, <3>3, SameStage DEF ReadStat, Visible
    <3> QED
      BY <3>2, <3>3
  <2>4. CASE req' = [req EXCEPT
                 ![p].size = file[req[p].key],
                 ![p].pc = IF req[p].op = "get" THEN "open" ELSE "lookup"]
    <3>1. /\ Alone(p) /\ SameRequest(p)
          /\ req'[p].open = req[p].open /\ req'[p].out = req[p].out
          /\ req[p].op = "get" => req'[p].pc = "open"
      BY <1>0, <1>14, <2>4 DEF ReadStat, Alone, SameRequest, TypeOK, Request
    <3>2. Visible(req[p]) => Stage(req'[p]) = Stage(req[p])
      BY <1>14, <2>1, <3>1 DEF ReadStat, Visible, Stage
    <3> QED
      BY <1>14, <3>1, <3>2, SameStage DEF ReadStat
  <2> QED
    BY <1>14, <2>2, <2>3, <2>4 DEF ReadStat
<1>15. CASE ReadOpen(p)
  <2>1. req[p].op \notin {"put", "delete"} /\ req[p].out = "none"
    BY <1>0, <1>15 DEF ReadOpen, Controlled, Answered, ReadPCs
  <2>2. CASE Finish(p, "error")
    BY <1>15, <2>2, FinishFails DEF ReadOpen, Pending
  <2>3. CASE req' = [req EXCEPT ![p].open = file[req[p].key], ![p].pc = "lookup"]
    <3>1. /\ Alone(p) /\ SameRequest(p) /\ req'[p].open = file[req[p].key]
          /\ Stage(req[p]) = "pending" /\ Stage(req'[p]) = "effective"
      BY <1>0, <1>15, <2>1, <2>3 DEF ReadOpen, Stage, Alone, SameRequest, TypeOK, Request
    <3>2. CASE req[p].op = "get"
      <4>1. Visible(req[p])
        BY <1>15, <3>2 DEF ReadOpen, Visible
      <4> QED
        BY <1>15, <3>1, <3>2, <4>1, Reads DEF ReadOpen
    <3>3. CASE req[p].op # "get"
      BY <1>15, <2>1, <3>1, <3>3, SameStage DEF ReadOpen, Visible
    <3> QED
      BY <3>2, <3>3
  <2> QED
    BY <1>15, <2>2, <2>3 DEF ReadOpen
<1>16. CASE ReadLookup(p)
  <2>1. req[p].op \notin {"put", "delete"} /\ req[p].out = "none"
    BY <1>0, <1>16 DEF ReadLookup, Controlled, Answered, ReadPCs
  <2>2. CASE MetaFailed(p, FALSE)
    <3>1. CASE Goto(p, "compute")
      BY <1>16, <3>1, GotoUnseen DEF ReadLookup, Pending
    <3>2. CASE req[p].op \in {"owner", "tag"} /\ \E out : Finish(p, out)
      BY <1>16, <3>2, FinishUnseen DEF ReadLookup, Visible
    <3> QED
      BY <2>2, <3>1, <3>2 DEF MetaFailed
  <2>3. CASE GotMeta(p, cache[req[p].key])
    <3>1. /\ Alone(p) /\ SameRequest(p) /\ req'[p].open = req[p].open
          /\ req[p].op # "tag" => req'[p].pc = "done" /\ req'[p].out = "ok"
      BY <1>0, <1>16, <2>1, <2>3 DEF ReadLookup, GotMeta, Alone, SameRequest, TypeOK, Request
    <3>2. Visible(req[p]) => Stage(req'[p]) = Stage(req[p])
      BY <1>16, <2>1, <3>1 DEF ReadLookup, Visible, Stage
    <3> QED
      BY <1>16, <3>1, <3>2, SameStage DEF ReadLookup
  <2>4. CASE Goto(p, "read")
    BY <1>16, <2>4, GotoUnseen DEF ReadLookup, Pending
  <2> QED
    BY <1>16, <2>2, <2>3, <2>4 DEF ReadLookup
<1>17. CASE ReadDisk(p)
  <2>1. req[p].op \notin {"put", "delete"} /\ req[p].out = "none"
    BY <1>0, <1>17 DEF ReadDisk, Controlled, Answered, ReadPCs
  <2>2. CASE MetaFailed(p, disk[req[p].key] = NoMeta)
    <3>1. CASE Goto(p, "compute")
      BY <1>17, <3>1, GotoUnseen DEF ReadDisk, Pending
    <3>2. CASE req[p].op \in {"owner", "tag"} /\ \E out : Finish(p, out)
      BY <1>17, <3>2, FinishUnseen DEF ReadDisk, Visible
    <3> QED
      BY <2>2, <3>1, <3>2 DEF MetaFailed
  <2>3. CASE req' = [req EXCEPT ![p].meta = disk[req[p].key], ![p].pc = "fill"]
    <3>1. /\ Alone(p) /\ SameRequest(p) /\ req'[p].open = req[p].open
          /\ req'[p].pc = "fill" /\ req'[p].out = req[p].out
      BY <1>0, <1>17, <2>3 DEF ReadDisk, Alone, SameRequest, TypeOK, Request
    <3> QED
      BY <1>17, <3>1, SameStage DEF ReadDisk, Stage
  <2> QED
    BY <1>17, <2>2, <2>3 DEF ReadDisk
<1>18. CASE ReadFill(p)
  <2>1. req[p].op \notin {"put", "delete"} /\ req[p].out = "none"
    BY <1>0, <1>18 DEF ReadFill, Controlled, Answered, ReadPCs
  <2>2. /\ Alone(p) /\ SameRequest(p) /\ req'[p].open = req[p].open
        /\ req[p].op # "tag" => req'[p].pc = "done" /\ req'[p].out = "ok"
    BY <1>0, <1>18 DEF ReadFill, GotMeta, Alone, SameRequest, TypeOK, Request
  <2>3. Visible(req[p]) => Stage(req'[p]) = Stage(req[p])
    BY <1>18, <2>1, <2>2 DEF ReadFill, Visible, Stage
  <2> QED
    BY <1>18, <2>2, <2>3, SameStage DEF ReadFill
<1>19. CASE ReadCompute(p)
  <2>1. req[p].op \notin {"put", "delete"} /\ req[p].out = "none"
    BY <1>0, <1>19 DEF ReadCompute, Controlled, Answered, ReadPCs
  <2>2. /\ Alone(p) /\ SameRequest(p) /\ req'[p].open = req[p].open
        /\ req[p].op # "tag" => req'[p].pc = "done" /\ req'[p].out = "ok"
    BY <1>0, <1>19 DEF ReadCompute, GotMeta, Alone, SameRequest, TypeOK, Request
  <2>3. Visible(req[p]) => Stage(req'[p]) = Stage(req[p])
    BY <1>19, <2>1, <2>2 DEF ReadCompute, Visible, Stage
  <2> QED
    BY <1>19, <2>2, <2>3, SameStage DEF ReadCompute
<1>20. CASE DeleteStat(p)
  <2>1. req[p].op = "delete" /\ req[p].out = "none"
    BY <1>0, <1>20 DEF DeleteStat, Answered, DeletePCs
  <2>2. CASE Finish(p, "error")
    BY <1>20, <2>2, FinishFails DEF DeleteStat, Pending
  <2>3. CASE file[req[p].key] = Absent /\ Finish(p, "ok")
    <3>1. file' = [file EXCEPT ![req[p].key] = Absent]
      BY <1>20, <2>3 DEF DeleteStat, TypeOK
    <3>2. Visible(req[p]) /\ Stage(req[p]) = "pending" /\ Stage(req'[p]) = "effective"
      BY <1>20, <2>1, <2>3, FinishSame DEF DeleteStat, Visible, Stage
    <3> QED
      BY <1>20, <2>1, <2>3, <3>1, <3>2, FinishSame, Removes DEF DeleteStat
  <2>4. CASE Goto(p, "remove")
    BY <1>20, <2>4, GotoUnseen DEF DeleteStat, Pending
  <2> QED
    BY <1>20, <2>2, <2>3, <2>4 DEF DeleteStat
<1>21. CASE DeleteRemove(p)
  <2>1. req[p].op = "delete" /\ req[p].out = "none"
    BY <1>0, <1>21 DEF DeleteRemove, Answered, DeletePCs
  <2>2. CASE Finish(p, "error") /\ UNCHANGED file
    BY <1>21, <2>2, FinishFails DEF DeleteRemove, Pending
  <2>3. CASE Goto(p, "dmeta") /\ file' = [file EXCEPT ![req[p].key] = Absent]
    <3>1. Visible(req[p]) /\ Stage(req[p]) = "pending" /\ Stage(req'[p]) = "effective"
      BY <1>21, <2>1, <2>3, GotoSame DEF DeleteRemove, Visible, Stage
    <3> QED
      BY <1>21, <2>1, <2>3, <3>1, GotoSame, Removes DEF DeleteRemove
  <2> QED
    BY <1>21, <2>2, <2>3 DEF DeleteRemove
<1>22. CASE DeleteMeta(p)
  BY <1>22, FinishUnseen, GotoUnseen DEF DeleteMeta, Pending
<1>23. CASE DeleteCache(p)
  BY <1>23, FinishUnseen DEF DeleteCache, Pending
<1>24. CASE TagMutate(p)
  <2>1. /\ Alone(p) /\ SameRequest(p) /\ req'[p].open = req[p].open
        /\ ~Visible(req[p])
    BY <1>0, <1>24 DEF TagMutate, Answered, Visible, Alone, SameRequest, TypeOK, Request
  <2> QED
    BY <1>24, <2>1, SameStage DEF TagMutate
<1> QED
  BY <1>1, <1>2, <1>3, <1>4, <1>5, <1>6, <1>7, <1>8, <1>9, <1>10, <1>11, <1>12, <1>13, <1>14, <1>15, <1>16, <1>17, <1>18, <1>19, <1>20, <1>21, <1>22, <1>23, <1>24
     DEF PutStep, SaveStep, ReadStep, DeleteStep

\* The arrival of a request, seen or not.
LEMMA BeginStep ==
    ASSUME TypeOK, NEW p \in Procs, Begin(p)
    PROVE  Unseen \/ Register!Invoke(p)
<1>0. PICK op \in Ops, k \in Keys, custom \in BOOLEAN :
        /\ op = "put" => puts < MaxPuts
        /\ req' = [req EXCEPT ![p] =
               [Idle EXCEPT !.pc = FirstPC(op), !.op = op, !.key = k,
                            !.custom = custom,
                            !.body = IF op = "put" THEN puts + 1 ELSE Absent]]
  BY DEF Begin
<1> DEFINE b == IF op = "put" THEN puts + 1 ELSE Absent
<1>1. /\ Alone(p) /\ req'[p].pc = FirstPC(op) /\ req'[p].op = op /\ req'[p].key = k
      /\ req'[p].body = b /\ req'[p].out = "none" /\ req'[p].open = Absent
  BY <1>0 DEF Alone, Idle, TypeOK, Request
<1>2. UNCHANGED file /\ req[p].pc = "idle"
  BY DEF Begin, At
<1>3. b \in Bodies \cup {Absent} /\ (b # Absent <=> op = "put")
  <2>1. puts \in Nat /\ (op = "put" => puts + 1 \in 1..MaxPuts)
    BY <1>0, MaxPutsAssumption DEF TypeOK
  <2>2. CASE op = "put"
    <3>1. b = puts + 1
      BY <2>2
    <3>2. puts + 1 # 0 /\ puts + 1 \in 1..MaxPuts
      BY <2>1, <2>2
    <3> QED
      BY <2>2, <3>1, <3>2 DEF Bodies, Absent
  <2>3. CASE op # "put"
    BY <2>3
  <2> QED
    BY <2>2, <2>3
<1> HIDE DEF b
<1>4. View[p] = [st |-> "idle"]
  BY <1>2 DEF View, ClientView, Visible
<1>5. CASE op \in {"put", "get", "delete"}
  <2>1. FirstPC(op) \in {"stage", "stat", "dstat"}
    BY <1>5 DEF FirstPC
  <2>2. Visible(req'[p]) /\ Stage(req'[p]) = "pending"
    BY <1>1, <1>5, <2>1 DEF Visible, Stage
  <2>3. (IF op = "get" THEN Absent ELSE b) = b
    BY <1>3
  <2>4. ClientView(req'[p]) = [st |-> "pending", op |-> op, key |-> k, body |-> b]
    BY <1>1, <2>2, <2>3 DEF ClientView
  <2>5. View' = [View EXCEPT ![p] = [st |-> "pending", op |-> op, key |-> k, body |-> b]]
    BY <1>1, <2>4, ViewStep
  <2> QED
    BY <1>2, <1>3, <1>4, <1>5, <2>5 DEF Register!Invoke, Register!NoRequest, View
<1>6. CASE op \notin {"put", "get", "delete"}
  <2>1. ClientView(req'[p]) = [st |-> "idle"]
    BY <1>1, <1>6 DEF ClientView, Visible
  <2> QED
    BY <1>1, <1>2, <1>4, <2>1, ViewStep DEF Unseen, View
<1> QED
  BY <1>5, <1>6

\* A response, seen or not.
LEMMA ReplyStep ==
    ASSUME TypeOK, NEW p \in Procs, Reply(p)
    PROVE  Unseen \/ Register!Return(p)
<1>1. Alone(p) /\ req'[p] = Idle /\ UNCHANGED file /\ req[p].pc = "done"
  BY DEF Reply, At, Alone, stores, TypeOK
<1>2. ClientView(req'[p]) = [st |-> "idle"]
  BY <1>1 DEF ClientView, Visible, Idle
<1>3. View' = [View EXCEPT ![p] = [st |-> "idle"]]
  BY <1>1, <1>2, ViewStep
<1>4. CASE Visible(req[p])
  <2>1. View[p].st \in {"effective", "failed"}
    BY <1>1, <1>4, ViewFields DEF Stage
  <2> QED
    BY <1>1, <1>3, <2>1 DEF Register!Return, Register!NoRequest, View
<1>5. CASE ~Visible(req[p])
  <2>1. View[p] = [st |-> "idle"]
    BY <1>5 DEF View, ClientView
  <2> QED
    BY <1>1, <1>3, <2>1 DEF Unseen, View
<1> QED
  BY <1>4, <1>5

\* Every step is a step of the register, or one that no client sees.
LEMMA RegisterStep ==
    TypeOK /\ Control /\ Answers /\ [Next]_vars => [Register!Next]_(Register!vars)
<1> SUFFICES ASSUME TypeOK, Control, Answers, [Next]_vars
             PROVE  Register!Next \/ Unseen
  BY DEF Register!vars, Unseen, View
<1>1. ASSUME NEW p \in Procs,
             \/ Cancel(p) \/ PutStep(p) \/ SaveStep(p) \/ ReadStep(p)
             \/ DeleteStep(p) \/ TagMutate(p)
      PROVE  Register!Next \/ Unseen
  BY <1>1, RequestStep DEF Register!Next
<1>2. ASSUME NEW p \in Procs, Begin(p) PROVE Register!Next \/ Unseen
  BY <1>2, BeginStep DEF Register!Next
<1>3. ASSUME NEW p \in Procs, Reply(p) PROVE Register!Next \/ Unseen
  BY <1>3, ReplyStep DEF Register!Next
<1>4. CASE UNCHANGED <<file, req>>
  BY <1>4 DEF Unseen, View
<1>5. CASE Crash
  <2>1. View' = [p \in Procs |-> [st |-> "idle"]]
    BY <1>5 DEF Crash, View, ClientView, Visible, Idle
  <2> QED
    BY <1>5, <2>1 DEF Crash, Register!Next, Register!Crash, Register!NoRequest, View
<1>6. ASSUME NEW k \in Keys, Evict(k) PROVE UNCHANGED <<file, req>>
  BY <1>6 DEF Evict
<1>7. Start \/ UNCHANGED vars => UNCHANGED <<file, req>>
  BY DEF Start, vars
<1> QED
  BY <1>1, <1>2, <1>3, <1>4, <1>5, <1>6, <1>7 DEF Next

\* The bytes of an object are a linearizable register: whatever the
\* interleaving, cancellations, write failures and crashes, each PUT, GET and
\* DELETE that succeeds takes effect once, at one instant while it is served.
THEOREM ObjectsAreRegisters == Spec => Linearizable
<1>1. Init => Register!Init
  BY DEF Init, Register!Init, Register!NoRequest, ClientView, Visible, Idle
<1>2. Init => CommitExclusive
  BY FreeAssumption DEF Init, CommitExclusive, InCommit, Idle
<1>3. Init => Answers
  <2> SUFFICES ASSUME Init, NEW p \in Procs PROVE Answered(p)
    BY DEF Answers
  <2>1. /\ req[p].pc = "idle" /\ req[p].op = "get" /\ req[p].out = "none"
    BY DEF Init, Idle
  <2> QED
    BY <2>1 DEF Answered, ReadPCs, SavePCs, DeletePCs
<1> QED
  BY <1>1, <1>2, <1>3, TypeInit, TypeStep, LockStep, AnswersStep, RegisterStep, PTL
     DEF Spec, Linearizable, Register!Spec

=============================================================================
