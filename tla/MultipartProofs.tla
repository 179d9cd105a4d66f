-------------------------- MODULE MultipartProofs --------------------------
(***************************************************************************)
(* Theorems about Multipart for every set of goroutines, every number of   *)
(* parts and bodies, and every choice of the operations and fault flags.   *)
(*                                                                         *)
(* Life, the invariant behind LateRequestsFail, says why upload.json never *)
(* comes back: only Create writes it, once, before any request knows the   *)
(* upload, and a cleanup that does not have it on its list found it gone.  *)
(*                                                                         *)
(* Settling, the invariant behind SettledPartsStored, follows the body of  *)
(* an UploadPart that works alone on its part into both files, and from    *)
(* there into what a Complete assembles.                                   *)
(***************************************************************************)
EXTENDS Multipart, TLAPS

FilePCs == {"copy", "jwrite"}

-----------------------------------------------------------------------------
(* Type correctness *)

\* The idle request is a request.
LEMMA IdleType == Idle \in Request
  BY DEF Idle, Request, PCs, AllOps, Outcomes, Contents, Bodies, Absent

\* A goroutine without an open part file replaces its request.
LEMMA QuietOK ==
    ASSUME TypeOK, NEW p \in Procs, NEW r \in Request,
           req' = [req EXCEPT ![p] = r],
           req[p].pc \notin FilePCs,
           puts' \in 0..MaxPuts, object' \in [Parts -> Contents], ended' \in BOOLEAN,
           UNCHANGED <<created, files, settled>>
    PROVE  TypeOK'
<1>1. req' \in [Procs -> Request]
  BY DEF TypeOK
<1>2. \A q \in (linked \cup overlap)' : req'[q].pc \in {"copy", "jwrite"}
  BY DEF TypeOK, files, FilePCs
<1> QED
  BY <1>1, <1>2 DEF TypeOK, files

\* Answering, or moving on, keeps a request well formed.
LEMMA FinishType ==
    ASSUME TypeOK, NEW p \in Procs, NEW out \in Outcomes
    PROVE  [req[p] EXCEPT !.pc = "done", !.out = out] \in Request
<1>1. req[p] \in Request
  BY DEF TypeOK
<1>2. "done" \in PCs
  BY DEF PCs
<1> QED
  BY <1>1, <1>2 DEF Request

LEMMA GotoType ==
    ASSUME TypeOK, NEW p \in Procs, NEW pc \in PCs
    PROVE  [req[p] EXCEPT !.pc = pc] \in Request
  BY DEF TypeOK, Request

LEMMA FinishOK ==
    ASSUME TypeOK, NEW p \in Procs, NEW out \in Outcomes, Finish(p, out),
           req[p].pc \notin FilePCs, ended' \in BOOLEAN,
           UNCHANGED <<created, files, object, puts, settled>>
    PROVE  TypeOK'
<1>1. req' = [req EXCEPT ![p] = [req[p] EXCEPT !.pc = "done", !.out = out]]
  BY DEF Finish
<1>2. puts' \in 0..MaxPuts /\ object' \in [Parts -> Contents]
  BY DEF TypeOK
<1> QED
  BY <1>1, <1>2, FinishType, QuietOK

LEMMA GotoOK ==
    ASSUME TypeOK, NEW p \in Procs, NEW pc \in PCs, Goto(p, pc),
           req[p].pc \notin FilePCs,
           object' \in [Parts -> Contents],
           UNCHANGED <<created, files, puts, history>>
    PROVE  TypeOK'
<1>1. req' = [req EXCEPT ![p] = [req[p] EXCEPT !.pc = pc]]
  BY DEF Goto
<1>2. puts' \in 0..MaxPuts /\ ended' \in BOOLEAN /\ settled' = settled
  BY DEF TypeOK, history
<1> QED
  BY <1>1, <1>2, GotoType, QuietOK

\* Opening a part file: the goroutine goes to the program point where it has
\* the file open.
LEMMA OpenedOK ==
    ASSUME TypeOK, NEW p \in Procs, NEW pc \in FilePCs, Opened(p, pc)
    PROVE  /\ (linked \cup overlap)' \subseteq linked \cup overlap \cup {p}
           /\ linked' \subseteq Procs /\ overlap' \subseteq Procs
  BY DEF TypeOK, Opened

\* Closing it: whatever the goroutine does next, nobody else is affected.
LEMMA ClosedOK ==
    ASSUME TypeOK, NEW p \in Procs, Closed(p),
           NEW r \in Request, req' = [req EXCEPT ![p] = r]
    PROVE  /\ req' \in [Procs -> Request]
           /\ linked' \subseteq Procs /\ overlap' \subseteq Procs
           /\ \A q \in (linked \cup overlap)' : req'[q].pc \in {"copy", "jwrite"}
  BY DEF TypeOK, Closed

LEMMA InitType == Init => TypeOK
<1> SUFFICES ASSUME Init PROVE TypeOK
  OBVIOUS
<1>1. req \in [Procs -> Request]
  BY IdleType DEF Init
<1>2. 0 \in 0..MaxPuts
  BY MaxPutsAssumption
<1> QED
  BY <1>1, <1>2 DEF Init, TypeOK, Contents, NoObject, Torn, Absent

-----------------------------------------------------------------------------
(* The steps of UploadPart *)

LEMMA PartCreateType ==
    ASSUME TypeOK, NEW p \in Procs, PartCreate(p) PROVE TypeOK'
<1> DEFINE others == Uploading(p, req[p].part)
           f(q) == IF q = p THEN [req[p] EXCEPT !.pc = "copy", !.alone = (others = {})]
                   ELSE [req[q] EXCEPT !.alone = @ /\ q \notin others,
                                       !.sure = @ \ {req[p].part}]
<1>1. req' = [q \in Procs |-> f(q)]
  BY DEF PartCreate
<1>2. \A q \in Procs : f(q) \in Request
  <2> TAKE q \in Procs
  <2>1. req[q] \in Request /\ (others = {}) \in BOOLEAN /\ (q \notin others) \in BOOLEAN
    BY DEF TypeOK
  <2>2. CASE q = p
    BY <2>1, <2>2 DEF Request, PCs
  <2>3. CASE q # p
    BY <2>1, <2>3 DEF Request
  <2> QED
    BY <2>2, <2>3
<1>3. req' \in [Procs -> Request]
  BY <1>1, <1>2
<1>4. \A q \in Procs \ {p} : req'[q].pc = req[q].pc
  <2> TAKE q \in Procs \ {p}
  <2>1. req[q] \in Request
    BY DEF TypeOK
  <2> HIDE DEF others
  <2> QED
    BY <1>1, <2>1 DEF Request
<1>5. req'[p].pc = "copy"
  <2>1. req[p] \in Request
    BY DEF TypeOK
  <2> QED
    BY <1>1, <2>1 DEF Request
<1>6. /\ (linked \cup overlap)' \subseteq linked \cup overlap \cup {p}
      /\ linked' \subseteq Procs /\ overlap' \subseteq Procs
  BY OpenedOK DEF PartCreate, FilePCs
<1>7. \A q \in (linked \cup overlap)' : req'[q].pc \in {"copy", "jwrite"}
  BY <1>4, <1>5, <1>6 DEF TypeOK
<1>8. data' \in [Parts -> Contents] /\ settled' \in [Parts -> Bodies \cup {Absent}]
  BY DEF PartCreate, TypeOK, Contents
<1> QED
  BY <1>3, <1>6, <1>7, <1>8 DEF PartCreate, TypeOK

LEMMA PartCopyType ==
    ASSUME TypeOK, NEW p \in Procs, PartCopy(p) PROVE TypeOK'
<1>1. req[p] \in Request
  BY DEF TypeOK
<1>2. data' \in [Parts -> Contents]
  BY <1>1 DEF PartCopy, TypeOK, Request, Contents
<1>3. req' = [req EXCEPT ![p] = [req[p] EXCEPT !.pc = "jcreate"]] /\ Closed(p)
  BY DEF PartCopy, Goto
<1>4. [req[p] EXCEPT !.pc = "jcreate"] \in Request
  BY GotoType DEF PCs
<1> QED
  BY <1>2, <1>3, <1>4, ClosedOK DEF PartCopy, TypeOK, history

LEMMA PartCopyFailType ==
    ASSUME TypeOK, NEW p \in Procs, PartCopyFail(p) PROVE TypeOK'
<1>1. data' \in [Parts -> Contents]
  BY DEF PartCopyFail, TypeOK, Contents
<1>2. req' = [req EXCEPT ![p] = [req[p] EXCEPT !.pc = "done", !.out = "error"]] /\ Closed(p)
  BY DEF PartCopyFail, Finish
<1>3. [req[p] EXCEPT !.pc = "done", !.out = "error"] \in Request
  BY FinishType DEF Outcomes
<1> QED
  BY <1>1, <1>2, <1>3, ClosedOK DEF PartCopyFail, TypeOK, history

LEMMA PartDescribeType ==
    ASSUME TypeOK, NEW p \in Procs, PartDescribe(p) PROVE TypeOK'
<1>1. req' = [req EXCEPT ![p] = [req[p] EXCEPT !.pc = "jwrite"]]
  BY DEF PartDescribe, Goto
<1>2. [req[p] EXCEPT !.pc = "jwrite"] \in Request
  BY GotoType DEF PCs
<1>3. req' \in [Procs -> Request] /\ req'[p].pc = "jwrite"
  BY <1>1, <1>2 DEF TypeOK, Request
<1>4. /\ (linked \cup overlap)' \subseteq linked \cup overlap \cup {p}
      /\ linked' \subseteq Procs /\ overlap' \subseteq Procs
  BY OpenedOK DEF PartDescribe, FilePCs
<1>5. \A q \in (linked \cup overlap)' : req'[q].pc \in {"copy", "jwrite"}
  BY <1>1, <1>3, <1>4 DEF TypeOK
<1>6. etag' \in [Parts -> Contents]
  BY DEF PartDescribe, TypeOK, Contents
<1> QED
  BY <1>3, <1>4, <1>5, <1>6 DEF PartDescribe, TypeOK, history

LEMMA PartDescribedType ==
    ASSUME TypeOK, NEW p \in Procs, PartDescribed(p) PROVE TypeOK'
<1>1. req[p] \in Request
  BY DEF TypeOK
<1>2. etag' \in [Parts -> Contents]
  BY <1>1 DEF PartDescribed, TypeOK, Request, Contents
<1>3. settled' \in [Parts -> Bodies \cup {Absent}]
  BY <1>1 DEF PartDescribed, TypeOK, Request
<1>4. req' = [req EXCEPT ![p] = [req[p] EXCEPT !.pc = "done", !.out = "ok"]] /\ Closed(p)
  BY DEF PartDescribed, Finish
<1>5. [req[p] EXCEPT !.pc = "done", !.out = "ok"] \in Request
  BY FinishType DEF Outcomes
<1> QED
  BY <1>2, <1>3, <1>4, <1>5, ClosedOK DEF PartDescribed, TypeOK

LEMMA PartDescribeFailType ==
    ASSUME TypeOK, NEW p \in Procs, PartDescribeFail(p) PROVE TypeOK'
<1>1. req' = [req EXCEPT ![p] = [req[p] EXCEPT !.pc = "done", !.out = "error"]] /\ Closed(p)
  BY DEF PartDescribeFail, Finish
<1>2. [req[p] EXCEPT !.pc = "done", !.out = "error"] \in Request
  BY FinishType DEF Outcomes
<1> QED
  BY <1>1, <1>2, ClosedOK DEF PartDescribeFail, TypeOK, history

LEMMA PartStepType ==
    ASSUME TypeOK, NEW p \in Procs, PartStep(p) PROVE TypeOK'
  BY PartCreateType, PartCopyType, PartCopyFailType, PartDescribeType,
     PartDescribedType, PartDescribeFailType DEF PartStep

-----------------------------------------------------------------------------
(* The steps of a Complete, up to its cleanup *)

LEMMA VerifyPartType ==
    ASSUME TypeOK, NEW p \in Procs, VerifyPart(p) PROVE TypeOK'
<1>1. req[p].pc \notin FilePCs
  BY DEF VerifyPart, At, FilePCs
<1>2. ended' \in BOOLEAN /\ puts' \in 0..MaxPuts /\ object' \in [Parts -> Contents]
  BY DEF VerifyPart, TypeOK, history
<1>3. CASE Finish(p, "notfound") \/ Finish(p, "error")
  BY <1>1, <1>2, <1>3, FinishOK DEF VerifyPart, Outcomes, history
<1>4. ASSUME NEW n \in Parts, req' = [req EXCEPT ![p].left = @ \ {n}]
      PROVE  TypeOK'
  <2> DEFINE r == [req[p] EXCEPT !.left = @ \ {n}]
  <2>1. r \in Request
    BY DEF TypeOK, Request
  <2>2. req' = [req EXCEPT ![p] = r]
    BY <1>4
  <2> HIDE DEF r
  <2> QED
    BY <1>1, <1>2, <2>1, <2>2, QuietOK DEF VerifyPart, history
<1> QED
  BY <1>3, <1>4 DEF VerifyPart

LEMMA VerifiedType ==
    ASSUME TypeOK, NEW p \in Procs, Verified(p) PROVE TypeOK'
<1> DEFINE r == [req[p] EXCEPT !.pc = "read", !.left = Named(p)]
<1>1. r \in Request
  <2>1. req[p] \in Request /\ "read" \in PCs /\ Named(p) \subseteq Parts
    BY DEF TypeOK, PCs, Named
  <2> QED
    BY <2>1 DEF Request
<1>2. req' = [req EXCEPT ![p] = r]
  BY DEF Verified
<1>3. req[p].pc \notin FilePCs
  BY DEF Verified, At, FilePCs
<1>4. ended' \in BOOLEAN /\ puts' \in 0..MaxPuts /\ object' \in [Parts -> Contents]
  BY DEF Verified, TypeOK, history
<1> HIDE DEF r
<1> QED
  BY <1>1, <1>2, <1>3, <1>4, QuietOK DEF Verified, history

LEMMA ReadPartType ==
    ASSUME TypeOK, NEW p \in Procs, ReadPart(p) PROVE TypeOK'
<1>1. req[p].pc \notin FilePCs
  BY DEF ReadPart, At, FilePCs
<1>2. ended' \in BOOLEAN /\ puts' \in 0..MaxPuts /\ object' \in [Parts -> Contents]
  BY DEF ReadPart, TypeOK, history
<1>3. CASE Finish(p, "error")
  BY <1>1, <1>2, <1>3, FinishOK DEF ReadPart, Outcomes, history
<1>4. ASSUME NEW n \in Parts,
             req' = [req EXCEPT ![p].left = @ \ {n}, ![p].got[n] = data[n]]
      PROVE  TypeOK'
  <2> DEFINE r == [req[p] EXCEPT !.left = @ \ {n}, !.got = [@ EXCEPT ![n] = data[n]]]
  <2>1. req[p] \in Request /\ data[n] \in Contents
    BY DEF TypeOK
  <2>2. [req[p].got EXCEPT ![n] = data[n]] \in [Parts -> Contents]
    BY <2>1 DEF Request
  <2>3. r \in Request
    BY <2>1, <2>2 DEF Request
  <2>4. req' = [req EXCEPT ![p] = r]
    BY <1>4, <2>1 DEF TypeOK, Request
  <2> HIDE DEF r
  <2> QED
    BY <1>1, <1>2, <2>3, <2>4, QuietOK DEF ReadPart, history
<1> QED
  BY <1>3, <1>4 DEF ReadPart

LEMMA StoreType ==
    ASSUME TypeOK, NEW p \in Procs, Store(p) PROVE TypeOK'
<1>1. object' \in [Parts -> Contents]
  BY DEF Store, TypeOK, Request
<1>2. req[p].pc \notin FilePCs
  BY DEF Store, At, FilePCs
<1> QED
  BY <1>1, <1>2, GotoOK DEF Store, PCs, history

LEMMA CompleteStepType ==
    ASSUME TypeOK, NEW p \in Procs, CompleteStep(p) PROVE TypeOK'
<1>1. object \in [Parts -> Contents] /\ ended \in BOOLEAN
  BY DEF TypeOK
<1>2. CASE CompleteOpen(p)
  BY <1>1, <1>2, FinishOK, GotoOK
     DEF CompleteOpen, At, FilePCs, PCs, Outcomes, history
<1>3. CASE Assembled(p)
  BY <1>1, <1>3, GotoOK DEF Assembled, At, FilePCs, PCs, history
<1>4. CASE StoreFail(p)
  BY <1>1, <1>4, FinishOK DEF StoreFail, At, FilePCs, Outcomes, history
<1> QED
  BY <1>2, <1>3, <1>4, VerifyPartType, VerifiedType, ReadPartType, StoreType
     DEF CompleteStep

-----------------------------------------------------------------------------
(* The steps of a cleanup *)

LEMMA CleanupListType ==
    ASSUME TypeOK, NEW p \in Procs, CleanupList(p) \/ CleanupListParts(p)
    PROVE  TypeOK'
<1>1. req[p] \in Request /\ Present \subseteq Files
  BY DEF TypeOK, Present
<1>2. PICK pc \in PCs, todo \in SUBSET (Files \cup {PartsDir}) :
          req' = [req EXCEPT ![p] = [req[p] EXCEPT !.pc = pc, !.todo = todo]]
  <2>1. CASE CleanupList(p)
    <3> DEFINE todo == (Present \ PartFiles) \cup
                          (IF Present \subseteq {UploadFile} THEN {} ELSE {PartsDir})
    <3>1. todo \in SUBSET (Files \cup {PartsDir}) /\ "remove" \in PCs
      BY <1>1 DEF PCs
    <3>2. req' = [req EXCEPT ![p] = [req[p] EXCEPT !.pc = "remove", !.todo = todo]]
      BY <2>1 DEF CleanupList
    <3> HIDE DEF todo
    <3> QED
      BY <3>1, <3>2
  <2>2. CASE CleanupListParts(p)
    <3> DEFINE todo == (req[p].todo \ {PartsDir}) \cup (Present \cap PartFiles)
    <3>1. todo \in SUBSET (Files \cup {PartsDir})
      BY <1>1 DEF Request
    <3>2. req' = [req EXCEPT ![p] = [req[p] EXCEPT !.todo = todo]]
      BY <2>2 DEF CleanupListParts
    <3>3. [req[p] EXCEPT !.todo = todo]
             = [req[p] EXCEPT !.pc = req[p].pc, !.todo = todo]
      BY <1>1 DEF Request
    <3>4. req[p].pc \in PCs
      BY <1>1 DEF Request
    <3> HIDE DEF todo
    <3> QED
      BY <3>1, <3>2, <3>3, <3>4
  <2> QED
    BY <2>1, <2>2
<1>3. [req[p] EXCEPT !.pc = pc, !.todo = todo] \in Request
  BY <1>1 DEF Request
<1>4. req[p].pc \notin FilePCs
  BY DEF CleanupList, CleanupListParts, At, FilePCs
<1>5. object \in [Parts -> Contents] /\ ended \in BOOLEAN /\ puts \in 0..MaxPuts
  BY DEF TypeOK
<1> QED
  BY <1>2, <1>3, <1>4, <1>5, QuietOK DEF CleanupList, CleanupListParts, history

LEMMA CleanupRemoveType ==
    ASSUME TypeOK, NEW p \in Procs, CleanupRemove(p) PROVE TypeOK'
<1> PICK f \in req[p].todo \cap Files :
        /\ req' = [req EXCEPT ![p].todo = @ \ {f}]
        /\ live' = (live /\ f # UploadFile)
        /\ data' = IF f[2] = "data" THEN [data EXCEPT ![f[1]] = Absent] ELSE data
        /\ etag' = IF f[2] = "json" THEN [etag EXCEPT ![f[1]] = Absent] ELSE etag
        /\ linked' \subseteq linked
  BY DEF CleanupRemove
<1>1. data' \in [Parts -> Contents] /\ etag' \in [Parts -> Contents]
  BY DEF TypeOK, Contents
<1>2. req' \in [Procs -> Request] /\ \A q \in Procs : req'[q].pc = req[q].pc
  <2>1. req[p] \in Request
    BY DEF TypeOK
  <2>2. [req[p] EXCEPT !.todo = @ \ {f}] \in Request
    BY <2>1 DEF Request
  <2>3. [req[p] EXCEPT !.todo = @ \ {f}].pc = req[p].pc
    BY <2>1 DEF Request
  <2>4. req' = [req EXCEPT ![p] = [req[p] EXCEPT !.todo = @ \ {f}]]
    OBVIOUS
  <2> QED
    BY <2>2, <2>3, <2>4 DEF TypeOK
<1>3. live' \in BOOLEAN
  OBVIOUS
<1> QED
  BY <1>1, <1>2, <1>3 DEF CleanupRemove, TypeOK, history

LEMMA CleanupStepType ==
    ASSUME TypeOK, NEW p \in Procs, CleanupStep(p) PROVE TypeOK'
<1>1. CASE CleanupEnd(p)
  <2>1. PICK out \in Outcomes : Finish(p, out) /\ ended' \in BOOLEAN
    BY <1>1 DEF CleanupEnd, TypeOK, Outcomes
  <2> QED
    BY <1>1, <2>1, FinishOK DEF CleanupEnd, At, FilePCs
<1>2. CASE CleanupFail(p)
  <2>1. PICK out \in Outcomes : Finish(p, out)
    BY <1>2 DEF CleanupFail, Outcomes
  <2>2. object \in [Parts -> Contents] /\ ended \in BOOLEAN
    BY DEF TypeOK
  <2> QED
    BY <1>2, <2>1, <2>2, FinishOK DEF CleanupFail, At, FilePCs, history
<1> QED
  BY <1>1, <1>2, CleanupListType, CleanupRemoveType DEF CleanupStep

-----------------------------------------------------------------------------
(* Every step *)

LEMMA CreateType == ASSUME TypeOK, Create PROVE TypeOK'
  BY DEF TypeOK, Create, history

LEMMA BeginType ==
    ASSUME TypeOK, NEW p \in Procs, Begin(p) PROVE TypeOK'
<1>1. req[p].pc \notin FilePCs
  BY DEF Begin, At, FilePCs
<1>2. PICK r \in Request : req' = [req EXCEPT ![p] = r]
  <2>1. ended \in BOOLEAN /\ puts \in 0..MaxPuts /\ Idle \in Request
    BY IdleType DEF TypeOK
  <2>2. ASSUME NEW n \in Parts, puts < MaxPuts
        PROVE  [Idle EXCEPT !.pc = "check", !.op = "part", !.part = n,
                            !.body = puts + 1, !.late = ended] \in Request
    <3>1. puts + 1 \in Bodies
      BY <2>1, <2>2, MaxPutsAssumption DEF Bodies
    <3> QED
      BY <2>1, <2>2, <3>1 DEF Request, PCs, AllOps
  <2>3. ASSUME NEW named \in [Parts -> 0..puts]
        PROVE  [Idle EXCEPT !.pc = "open", !.op = "complete", !.named = named,
                            !.left = {n \in Parts : named[n] # Absent},
                            !.sure = {n \in Parts : settled[n] # Absent},
                            !.late = ended] \in Request
    <3>1. 0..puts \subseteq Bodies \cup {Absent}
      BY <2>1, MaxPutsAssumption DEF Bodies, Absent
    <3>2. named \in [Parts -> Bodies \cup {Absent}]
      BY <3>1
    <3> QED
      BY <2>1, <3>2 DEF Request, PCs, AllOps
  <2>4. [Idle EXCEPT !.pc = "check", !.late = ended] \in Request
    BY <2>1 DEF Request, PCs
  <2> QED
    BY <2>2, <2>3, <2>4 DEF Begin
<1>3. puts' \in 0..MaxPuts
  <2>1. puts' = puts \/ (puts < MaxPuts /\ puts' = puts + 1)
    BY DEF Begin
  <2>2. puts \in 0..MaxPuts
    BY DEF TypeOK
  <2> QED
    BY <2>1, <2>2, MaxPutsAssumption
<1>4. object \in [Parts -> Contents] /\ ended \in BOOLEAN
  BY DEF TypeOK
<1> QED
  BY <1>1, <1>2, <1>3, <1>4, QuietOK DEF Begin, history

LEMMA ReplyType ==
    ASSUME TypeOK, NEW p \in Procs, Reply(p) PROVE TypeOK'
<1>1. req[p].pc \notin FilePCs
  BY DEF Reply, At, FilePCs
<1>2. object \in [Parts -> Contents] /\ ended \in BOOLEAN /\ puts \in 0..MaxPuts
  BY DEF TypeOK
<1> QED
  BY <1>1, <1>2, IdleType, QuietOK DEF Reply, history

LEMMA CheckType ==
    ASSUME TypeOK, NEW p \in Procs, Check(p) PROVE TypeOK'
<1>1. req[p].pc \notin FilePCs
  BY DEF Check, At, FilePCs
<1>2. object \in [Parts -> Contents] /\ ended \in BOOLEAN
  BY DEF TypeOK
<1>3. CASE Finish(p, "notfound")
  BY <1>1, <1>2, <1>3, FinishOK DEF Check, Outcomes, history
<1>4. CASE Goto(p, IF req[p].op = "part" THEN "create" ELSE "list")
  BY <1>1, <1>2, <1>4, GotoOK DEF Check, PCs
<1> QED
  BY <1>3, <1>4 DEF Check

LEMMA RestartType == ASSUME TypeOK, Restart PROVE TypeOK'
<1>1. req' \in [Procs -> Request]
  BY IdleType DEF Restart
<1> QED
  BY <1>1 DEF Restart, TypeOK, Contents

LEMMA NextType == TypeOK /\ [Next]_vars => TypeOK'
<1> SUFFICES ASSUME TypeOK, [Next]_vars PROVE TypeOK'
  OBVIOUS
<1>1. CASE Next
  BY <1>1, CreateType, BeginType, ReplyType, CheckType, PartStepType,
     CompleteStepType, CleanupStepType, RestartType DEF Next
<1>2. CASE UNCHANGED vars
  BY <1>2 DEF TypeOK, vars, files, history
<1> QED
  BY <1>1, <1>2

\* Every variable has its type in every reachable state, and a request that is
\* over has no part file open.
THEOREM TypeCorrect == Spec => []TypeOK
<1> QED
  BY InitType, NextType, PTL DEF Spec

-----------------------------------------------------------------------------
(* The life of an upload *)

\* upload.json is there only between Create and the end; a cleanup that does
\* not have it on its list found it gone, or has removed it.
Life ==
    /\ ended => created /\ ~live
    /\ \A p \in Procs : req[p].pc # "idle" => created
    /\ \A p \in Procs :
         req[p].pc = "remove" /\ UploadFile \notin req[p].todo => ~live
    /\ \A p \in Procs :
         req[p].late => /\ ended
                        /\ \/ req[p].pc \in {"check", "open"}
                           \/ req[p].pc = "done" /\ req[p].out = "notfound"

\* What Life asks of a request.
Lives(r) ==
    /\ r.pc # "idle" => created
    /\ r.pc = "remove" /\ UploadFile \notin r.todo => ~live
    /\ r.late => /\ ended
                 /\ \/ r.pc \in {"check", "open"}
                    \/ r.pc = "done" /\ r.out = "notfound"

\* A goroutine takes a step that leaves upload.json alone; the others keep
\* what Life asks of them.
LEMMA LifeKept ==
    ASSUME TypeOK, Life, NEW p \in Procs,
           req' \in [Procs -> Request],
           \A q \in Procs \ {p} :
              /\ req'[q].pc = req[q].pc /\ req'[q].todo = req[q].todo
              /\ req'[q].late = req[q].late /\ req'[q].out = req[q].out,
           Lives(req'[p]),
           created' = created, live' = live, ended' = ended
    PROVE  Life'
  BY DEF Life, Lives

\* Its request is replaced.
LEMMA LifeOK ==
    ASSUME TypeOK, TypeOK', Life, NEW p \in Procs, NEW r, Lives(r),
           req' = [req EXCEPT ![p] = r],
           created' = created, live' = live, ended' = ended
    PROVE  Life'
<1>1. req' \in [Procs -> Request] /\ req'[p] = r
  BY DEF TypeOK
<1>2. \A q \in Procs \ {p} : req'[q] = req[q]
  BY DEF TypeOK
<1> QED
  BY <1>1, <1>2, LifeKept

\* Its request goes on; the request is not a late one, for it is past the
\* check with which a late one ends.
LEMMA LifeGoto ==
    ASSUME TypeOK, TypeOK', Life, NEW p \in Procs, NEW pc, Goto(p, pc),
           pc # "remove",
           req[p].pc \notin {"idle", "done"},
           req[p].late => pc = "open" \/ req[p].pc \notin {"check", "open"},
           created' = created, live' = live, ended' = ended
    PROVE  Life'
<1>1. req[p] \in Request /\ Lives(req[p])
  BY DEF TypeOK, Life, Lives
<1>2. Lives([req[p] EXCEPT !.pc = pc])
  BY <1>1 DEF Lives, Request
<1>3. req' = [req EXCEPT ![p] = [req[p] EXCEPT !.pc = pc]]
  BY DEF Goto
<1> QED
  BY <1>2, <1>3, LifeOK

LEMMA LifeFinish ==
    ASSUME TypeOK, TypeOK', Life, NEW p \in Procs, NEW out \in Outcomes,
           Finish(p, out),
           req[p].pc \notin {"idle", "done"},
           out = "notfound" \/ req[p].pc \notin {"check", "open"},
           created' = created, live' = live, ended' = ended
    PROVE  Life'
<1>1. req[p] \in Request /\ Lives(req[p])
  BY DEF TypeOK, Life, Lives
<1>2. Lives([req[p] EXCEPT !.pc = "done", !.out = out])
  BY <1>1 DEF Lives, Request
<1>3. req' = [req EXCEPT ![p] = [req[p] EXCEPT !.pc = "done", !.out = out]]
  BY DEF Finish
<1> QED
  BY <1>2, <1>3, LifeOK

LEMMA InitLife == Init => Life
  BY DEF Init, Life, Idle

LEMMA CreateLife == ASSUME TypeOK, Life, Create PROVE Life'
<1>1. \A p \in Procs : req[p].pc = "idle" /\ ~ended
  BY DEF Create, Life
<1> QED
  BY <1>1 DEF Create, Life, history

LEMMA RestartLife == ASSUME TypeOK, Life, Restart PROVE Life'
<1>1. \A p \in Procs : req'[p] = Idle
  BY DEF Restart
<1>2. ~live' /\ (ended' => created')
  BY DEF Restart
<1> QED
  BY <1>1, <1>2 DEF Life, Idle

LEMMA BeginLife ==
    ASSUME TypeOK, TypeOK', Life, NEW p \in Procs, Begin(p) PROVE Life'
<1>1. created /\ created' = created /\ live' = live /\ ended' = ended
  BY DEF Begin, files, history
<1>2. req'[p].pc \in {"check", "open"} /\ req'[p].late = ended
  <2>1. req \in [Procs -> Request]
    BY DEF TypeOK
  <2> QED
    BY <2>1 DEF Begin, Idle
<1>3. Lives(req'[p])
  BY <1>1, <1>2 DEF Lives, TypeOK
<1>4. \A q \in Procs \ {p} : req'[q] = req[q]
  BY DEF Begin, TypeOK
<1>5. req' \in [Procs -> Request]
  BY DEF TypeOK
<1> QED
  BY <1>1, <1>3, <1>4, <1>5, LifeKept

LEMMA ReplyLife ==
    ASSUME TypeOK, TypeOK', Life, NEW p \in Procs, Reply(p) PROVE Life'
<1>1. Lives(Idle)
  BY DEF Lives, Idle
<1> QED
  BY <1>1, LifeOK DEF Reply, files, history

\* Only a live upload passes, and it has not ended, so that the request is
\* not a late one.
LEMMA CheckLife ==
    ASSUME TypeOK, TypeOK', Life, NEW p \in Procs, Check(p) \/ CompleteOpen(p)
    PROVE  Life'
<1>1. req[p].pc \in {"check", "open"}
  BY DEF Check, CompleteOpen, At
<1>2. created' = created /\ live' = live /\ ended' = ended
  BY DEF Check, CompleteOpen, files, history
<1>3. CASE Finish(p, "notfound")
  BY <1>1, <1>2, <1>3, LifeFinish DEF Outcomes
<1>4. CASE live
  <2>1. ~ended /\ ~req[p].late
    BY <1>4 DEF Life
  <2>2. PICK pc \in {"create", "list", "verify"} : Goto(p, pc)
    BY <1>4 DEF Check, CompleteOpen
  <2> QED
    BY <1>1, <1>2, <2>1, <2>2, LifeGoto
<1> QED
  BY <1>3, <1>4 DEF Check, CompleteOpen

\* UploadPart writes part files only.
LEMMA PartStepLife ==
    ASSUME TypeOK, TypeOK', Life, NEW p \in Procs, PartStep(p) PROVE Life'
<1>1. created' = created /\ live' = live /\ ended' = ended
  BY DEF PartStep, PartCreate, PartCopy, PartCopyFail, PartDescribe,
         PartDescribed, PartDescribeFail, history
<1>2. req[p].pc \in {"create", "copy", "jcreate", "jwrite"}
  BY DEF PartStep, PartCreate, PartCopy, PartCopyFail, PartDescribe,
         PartDescribed, PartDescribeFail, At
<1>3. CASE PartCreate(p)
  <2>1. req[p] \in Request /\ Lives(req[p])
    BY DEF TypeOK, Life, Lives
  <2>2. req'[p].pc = "copy" /\ req'[p].late = req[p].late
    BY <1>3, <2>1 DEF PartCreate, Request
  <2>3. Lives(req'[p])
    BY <1>1, <1>2, <2>1, <2>2 DEF Lives
  <2>4. ASSUME NEW q \in Procs \ {p}
        PROVE  /\ req'[q].pc = req[q].pc /\ req'[q].todo = req[q].todo
               /\ req'[q].late = req[q].late /\ req'[q].out = req[q].out
    <3>1. req[q] \in Request
      BY DEF TypeOK
    <3> QED
      BY <1>3, <3>1 DEF PartCreate, Request
  <2>5. req' \in [Procs -> Request]
    BY DEF TypeOK
  <2> QED
    BY <1>1, <2>3, <2>4, <2>5, LifeKept
<1>4. CASE Goto(p, "jcreate") \/ Goto(p, "jwrite")
  BY <1>1, <1>2, <1>4, LifeGoto
<1>5. CASE Finish(p, "error") \/ Finish(p, "ok")
  BY <1>1, <1>2, <1>5, LifeFinish DEF Outcomes
<1> QED
  BY <1>3, <1>4, <1>5
     DEF PartStep, PartCopy, PartCopyFail, PartDescribe, PartDescribed, PartDescribeFail

LEMMA CompleteStepLife ==
    ASSUME TypeOK, TypeOK', Life, NEW p \in Procs, CompleteStep(p) PROVE Life'
<1>1. created' = created /\ live' = live /\ ended' = ended
  BY DEF CompleteStep, CompleteOpen, VerifyPart, Verified, ReadPart, Assembled,
         Store, StoreFail, files, history
<1>2. CASE CompleteOpen(p)
  BY <1>2, CheckLife
<1>3. CASE ~CompleteOpen(p)
  <2>1. req[p].pc \in {"verify", "read", "store"}
    BY <1>3 DEF CompleteStep, VerifyPart, Verified, ReadPart, Assembled, Store,
                StoreFail, At
  <2>2. req[p] \in Request /\ Lives(req[p])
    BY DEF TypeOK, Life, Lives
  <2>3. CASE Goto(p, "store") \/ Goto(p, "list")
    BY <1>1, <2>1, <2>3, LifeGoto
  <2>4. CASE Finish(p, "error") \/ Finish(p, "notfound")
    BY <1>1, <2>1, <2>4, LifeFinish DEF Outcomes
  <2>5. CASE Verified(p)
    <3> DEFINE r == [req[p] EXCEPT !.pc = "read", !.left = Named(p)]
    <3>1. Lives(r)
      BY <2>1, <2>2 DEF Lives, Request
    <3>2. req' = [req EXCEPT ![p] = r]
      BY <2>5 DEF Verified
    <3> HIDE DEF r
    <3> QED
      BY <1>1, <3>1, <3>2, LifeOK
  <2>6. ASSUME NEW n \in Parts, req' = [req EXCEPT ![p].left = @ \ {n}]
        PROVE  Life'
    <3> DEFINE r == [req[p] EXCEPT !.left = @ \ {n}]
    <3>1. Lives(r)
      BY <2>1, <2>2 DEF Lives, Request
    <3>2. req' = [req EXCEPT ![p] = r]
      BY <2>6
    <3> HIDE DEF r
    <3> QED
      BY <1>1, <3>1, <3>2, LifeOK
  <2>7. ASSUME NEW n \in Parts,
               req' = [req EXCEPT ![p].left = @ \ {n}, ![p].got[n] = data[n]]
        PROVE  Life'
    <3> DEFINE r == [req[p] EXCEPT !.left = @ \ {n}, !.got = [@ EXCEPT ![n] = data[n]]]
    <3>1. Lives(r)
      BY <2>1, <2>2 DEF Lives, Request
    <3>2. req' = [req EXCEPT ![p] = r]
      BY <2>2, <2>7 DEF TypeOK, Request
    <3> HIDE DEF r
    <3> QED
      BY <1>1, <3>1, <3>2, LifeOK
  <2> QED
    BY <1>3, <2>3, <2>4, <2>5, <2>6, <2>7
       DEF CompleteStep, VerifyPart, ReadPart, Assembled, Store, StoreFail
<1> QED
  BY <1>2, <1>3

\* A cleanup that does not list upload.json found none, and removes it
\* otherwise before it ends.
LEMMA CleanupStepLife ==
    ASSUME TypeOK, TypeOK', Life, NEW p \in Procs, CleanupStep(p) PROVE Life'
<1>1. req[p] \in Request /\ Lives(req[p])
  BY DEF TypeOK, Life, Lives
<1>2. req[p].pc \in {"list", "remove"} /\ created /\ ~req[p].late /\ created' = created
  <2>1. req[p].pc \in {"list", "remove"} /\ created' = created
    BY DEF CleanupStep, CleanupList, CleanupListParts, CleanupRemove, CleanupFail, CleanupEnd, At
  <2> QED
    BY <1>1, <2>1 DEF Lives
<1>3. CASE CleanupList(p)
  <2> DEFINE todo == (Present \ PartFiles) \cup
                        (IF Present \subseteq {UploadFile} THEN {} ELSE {PartsDir})
             r == [req[p] EXCEPT !.pc = "remove", !.todo = todo]
  <2>1. live => UploadFile \in todo
    BY DEF Present, Files, UploadFile, PartFiles, Parts
  <2>2. req' = [req EXCEPT ![p] = r]
    BY <1>3 DEF CleanupList
  <2> HIDE DEF todo
  <2>3. Lives(r)
    BY <1>1, <1>2, <2>1 DEF Lives, Request
  <2> HIDE DEF r
  <2> QED
    BY <1>3, <2>2, <2>3, LifeOK DEF CleanupList, files, history
<1>4. CASE CleanupListParts(p)
  <2> DEFINE todo == (req[p].todo \ {PartsDir}) \cup (Present \cap PartFiles)
             r == [req[p] EXCEPT !.todo = todo]
  <2>1. UploadFile \in req[p].todo => UploadFile \in todo
    BY DEF UploadFile, PartsDir
  <2>2. req' = [req EXCEPT ![p] = r]
    BY <1>4 DEF CleanupListParts
  <2> HIDE DEF todo
  <2>3. Lives(r)
    BY <1>1, <1>2, <2>1 DEF Lives, Request
  <2> HIDE DEF r
  <2> QED
    BY <1>4, <2>2, <2>3, LifeOK DEF CleanupListParts, files, history
<1>5. CASE CleanupRemove(p)
  <2>1. PICK f \in req[p].todo \cap Files :
            /\ req' = [req EXCEPT ![p].todo = @ \ {f}]
            /\ live' = (live /\ f # UploadFile)
    BY <1>5 DEF CleanupRemove
  <2>2. ended' = ended
    BY <1>5 DEF CleanupRemove, history
  <2>3. /\ req'[p].pc = req[p].pc /\ req'[p].late = req[p].late
        /\ req'[p].todo = req[p].todo \ {f}
    BY <1>1, <2>1 DEF TypeOK, Request
  <2>4. \A q \in Procs \ {p} : req'[q] = req[q]
    BY <2>1 DEF TypeOK
  <2>5. live' => live
    BY <2>1
  <2>6. \A q \in Procs :
           req'[q].pc = "remove" /\ UploadFile \notin req'[q].todo => ~live'
    BY <2>1, <2>3, <2>4, <2>5 DEF Life
  <2> QED
    BY <1>2, <2>2, <2>3, <2>4, <2>5, <2>6 DEF Life
<1>6. CASE CleanupEnd(p)
  <2>1. PICK out \in {"ok", "error"} : Finish(p, out) /\ ended' = (ended \/ out = "ok")
    BY <1>6 DEF CleanupEnd
  <2>2. ~live /\ live' = live
    BY <1>1, <1>6 DEF CleanupEnd, At, Lives, files
  <2>3. req' = [req EXCEPT ![p] = [req[p] EXCEPT !.pc = "done", !.out = out]]
    BY <2>1 DEF Finish
  <2>4. req'[p].pc = "done" /\ req'[p].late = req[p].late
    BY <1>1, <2>3 DEF TypeOK, Request
  <2>5. \A q \in Procs \ {p} : req'[q] = req[q]
    BY <2>3 DEF TypeOK
  <2> QED
    BY <1>2, <2>1, <2>2, <2>4, <2>5 DEF Life
<1>7. CASE CleanupFail(p)
  <2>1. PICK out \in Outcomes : Finish(p, out)
    BY <1>7 DEF CleanupFail, Outcomes
  <2> QED
    BY <1>2, <1>7, <2>1, LifeFinish DEF CleanupFail, files, history
<1> QED
  BY <1>3, <1>4, <1>5, <1>6, <1>7 DEF CleanupStep

LEMMA NextLife == TypeOK /\ TypeOK' /\ Life /\ [Next]_vars => Life'
<1> SUFFICES ASSUME TypeOK, TypeOK', Life, [Next]_vars PROVE Life'
  OBVIOUS
<1>1. CASE Next
  BY <1>1, CreateLife, RestartLife, BeginLife, ReplyLife, CheckLife,
     PartStepLife, CompleteStepLife, CleanupStepLife DEF Next
<1>2. CASE UNCHANGED vars
  BY <1>2 DEF Life, vars, files, history
<1> QED
  BY <1>1, <1>2

LEMMA LifeFails == Life => LateRequestsFail
  BY DEF Life, LateRequestsFail

\* A request that begins after the upload was completed, aborted or swept is
\* never served, whatever was in progress when it ended.
THEOREM LateFails == Spec => []LateRequestsFail
<1> QED
  BY InitType, NextType, InitLife, NextLife, LifeFails, PTL DEF Spec
-----------------------------------------------------------------------------
(* Settled parts *)

Working == {"copy", "jcreate", "jwrite"}

AtWork(p, n) == req[p].part = n /\ req[p].pc \in Working

\* Only an UploadPart runs the steps of one, and a Complete does not check.
Role(p) ==
    /\ req[p].pc \in {"create"} \cup Working => req[p].op = "part"
    /\ req[p].op = "part" => req[p].part \in Parts
    /\ req[p].op = "complete" => req[p].pc \notin {"idle", "check"}

\* An UploadPart that is alone on its part finds there what it wrote, or
\* nothing where a cleanup came by.
AloneOK(p) ==
    req[p].pc \in Working /\ req[p].alone =>
        /\ p \notin overlap
        /\ \A q \in Procs \ {p} : ~AtWork(q, req[p].part)
        /\ req[p].pc = "copy" => p \in linked \/ data[req[p].part] = Absent
        /\ req[p].pc # "copy" => data[req[p].part] \in {req[p].body, Absent}
        /\ req[p].pc = "jwrite" => p \in linked \/ etag[req[p].part] = Absent

\* Both files of a settled part are those of its body, or gone, and nobody
\* has them open.
SettledOK(n) ==
    settled[n] # Absent =>
        /\ data[n] \in {settled[n], Absent}
        /\ etag[n] \in {settled[n], Absent}
        /\ \A p \in Procs : ~AtWork(p, n)

\* What a Complete has verified and read of a part that was settled all along
\* is the body it is settled on.
SureOK(p) ==
    req[p].op = "complete" =>
        \A n \in req[p].sure \cap Named(p) :
            /\ settled[n] # Absent
            /\ req[p].pc = "open" => n \in req[p].left
            /\ req[p].pc = "verify" /\ n \notin req[p].left
                 => req[p].named[n] = settled[n]
            /\ req[p].pc \in {"read", "store", "list", "remove"} \/ req[p].out = "ok"
                 => req[p].named[n] = settled[n]
            /\ req[p].pc = "read" /\ n \notin req[p].left
                 => req[p].got[n] = settled[n]
            /\ req[p].pc \in {"store", "list", "remove"} \/ req[p].out = "ok"
                 => req[p].got[n] = settled[n]

Settling ==
    /\ \A p \in Procs : Role(p) /\ AloneOK(p) /\ SureOK(p)
    /\ \A n \in Parts : SettledOK(n)

\* A step of one goroutine that works on no part, and leaves the part files
\* alone.
LEMMA QuietSettling ==
    ASSUME TypeOK, TypeOK', Settling, NEW p \in Procs,
           \A q \in Procs \ {p} : req'[q] = req[q],
           req[p].pc \notin Working, req'[p].pc \notin Working,
           Role(p)', SureOK(p)',
           UNCHANGED <<data, etag, linked, overlap, settled>>
    PROVE  Settling'
<1>1. ASSUME NEW q \in Procs, NEW n PROVE AtWork(q, n)' <=> AtWork(q, n)
  BY DEF AtWork
<1>2. ASSUME NEW q \in Procs \ {p} PROVE Role(q)' /\ AloneOK(q)' /\ SureOK(q)'
  <2>1. req'[q] = req[q] /\ Role(q) /\ AloneOK(q) /\ SureOK(q)
    BY DEF Settling
  <2>2. AloneOK(q)'
    BY <1>1, <2>1 DEF AloneOK
  <2>3. Role(q)' /\ SureOK(q)'
    BY <2>1 DEF Role, SureOK, Named
  <2> QED
    BY <2>2, <2>3
<1>3. AloneOK(p)'
  BY DEF AloneOK
<1>4. ASSUME NEW n \in Parts PROVE SettledOK(n)'
  BY <1>1 DEF Settling, SettledOK
<1> QED
  BY <1>2, <1>3, <1>4 DEF Settling

LEMMA InitSettling == Init => Settling
  BY DEF Init, Settling, Role, AloneOK, SureOK, SettledOK, AtWork, Idle, Working

LEMMA RestartSettling == ASSUME TypeOK, Restart PROVE Settling'
<1>1. \A p \in Procs : req'[p] = Idle
  BY DEF Restart
<1>2. \A n \in Parts : settled'[n] = Absent
  BY DEF Restart
<1> QED
  BY <1>1, <1>2 DEF Settling, Role, AloneOK, SureOK, SettledOK, AtWork, Idle, Working

LEMMA BeginSettling ==
    ASSUME TypeOK, TypeOK', Settling, NEW p \in Procs, Begin(p) PROVE Settling'
<1>1. req \in [Procs -> Request]
  BY DEF TypeOK
<1>2. \A q \in Procs \ {p} : req'[q] = req[q]
  BY <1>1 DEF Begin
<1>3. req[p].pc = "idle" /\ UNCHANGED <<data, etag, linked, overlap, settled>>
  BY DEF Begin, At, files, history
<1>4. \/ req'[p].pc = "check" /\ req'[p].op = "part" /\ req'[p].part \in Parts
      \/ req'[p].pc = "check" /\ req'[p].op = "abort"
      \/ /\ req'[p].pc = "open" /\ req'[p].op = "complete" /\ req'[p].out = "none"
         /\ req'[p].sure = {n \in Parts : settled[n] # Absent}
         /\ req'[p].left = Named(p)'
  <2>1. ASSUME NEW n \in Parts,
               req'[p] = [Idle EXCEPT !.pc = "check", !.op = "part", !.part = n,
                                      !.body = puts + 1, !.late = ended]
        PROVE  req'[p].pc = "check" /\ req'[p].op = "part" /\ req'[p].part \in Parts
    BY <2>1 DEF Idle
  <2>2. ASSUME NEW named \in [Parts -> 0..puts],
               req'[p] = [Idle EXCEPT !.pc = "open", !.op = "complete", !.named = named,
                                      !.left = {n \in Parts : named[n] # Absent},
                                      !.sure = {n \in Parts : settled[n] # Absent},
                                      !.late = ended]
        PROVE  /\ req'[p].pc = "open" /\ req'[p].op = "complete" /\ req'[p].out = "none"
               /\ req'[p].sure = {n \in Parts : settled[n] # Absent}
               /\ req'[p].left = Named(p)'
    <3> DEFINE left == {n \in Parts : named[n] # Absent}
               sure == {n \in Parts : settled[n] # Absent}
    <3>1. req'[p] = [Idle EXCEPT !.pc = "open", !.op = "complete", !.named = named,
                                 !.left = left, !.sure = sure, !.late = ended]
      BY <2>2
    <3> HIDE DEF left, sure
    <3>2. /\ req'[p].pc = "open" /\ req'[p].op = "complete" /\ req'[p].out = "none"
          /\ req'[p].sure = sure /\ req'[p].left = left /\ req'[p].named = named
      BY <3>1 DEF Idle
    <3>3. Named(p)' = left
      BY <3>2 DEF left, Named
    <3> QED
      BY <3>2, <3>3 DEF sure
  <2>3. ASSUME req'[p] = [Idle EXCEPT !.pc = "check", !.late = ended]
        PROVE  req'[p].pc = "check" /\ req'[p].op = "abort"
    BY <2>3 DEF Idle
  <2>4. \/ \E n \in Parts : req'[p] =
                   [Idle EXCEPT !.pc = "check", !.op = "part", !.part = n,
                                !.body = puts + 1, !.late = ended]
        \/ \E named \in [Parts -> 0..puts] : req'[p] =
                   [Idle EXCEPT !.pc = "open", !.op = "complete", !.named = named,
                                !.left = {n \in Parts : named[n] # Absent},
                                !.sure = {n \in Parts : settled[n] # Absent},
                                !.late = ended]
        \/ req'[p] = [Idle EXCEPT !.pc = "check", !.late = ended]
    BY <1>1 DEF Begin
  <2> QED
    BY <2>1, <2>2, <2>3, <2>4
<1>5. Role(p)' /\ SureOK(p)' /\ req'[p].pc \notin Working
  BY <1>3, <1>4 DEF Role, SureOK, Working
<1> QED
  BY <1>2, <1>3, <1>5, QuietSettling DEF Working

LEMMA ReplySettling ==
    ASSUME TypeOK, TypeOK', Settling, NEW p \in Procs, Reply(p) PROVE Settling'
<1>1. req'[p] = Idle /\ \A q \in Procs \ {p} : req'[q] = req[q]
  BY DEF Reply, TypeOK
<1>2. Role(p)' /\ SureOK(p)'
  BY <1>1 DEF Role, SureOK, Idle, Working
<1> QED
  BY <1>1, <1>2, QuietSettling DEF Reply, At, Working, Idle, files, history

LEMMA CheckSettling ==
    ASSUME TypeOK, TypeOK', Settling, NEW p \in Procs, Check(p) PROVE Settling'
<1>1. req[p] \in Request /\ req[p].pc = "check" /\ req[p].op # "complete"
  BY DEF TypeOK, Check, At, Settling, Role
<1>2. /\ req'[p].op = req[p].op /\ req'[p].part = req[p].part
      /\ req'[p].pc \notin Working /\ (req'[p].pc = "create" => req[p].op = "part")
      /\ \A q \in Procs \ {p} : req'[q] = req[q]
  BY <1>1 DEF Check, Goto, Finish, TypeOK, Request, Working
<1>3. Role(p)' /\ SureOK(p)'
  BY <1>1, <1>2 DEF Settling, Role, SureOK
<1> QED
  BY <1>1, <1>2, <1>3, QuietSettling DEF Check, Working, files, history

\* An UploadPart at work on part n writes the files of n only.
LEMMA WorkSettling ==
    ASSUME TypeOK, TypeOK', Settling, NEW p \in Procs, NEW n \in Parts,
           AtWork(p, n), req'[p].part = n, req'[p].op = req[p].op,
           \A q \in Procs \ {p} : req'[q] = req[q],
           \A m \in Parts \ {n} :
              data'[m] = data[m] /\ etag'[m] = etag[m] /\ settled'[m] = settled[m],
           \A q \in Procs \ {p} : q \in linked => q \in linked',
           \A q \in Procs \ {p} : q \notin overlap /\ req[q].part # n => q \notin overlap',
           AloneOK(p)', SettledOK(n)'
    PROVE  Settling'
<1>1. req[p].op = "part"
  BY DEF Settling, Role, AtWork, Working
<1>2. Role(p)' /\ SureOK(p)'
  BY <1>1 DEF Settling, Role, SureOK
<1>3. settled[n] = Absent
  BY DEF Settling, SettledOK
<1>4. ASSUME NEW q \in Procs \ {p} PROVE Role(q)' /\ AloneOK(q)' /\ SureOK(q)'
  <2>1. req'[q] = req[q] /\ Role(q) /\ AloneOK(q) /\ SureOK(q)
    BY DEF Settling
  <2>2. AloneOK(q)'
    <3> SUFFICES ASSUME req[q].pc \in Working, req[q].alone PROVE AloneOK(q)'
      BY <2>1 DEF AloneOK
    <3>1. req[q].part # n /\ req[q].part \in Parts
      BY <2>1 DEF AloneOK, Role
    <3>2. \A o \in Procs \ {q} : ~AtWork(o, req[q].part)'
      BY <2>1, <3>1 DEF AloneOK, AtWork
    <3>3. data'[req[q].part] = data[req[q].part] /\ etag'[req[q].part] = etag[req[q].part]
      BY <3>1
    <3> QED
      BY <2>1, <3>1, <3>2, <3>3 DEF AloneOK
  <2>3. SureOK(q)'
    <3> SUFFICES ASSUME req[q].op = "complete" PROVE SureOK(q)'
      BY <2>1 DEF SureOK
    <3>1. \A m \in req[q].sure \cap Named(q) : m \in Parts \ {n}
      BY <1>3, <2>1 DEF SureOK, Named
    <3>2. Named(q)' = Named(q)
      BY <2>1 DEF Named
    <3>3. \A m \in req[q].sure \cap Named(q) : settled'[m] = settled[m]
      BY <3>1
    <3> QED
      BY <2>1, <3>2, <3>3 DEF SureOK
  <2>4. Role(q)'
    BY <2>1 DEF Role
  <2> QED
    BY <2>2, <2>3, <2>4
<1>5. ASSUME NEW m \in Parts \ {n} PROVE SettledOK(m)'
  <2>1. \A q \in Procs : AtWork(q, m)' => AtWork(q, m)
    BY DEF AtWork
  <2> QED
    BY <2>1 DEF Settling, SettledOK
<1> QED
  BY <1>2, <1>4, <1>5 DEF Settling

\* PartCreate ends what was known of the part.
LEMMA PartCreateSettling ==
    ASSUME TypeOK, TypeOK', Settling, NEW p \in Procs, PartCreate(p)
    PROVE  Settling'
<1> DEFINE n == req[p].part
           others == Uploading(p, n)
<1>1. req[p] \in Request /\ req[p].pc = "create" /\ req[p].op = "part" /\ n \in Parts
  BY DEF TypeOK, PartCreate, At, Settling, Role
<1>2. req' = [q \in Procs |->
                IF q = p THEN [req[p] EXCEPT !.pc = "copy", !.alone = (others = {})]
                ELSE [req[q] EXCEPT !.alone = @ /\ q \notin others, !.sure = @ \ {n}]]
  BY DEF PartCreate
<1>3. /\ req'[p].pc = "copy" /\ req'[p].op = "part" /\ req'[p].part = n
      /\ req'[p].alone = (others = {})
  BY <1>1, <1>2 DEF Request
<1>4. ASSUME NEW q \in Procs \ {p}
      PROVE  /\ req'[q].pc = req[q].pc /\ req'[q].op = req[q].op
             /\ req'[q].part = req[q].part /\ req'[q].body = req[q].body
             /\ req'[q].named = req[q].named /\ req'[q].left = req[q].left
             /\ req'[q].got = req[q].got /\ req'[q].out = req[q].out
             /\ req'[q].alone = (req[q].alone /\ q \notin others)
             /\ req'[q].sure = req[q].sure \ {n}
  <2>1. req[q] \in Request
    BY DEF TypeOK
  <2> HIDE DEF others, n
  <2> QED
    BY <1>2, <2>1 DEF Request
<1>5. others = {q \in Procs \ {p} : AtWork(q, n)}
  BY DEF Uploading, AtWork, Working
<1>6. \A m \in Parts \ {n} : data'[m] = data[m] /\ settled'[m] = settled[m]
  BY DEF PartCreate, TypeOK
<1>7. etag' = etag /\ settled'[n] = Absent
  BY <1>1 DEF PartCreate, TypeOK
<1>8. linked' = linked \cup {p}
  BY DEF PartCreate, Opened
<1>9. \A q \in overlap' : q \in overlap \/ AtWork(q, n) \/ (q = p /\ others # {})
  BY <1>5 DEF PartCreate, Opened, TypeOK, AtWork, Working
<1>10. AloneOK(p)'
  <2> SUFFICES ASSUME others = {} PROVE AloneOK(p)'
    BY <1>3 DEF AloneOK
  <2>1. p \notin overlap'
    BY <1>1, <1>9 DEF TypeOK, AtWork, Working
  <2>2. ASSUME NEW q \in Procs \ {p} PROVE ~AtWork(q, n)'
    <3>1. ~AtWork(q, n)
      BY <1>5
    <3> QED
      BY <1>3, <1>4, <3>1 DEF AtWork
  <2> QED
    BY <1>3, <1>8, <2>1, <2>2 DEF AloneOK
<1>11. ASSUME NEW q \in Procs \ {p} PROVE Role(q)' /\ AloneOK(q)' /\ SureOK(q)'
  <2>1. Role(q) /\ AloneOK(q) /\ SureOK(q)
    BY DEF Settling
  <2>2. AloneOK(q)'
    <3> SUFFICES ASSUME req[q].pc \in Working, req[q].alone, q \notin others
                 PROVE  AloneOK(q)'
      BY <1>4 DEF AloneOK
    <3>1. req[q].part \in Parts \ {n} /\ ~AtWork(q, n)
      BY <1>5, <2>1 DEF Role, AtWork
    <3>2. q \notin overlap'
      BY <1>9, <2>1, <3>1 DEF AloneOK
    <3>3. \A o \in Procs \ {q} : ~AtWork(o, req[q].part)'
      BY <1>3, <1>4, <2>1, <3>1 DEF AloneOK, AtWork
    <3>4. data'[req[q].part] = data[req[q].part]
      BY <1>6, <3>1
    <3> HIDE DEF n, others
    <3> QED
      BY <1>4, <1>7, <1>8, <2>1, <3>2, <3>3, <3>4 DEF AloneOK
  <2>3. SureOK(q)'
    <3> HIDE DEF n, others
    <3>1. Named(q)' = Named(q) /\ req'[q].sure \subseteq req[q].sure \ {n}
      BY <1>4 DEF Named
    <3>2. \A m \in req'[q].sure \cap Named(q) : settled'[m] = settled[m]
      BY <1>6, <3>1 DEF Named
    <3> QED
      BY <1>4, <2>1, <3>1, <3>2 DEF SureOK
  <2>4. Role(q)'
    BY <1>4, <2>1 DEF Role
  <2> QED
    BY <2>2, <2>3, <2>4
<1>12. Role(p)' /\ SureOK(p)'
  BY <1>1, <1>3 DEF Role, SureOK, Working
<1>13. ASSUME NEW m \in Parts PROVE SettledOK(m)'
  <2>1. CASE m = n
    BY <1>7, <2>1 DEF SettledOK
  <2>2. CASE m # n
    <3>1. \A q \in Procs : AtWork(q, m)' => AtWork(q, m)
      BY <1>3, <1>4, <2>2 DEF AtWork
    <3>2. data'[m] = data[m] /\ settled'[m] = settled[m] /\ SettledOK(m)
      BY <1>6, <2>2 DEF Settling
    <3> QED
      BY <1>7, <3>1, <3>2 DEF SettledOK
  <2> QED
    BY <2>1, <2>2
<1> QED
  BY <1>10, <1>11, <1>12, <1>13 DEF Settling

\* An UploadPart is at work only on a part that is not settled.
LEMMA PartAtWork ==
    ASSUME TypeOK, Settling, NEW p \in Procs, req[p].pc \in Working
    PROVE  /\ req[p] \in Request /\ req[p].op = "part" /\ req[p].part \in Parts
           /\ AtWork(p, req[p].part) /\ AloneOK(p)
           /\ settled[req[p].part] = Absent
<1>1. req[p] \in Request /\ req[p].op = "part" /\ req[p].part \in Parts /\ AloneOK(p)
  BY DEF TypeOK, Settling, Role
<1>2. AtWork(p, req[p].part)
  BY DEF AtWork
<1> QED
  BY <1>1, <1>2 DEF Settling, SettledOK

LEMMA PartCopySettling ==
    ASSUME TypeOK, TypeOK', Settling, NEW p \in Procs, PartCopy(p)
    PROVE  Settling'
<1>1. req[p].pc = "copy"
  BY DEF PartCopy, At
<1>2. /\ req[p] \in Request /\ req[p].op = "part" /\ req[p].part \in Parts
      /\ AtWork(p, req[p].part) /\ AloneOK(p) /\ settled[req[p].part] = Absent
  BY <1>1, PartAtWork DEF Working
<1>3. /\ req'[p].pc = "jcreate" /\ req'[p].op = "part"
      /\ req'[p].part = req[p].part /\ req'[p].body = req[p].body
      /\ req'[p].alone = req[p].alone
      /\ \A q \in Procs \ {p} : req'[q] = req[q]
  BY <1>2 DEF PartCopy, Goto, TypeOK, Request
<1>4. /\ \A m \in Parts \ {req[p].part} :
            data'[m] = data[m] /\ etag'[m] = etag[m] /\ settled'[m] = settled[m]
      /\ settled' = settled
      /\ \A q \in Procs \ {p} : q \in linked => q \in linked'
      /\ overlap' = overlap \ {p}
  BY <1>2 DEF PartCopy, Closed, history, TypeOK
<1>5. AloneOK(p)'
  <2> SUFFICES ASSUME req[p].alone PROVE AloneOK(p)'
    BY <1>3 DEF AloneOK
  <2>1. /\ p \notin overlap
        /\ p \in linked \/ data[req[p].part] = Absent
        /\ \A q \in Procs \ {p} : ~AtWork(q, req[p].part)
    BY <1>1, <1>2 DEF AloneOK, Working
  <2>2. data'[req[p].part] \in {req[p].body, Absent}
    BY <1>2, <2>1 DEF PartCopy, TypeOK
  <2>3. \A q \in Procs \ {p} : ~AtWork(q, req[p].part)'
    BY <1>3, <2>1 DEF AtWork
  <2> QED
    BY <1>3, <1>4, <2>1, <2>2, <2>3 DEF AloneOK
<1>6. SettledOK(req[p].part)'
  BY <1>2, <1>3, <1>4 DEF SettledOK
<1> QED
  BY <1>2, <1>3, <1>4, <1>5, <1>6, WorkSettling

LEMMA PartFailSettling ==
    ASSUME TypeOK, TypeOK', Settling, NEW p \in Procs,
           PartCopyFail(p) \/ PartDescribeFail(p)
    PROVE  Settling'
<1>1. req[p].pc \in Working
  BY DEF PartCopyFail, PartDescribeFail, At, Working
<1>2. /\ req[p] \in Request /\ req[p].op = "part" /\ req[p].part \in Parts
      /\ AtWork(p, req[p].part) /\ settled[req[p].part] = Absent
  BY <1>1, PartAtWork
<1>3. /\ req'[p].pc = "done" /\ req'[p].op = "part" /\ req'[p].part = req[p].part
      /\ \A q \in Procs \ {p} : req'[q] = req[q]
  BY <1>2 DEF PartCopyFail, PartDescribeFail, Finish, TypeOK, Request
<1>4. /\ \A m \in Parts \ {req[p].part} :
            data'[m] = data[m] /\ etag'[m] = etag[m] /\ settled'[m] = settled[m]
      /\ settled' = settled
      /\ \A q \in Procs \ {p} : q \in linked => q \in linked'
      /\ overlap' = overlap \ {p}
  BY <1>2 DEF PartCopyFail, PartDescribeFail, Closed, history, TypeOK
<1>5. AloneOK(p)'
  BY <1>3 DEF AloneOK, Working
<1>6. SettledOK(req[p].part)'
  BY <1>2, <1>3, <1>4 DEF SettledOK
<1> QED
  BY <1>2, <1>3, <1>4, <1>5, <1>6, WorkSettling

LEMMA PartDescribeSettling ==
    ASSUME TypeOK, TypeOK', Settling, NEW p \in Procs, PartDescribe(p)
    PROVE  Settling'
<1>1. req[p].pc = "jcreate"
  BY DEF PartDescribe, At
<1>2. /\ req[p] \in Request /\ req[p].op = "part" /\ req[p].part \in Parts
      /\ AtWork(p, req[p].part) /\ AloneOK(p) /\ settled[req[p].part] = Absent
  BY <1>1, PartAtWork DEF Working
<1>3. /\ req'[p].pc = "jwrite" /\ req'[p].op = "part"
      /\ req'[p].part = req[p].part /\ req'[p].body = req[p].body
      /\ req'[p].alone = req[p].alone
      /\ \A q \in Procs \ {p} : req'[q] = req[q]
  BY <1>2 DEF PartDescribe, Goto, TypeOK, Request
<1>4. /\ \A m \in Parts \ {req[p].part} :
            data'[m] = data[m] /\ etag'[m] = etag[m] /\ settled'[m] = settled[m]
      /\ data' = data /\ settled' = settled
      /\ linked' = linked \cup {p}
  BY <1>2 DEF PartDescribe, Opened, history, TypeOK
<1>5. \A q \in overlap' \ overlap :
         \E o \in linked \ {p} : /\ req[o].part = req[p].part /\ req[o].pc = "jwrite"
                                 /\ q = o \/ q = p
  <2> DEFINE others == {q \in linked \ {p} :
                          req[q].part = req[p].part /\ req[q].pc = "jwrite"}
  <2>1. overlap' = IF others = {} THEN overlap ELSE overlap \cup others \cup {p}
    BY DEF PartDescribe, Opened
  <2>2. \A o \in others : o \in linked \ {p} /\ req[o].part = req[p].part
                                             /\ req[o].pc = "jwrite"
    OBVIOUS
  <2> HIDE DEF others
  <2> QED
    BY <2>1, <2>2
<1>6. AloneOK(p)'
  <2> SUFFICES ASSUME req[p].alone PROVE AloneOK(p)'
    BY <1>3 DEF AloneOK
  <2>1. /\ p \notin overlap
        /\ data[req[p].part] \in {req[p].body, Absent}
        /\ \A q \in Procs \ {p} : ~AtWork(q, req[p].part)
    BY <1>1, <1>2 DEF AloneOK, Working
  <2>2. p \notin overlap'
    BY <1>5, <2>1 DEF TypeOK, AtWork, Working
  <2>3. \A q \in Procs \ {p} : ~AtWork(q, req[p].part)'
    BY <1>3, <2>1 DEF AtWork
  <2> QED
    BY <1>3, <1>4, <2>1, <2>2, <2>3 DEF AloneOK
<1>7. SettledOK(req[p].part)'
  BY <1>2, <1>3, <1>4 DEF SettledOK
<1>8. \A q \in Procs \ {p} :
         q \notin overlap /\ req[q].part # req[p].part => q \notin overlap'
  BY <1>5
<1>9. \A q \in Procs \ {p} : q \in linked => q \in linked'
  BY <1>4
<1> QED
  BY <1>2, <1>3, <1>4, <1>6, <1>7, <1>8, <1>9, WorkSettling

LEMMA PartDescribedSettling ==
    ASSUME TypeOK, TypeOK', Settling, NEW p \in Procs, PartDescribed(p)
    PROVE  Settling'
<1>1. req[p].pc = "jwrite"
  BY DEF PartDescribed, At
<1>2. /\ req[p] \in Request /\ req[p].op = "part" /\ req[p].part \in Parts
      /\ AtWork(p, req[p].part) /\ AloneOK(p)
  BY <1>1, PartAtWork DEF Working
<1>3. /\ req'[p].pc = "done" /\ req'[p].op = "part" /\ req'[p].part = req[p].part
      /\ \A q \in Procs \ {p} : req'[q] = req[q]
  BY <1>2 DEF PartDescribed, Finish, TypeOK, Request
<1>4. /\ \A m \in Parts \ {req[p].part} :
            data'[m] = data[m] /\ etag'[m] = etag[m] /\ settled'[m] = settled[m]
      /\ data' = data
      /\ settled'[req[p].part] = IF req[p].alone THEN req[p].body ELSE Absent
      /\ \A q \in Procs \ {p} : q \in linked => q \in linked'
      /\ overlap' = overlap \ {p}
  BY <1>2 DEF PartDescribed, Closed, TypeOK
<1>5. AloneOK(p)'
  BY <1>3 DEF AloneOK, Working
<1>6. SettledOK(req[p].part)'
  <2> SUFFICES ASSUME req[p].alone PROVE SettledOK(req[p].part)'
    BY <1>3, <1>4 DEF SettledOK
  <2>1. /\ p \notin overlap
        /\ data[req[p].part] \in {req[p].body, Absent}
        /\ p \in linked \/ etag[req[p].part] = Absent
        /\ \A q \in Procs \ {p} : ~AtWork(q, req[p].part)
    BY <1>1, <1>2 DEF AloneOK, Working
  <2>2. etag'[req[p].part] \in {req[p].body, Absent}
    BY <1>2, <2>1 DEF PartDescribed, TypeOK
  <2>3. \A q \in Procs : ~AtWork(q, req[p].part)'
    BY <1>3, <2>1 DEF AtWork, Working
  <2> QED
    BY <1>3, <1>4, <2>1, <2>2, <2>3 DEF SettledOK
<1> QED
  BY <1>2, <1>3, <1>4, <1>5, <1>6, WorkSettling

LEMMA CompleteSettling ==
    ASSUME TypeOK, TypeOK', Settling, NEW p \in Procs, CompleteStep(p)
    PROVE  Settling'
<1>1. req[p] \in Request /\ Role(p) /\ SureOK(p) /\ \A n \in Parts : SettledOK(n)
  BY DEF TypeOK, Settling
<1>2. \A q \in Procs \ {p} : req'[q] = req[q]
  BY DEF CompleteStep, CompleteOpen, VerifyPart, Verified, ReadPart, Assembled, Store, StoreFail,
         Goto, Finish, TypeOK
<1>3. UNCHANGED <<data, etag, linked, overlap, settled>>
  BY DEF CompleteStep, CompleteOpen, VerifyPart, Verified, ReadPart, Assembled, Store, StoreFail,
         files, history
<1>4. /\ req[p].pc \in {"open", "verify", "read", "store"}
      /\ req'[p].pc \in {"verify", "read", "store", "list", "done"}
      /\ req'[p].op = req[p].op /\ req'[p].part = req[p].part
      /\ req'[p].sure = req[p].sure /\ req'[p].named = req[p].named
  <2>1. CASE CompleteOpen(p) \/ Assembled(p) \/ Store(p) \/ StoreFail(p)
    BY <1>1, <2>1 DEF CompleteOpen, Assembled, Store, StoreFail, At, Goto, Finish,
                      TypeOK, Request
  <2>2. CASE VerifyPart(p)
    BY <1>1, <2>2 DEF VerifyPart, At, Finish, TypeOK, Request
  <2>3. CASE Verified(p)
    BY <1>1, <2>3 DEF Verified, At, TypeOK, Request
  <2>4. CASE ReadPart(p)
    BY <1>1, <2>4 DEF ReadPart, At, Finish, TypeOK, Request
  <2> QED
    BY <2>1, <2>2, <2>3, <2>4 DEF CompleteStep
<1>5. Role(p)'
  BY <1>1, <1>4 DEF Role, Working
<1>6. SureOK(p)'
  <2> DEFINE sure == req[p].sure \cap Named(p)
  <2>1. req'[p].sure \cap Named(p)' = sure
    BY <1>4 DEF Named
  <2>2. \A n \in sure : n \in Parts /\ req[p].named[n] # Absent
    BY DEF Named
  <2> HIDE DEF sure
  <2>3. CASE req[p].op # "complete"
    BY <1>4, <2>3 DEF SureOK
  <2>4. ASSUME req[p].op = "complete", NEW n \in sure
        PROVE  /\ settled[n] # Absent
               /\ data[n] \in {settled[n], Absent} /\ etag[n] \in {settled[n], Absent}
    BY <1>1, <2>2, <2>4 DEF SureOK, SettledOK, sure
  <2>5. CASE CompleteOpen(p)
    <3>1. /\ req[p].pc = "open" /\ req'[p].pc \in {"verify", "done"}
          /\ req'[p].left = req[p].left /\ req'[p].got = req[p].got
          /\ req'[p].out \in {req[p].out, "notfound"}
      BY <1>1, <2>5 DEF CompleteOpen, At, Goto, Finish, TypeOK, Request
    <3> QED
      BY <1>1, <1>3, <1>4, <2>1, <3>1 DEF SureOK, sure
  <2>6. CASE VerifyPart(p)
    <3>1. req[p].pc = "verify" /\ req'[p].got = req[p].got
      BY <1>1, <2>6 DEF VerifyPart, At, Finish, TypeOK, Request
    <3>2. \/ req'[p].pc = "done" /\ req'[p].out \in {"notfound", "error"}
          \/ /\ req'[p].pc = "verify" /\ req'[p].out = req[p].out
             /\ \E n \in Parts : /\ req'[p].left = req[p].left \ {n}
                                 /\ etag[n] = req[p].named[n]
      <4>1. PICK n \in Parts :
               \/ etag[n] = req[p].named[n] /\ req' = [req EXCEPT ![p].left = @ \ {n}]
               \/ Finish(p, "notfound") \/ Finish(p, "error")
        BY <2>6 DEF VerifyPart
      <4>2. CASE etag[n] = req[p].named[n] /\ req' = [req EXCEPT ![p].left = @ \ {n}]
        BY <1>1, <3>1, <4>2 DEF TypeOK, Request
      <4>3. CASE Finish(p, "notfound") \/ Finish(p, "error")
        BY <1>1, <4>3 DEF Finish, TypeOK, Request
      <4> QED
        BY <4>1, <4>2, <4>3
    <3> QED
      BY <1>1, <1>3, <1>4, <2>1, <2>2, <2>3, <2>4, <3>1, <3>2 DEF SureOK, sure
  <2>7. CASE Verified(p)
    <3>1. /\ req[p].pc = "verify" /\ req'[p].pc = "read" /\ req[p].left = {}
          /\ req'[p].left = Named(p) /\ req'[p].got = req[p].got
          /\ req'[p].out = req[p].out
      BY <1>1, <2>7 DEF Verified, At, TypeOK, Request
    <3>2. \A n \in sure : n \in req'[p].left
      BY <3>1 DEF sure
    <3> QED
      BY <1>1, <1>3, <1>4, <2>1, <3>1, <3>2 DEF SureOK, sure
  <2>8. CASE ReadPart(p)
    <3>1. req[p].pc = "read"
      BY <2>8 DEF ReadPart, At
    <3>2. \/ req'[p].pc = "done" /\ req'[p].out = "error"
          \/ /\ req'[p].pc = "read" /\ req'[p].out = req[p].out
             /\ \E n \in Parts : /\ req'[p].left = req[p].left \ {n}
                                 /\ req'[p].got = [req[p].got EXCEPT ![n] = data[n]]
                                 /\ data[n] # Absent
      <4>1. PICK n \in Parts :
               \/ /\ data[n] # Absent
                  /\ req' = [req EXCEPT ![p].left = @ \ {n}, ![p].got[n] = data[n]]
               \/ Finish(p, "error")
        BY <2>8 DEF ReadPart
      <4>2. CASE /\ data[n] # Absent
                 /\ req' = [req EXCEPT ![p].left = @ \ {n}, ![p].got[n] = data[n]]
        BY <1>1, <3>1, <4>2 DEF TypeOK, Request
      <4>3. CASE Finish(p, "error")
        BY <1>1, <4>3 DEF Finish, TypeOK, Request
      <4> QED
        BY <4>1, <4>2, <4>3
    <3>3. CASE req'[p].pc = "done" /\ req'[p].out = "error"
      BY <1>1, <1>3, <1>4, <2>1, <3>1, <3>3 DEF SureOK, sure
    <3>4. ASSUME NEW n \in Parts, req'[p].pc = "read", req'[p].out = req[p].out,
                 req'[p].left = req[p].left \ {n}, data[n] # Absent,
                 req'[p].got = [req[p].got EXCEPT ![n] = data[n]]
          PROVE  SureOK(p)'
      <4>1. /\ req'[p].got[n] = data[n]
            /\ \A m \in Parts \ {n} : req'[p].got[m] = req[p].got[m]
        BY <1>1, <3>4 DEF Request
      <4>2. \A m \in sure : req'[p].got[m] = settled[m] \/ (m # n /\ req'[p].got[m] = req[p].got[m])
                         \/ req[p].op # "complete"
        BY <2>2, <2>4, <3>4, <4>1
      <4> QED
        BY <1>1, <1>3, <1>4, <2>1, <3>1, <3>4, <4>2 DEF SureOK, sure
    <3> QED
      BY <3>2, <3>3, <3>4
  <2>9. CASE Assembled(p) \/ Store(p) \/ StoreFail(p)
    <3>1. /\ \/ req[p].pc = "read" /\ req[p].left = {} /\ req'[p].pc = "store"
             \/ req[p].pc = "store" /\ req'[p].pc \in {"list", "done"}
          /\ req'[p].got = req[p].got /\ req'[p].left = req[p].left
          /\ req'[p].out \in {req[p].out, "error"}
      BY <1>1, <2>9 DEF Assembled, Store, StoreFail, At, Goto, Finish, TypeOK, Request
    <3>2. ASSUME req[p].op = "complete", NEW n \in sure
          PROVE  /\ req'[p].got[n] = settled[n] /\ req'[p].named[n] = settled[n]
                 /\ settled[n] # Absent
      BY <1>1, <1>4, <3>1, <3>2 DEF SureOK, sure
    <3> QED
      BY <1>3, <1>4, <2>1, <3>1, <3>2 DEF SureOK
  <2> QED
    BY <2>5, <2>6, <2>7, <2>8, <2>9 DEF CompleteStep
<1> QED
  BY <1>2, <1>3, <1>4, <1>5, <1>6, QuietSettling DEF Working

LEMMA CleanupQuietSettling ==
    ASSUME TypeOK, TypeOK', Settling, NEW p \in Procs,
           CleanupList(p) \/ CleanupListParts(p) \/ CleanupFail(p) \/ CleanupEnd(p)
    PROVE  Settling'
<1>1. req[p] \in Request /\ Role(p) /\ SureOK(p)
  BY DEF TypeOK, Settling
<1>2. /\ req[p].pc \in {"list", "remove"} /\ req'[p].pc \in {"remove", "done"}
      /\ req'[p].op = req[p].op /\ req'[p].part = req[p].part
      /\ req'[p].sure = req[p].sure /\ req'[p].named = req[p].named
      /\ req'[p].got = req[p].got
      /\ \A q \in Procs \ {p} : req'[q] = req[q]
  <2>1. CASE CleanupList(p)
    <3> DEFINE todo == (Present \ PartFiles) \cup
                         (IF Present \subseteq {UploadFile} THEN {} ELSE {PartsDir})
    <3>1. req' = [req EXCEPT ![p].pc = "remove", ![p].todo = todo] /\ req[p].pc = "list"
      BY <2>1 DEF CleanupList, At
    <3> HIDE DEF todo
    <3> QED
      BY <1>1, <3>1 DEF TypeOK, Request
  <2>2. CASE CleanupListParts(p)
    <3> DEFINE todo == (req[p].todo \ {PartsDir}) \cup (Present \cap PartFiles)
    <3>1. req' = [req EXCEPT ![p].todo = todo] /\ req[p].pc = "remove"
      BY <2>2 DEF CleanupListParts, At
    <3> HIDE DEF todo
    <3> QED
      BY <1>1, <3>1 DEF TypeOK, Request
  <2>3. CASE CleanupEnd(p)
    <3>1. req[p].pc = "remove" /\ \E out \in {"ok", "error"} : Finish(p, out)
      BY <2>3 DEF CleanupEnd, At
    <3> QED
      BY <1>1, <3>1 DEF Finish, TypeOK, Request
  <2>4. CASE CleanupFail(p)
    <3>1. req[p].pc \in {"list", "remove"} /\ \E out \in {"ok", "error"} : Finish(p, out)
      BY <2>4 DEF CleanupFail, At
    <3> QED
      BY <1>1, <3>1 DEF Finish, TypeOK, Request
  <2> QED
    BY <2>1, <2>2, <2>3, <2>4
<1>3. UNCHANGED <<data, etag, linked, overlap, settled>>
  BY DEF CleanupList, CleanupListParts, CleanupFail, CleanupEnd, files, history
<1>4. Role(p)'
  BY <1>1, <1>2 DEF Role, Working
<1>5. SureOK(p)'
  <2>1. Named(p)' = Named(p)
    BY <1>2 DEF Named
  <2> QED
    BY <1>1, <1>2, <1>3, <2>1 DEF SureOK
<1> QED
  BY <1>2, <1>3, <1>4, <1>5, QuietSettling DEF Working

\* A removal leaves a part file as it is or absent, and takes its path from
\* whoever has it open.
LEMMA CleanupRemoveSettling ==
    ASSUME TypeOK, TypeOK', Settling, NEW p \in Procs, CleanupRemove(p)
    PROVE  Settling'
<1>1. req[p] \in Request /\ req[p].pc = "remove"
  BY DEF TypeOK, CleanupRemove, At
<1>2. PICK f \in req[p].todo \cap Files :
        /\ req' = [req EXCEPT ![p].todo = @ \ {f}]
        /\ data' = IF f[2] = "data" THEN [data EXCEPT ![f[1]] = Absent] ELSE data
        /\ etag' = IF f[2] = "json" THEN [etag EXCEPT ![f[1]] = Absent] ELSE etag
        /\ linked' = linked \ {q \in Procs :
                \/ req[q].pc = "copy"   /\ f = <<req[q].part, "data">>
                \/ req[q].pc = "jwrite" /\ f = <<req[q].part, "json">>}
  BY DEF CleanupRemove
<1>3. \A q \in Procs :
         /\ req'[q].pc = req[q].pc /\ req'[q].op = req[q].op
         /\ req'[q].part = req[q].part /\ req'[q].body = req[q].body
         /\ req'[q].alone = req[q].alone /\ req'[q].named = req[q].named
         /\ req'[q].left = req[q].left /\ req'[q].got = req[q].got
         /\ req'[q].sure = req[q].sure /\ req'[q].out = req[q].out
  BY <1>2 DEF TypeOK, Request
<1>4. settled' = settled /\ overlap' = overlap
  BY DEF CleanupRemove, history
<1>5. \A n \in Parts : data'[n] = data[n] \/ data'[n] = Absent
  BY <1>2 DEF TypeOK
<1>6. \A n \in Parts : etag'[n] = etag[n] \/ etag'[n] = Absent
  BY <1>2 DEF TypeOK
<1>7. ASSUME NEW q \in Procs, q \in linked, req[q].part \in Parts
      PROVE  /\ req[q].pc = "copy" => q \in linked' \/ data'[req[q].part] = Absent
             /\ req[q].pc = "jwrite" => q \in linked' \/ etag'[req[q].part] = Absent
  <2>1. CASE f = <<req[q].part, "data">>
    BY <1>2, <1>7, <2>1 DEF TypeOK
  <2>2. CASE f = <<req[q].part, "json">>
    BY <1>2, <1>7, <2>2 DEF TypeOK
  <2>3. CASE f # <<req[q].part, "data">> /\ f # <<req[q].part, "json">>
    BY <1>2, <1>7, <2>3
  <2> QED
    BY <2>1, <2>2, <2>3
<1>8. ASSUME NEW q \in Procs PROVE Role(q)' /\ AloneOK(q)' /\ SureOK(q)'
  <2>1. Role(q) /\ AloneOK(q) /\ SureOK(q)
    BY DEF Settling
  <2>2. Role(q)'
    BY <1>3, <2>1 DEF Role
  <2>3. SureOK(q)'
    <3>1. Named(q)' = Named(q)
      BY <1>3 DEF Named
    <3> QED
      BY <1>3, <1>4, <2>1, <3>1 DEF SureOK
  <2>4. AloneOK(q)'
    <3> SUFFICES ASSUME req[q].pc \in Working, req[q].alone PROVE AloneOK(q)'
      BY <1>3 DEF AloneOK
    <3>1. req[q].part \in Parts
      BY <2>1 DEF Role
    <3>2. \A o \in Procs \ {q} : ~AtWork(o, req[q].part)'
      BY <1>3, <2>1 DEF AloneOK, AtWork
    <3>3. req[q].pc = "copy" => q \in linked' \/ data'[req[q].part] = Absent
      BY <1>5, <1>7, <2>1, <3>1 DEF AloneOK
    <3>4. req[q].pc = "jwrite" => q \in linked' \/ etag'[req[q].part] = Absent
      BY <1>6, <1>7, <2>1, <3>1 DEF AloneOK
    <3>5. req[q].pc # "copy" => data'[req[q].part] \in {req[q].body, Absent}
      BY <1>5, <2>1, <3>1 DEF AloneOK
    <3> QED
      BY <1>3, <1>4, <2>1, <3>2, <3>3, <3>4, <3>5 DEF AloneOK
  <2> QED
    BY <2>2, <2>3, <2>4
<1>9. ASSUME NEW n \in Parts PROVE SettledOK(n)'
  <2>1. \A q \in Procs : AtWork(q, n)' <=> AtWork(q, n)
    BY <1>3 DEF AtWork
  <2> QED
    BY <1>4, <1>5, <1>6, <2>1 DEF Settling, SettledOK
<1> QED
  BY <1>8, <1>9 DEF Settling

LEMMA NextSettling ==
    ASSUME TypeOK, TypeOK', Settling, [Next]_vars PROVE Settling'
<1>1. CASE Create \/ UNCHANGED vars
  <2>1. UNCHANGED <<data, etag, linked, overlap, req, settled>>
    BY <1>1 DEF Create, vars, files, history
  <2> QED
    BY <2>1 DEF Settling, Role, AloneOK, SureOK, SettledOK, AtWork, Named
<1>2. CASE Restart
  BY <1>2, RestartSettling
<1>3. ASSUME NEW p \in Procs,
             Begin(p) \/ Reply(p) \/ Check(p) \/ PartStep(p) \/ CompleteStep(p) \/ CleanupStep(p)
      PROVE  Settling'
  <2>1. CASE Begin(p) \/ Reply(p) \/ Check(p)
    BY <2>1, BeginSettling, ReplySettling, CheckSettling
  <2>2. CASE PartStep(p)
    BY <2>2, PartCreateSettling, PartCopySettling, PartFailSettling, PartDescribeSettling,
       PartDescribedSettling DEF PartStep
  <2>3. CASE CompleteStep(p)
    BY <2>3, CompleteSettling
  <2>4. CASE CleanupStep(p)
    BY <2>4, CleanupQuietSettling, CleanupRemoveSettling DEF CleanupStep
  <2> QED
    BY <1>3, <2>1, <2>2, <2>3, <2>4
<1> QED
  BY <1>1, <1>2, <1>3 DEF Next

LEMMA SettlingStores == Settling => SettledPartsStored
  BY DEF Settling, SureOK, SettledPartsStored

(* Whatever the number of goroutines, parts and bodies: a successful        *)
(* Complete stores, for every part that was settled before it began and     *)
(* that nobody has begun to write since, the body with the ETag it names,   *)
(* however it interleaves with other Completes, with Aborts and with the    *)
(* removal of the very files it reads.                                      *)
THEOREM SettledStored == Spec => []SettledPartsStored
<1>1. TypeOK /\ Settling /\ [Next]_vars /\ TypeOK' => Settling'
  BY NextSettling
<1> QED
  BY InitType, NextType, InitSettling, SettlingStores, <1>1, PTL DEF Spec
=============================================================================
