----------------------------- MODULE Multipart -----------------------------
(***************************************************************************)
(* One multipart upload: CreateMultipartUpload, UploadPart,                *)
(* CompleteMultipartUpload and AbortMultipartUpload as interleaved         *)
(* requests over the directory .dirio-uploads/<bucket>/<uploadId>:         *)
(*                                                                         *)
(*   live    upload.json, which makes the upload exist                     *)
(*   data    parts/part-<n>.data, truncated and rewritten in place         *)
(*   etag    parts/part-<n>.json, which records the ETag of the data       *)
(*                                                                         *)
(* Uploads have directories of their own and meet only in the object they  *)
(* store; PutObject is one step here, as ObjectStoreRefinement justifies.  *)
(* There is no lock: only the file system orders the requests.  A part     *)
(* body is an identifier that stands for its bytes and its MD5.            *)
(***************************************************************************)
EXTENDS Naturals, FiniteSets

CONSTANTS
    Procs,      \* request goroutines that may be active at once
    NumParts,   \* bound: part numbers a client uses
    MaxPuts,    \* bound: part bodies sent over a behaviour
    Ops,        \* the operations the environment may request
    CanFail,    \* may an upload break off, or a write or a removal fail?
    CanCrash    \* may the process die and restart?

AllOps == {"part", "complete", "abort"}

ASSUME NumPartsAssumption == NumParts \in Nat
ASSUME MaxPutsAssumption == MaxPuts \in Nat
ASSUME OpsAssumption == Ops \subseteq AllOps
ASSUME FlagsAssumption == CanFail \in BOOLEAN /\ CanCrash \in BOOLEAN

VARIABLES
    created,    \* has the upload been created?
    live,       \* does upload.json exist?
    data,       \* part -> content of its data file
    etag,       \* part -> body whose ETag its JSON file records
    linked,     \* goroutines whose open part file is the one at its path
    overlap,    \* goroutines whose open part file another one opened, too
    object,     \* the object stored last: part -> content, or NoObject
    puts,       \* part bodies handed out so far
    req,        \* goroutine -> its request
    ended,      \* has a cleanup gone through, or a sweep? (history)
    settled     \* part -> body last acknowledged, if alone (history)

files == <<live, data, etag, linked, overlap>>
history == <<ended, settled>>
vars == <<created, files, object, puts, req, history>>

-----------------------------------------------------------------------------
(* Values *)

Parts == 1..NumParts
Bodies == 1..MaxPuts
Absent == 0
Torn == MaxPuts + 1         \* empty, cut short, or bytes of several bodies

Contents == Bodies \cup {Absent, Torn}
NoObject == [n \in Parts |-> Torn]

\* The files of the upload directory.
UploadFile == <<0, "upload">>
PartFiles == Parts \X {"data", "json"}
Files == {UploadFile} \cup PartFiles

PartsDir == <<0, "parts">>

PCs == {"idle", "done", "check", "create", "copy", "jcreate", "jwrite",
        "open", "verify", "read", "store", "list", "remove"}

Outcomes == {"none", "ok", "notfound", "error"}

Request ==
    [pc : PCs, op : AllOps,
     part : Parts \cup {0},                  \* the part an UploadPart carries
     body : Bodies \cup {Absent},            \* and its body
     alone : BOOLEAN,                        \* has no other one been at work on it?
     named : [Parts -> Bodies \cup {Absent}],\* the parts a Complete names, by ETag
     left : SUBSET Parts,                    \* those still to verify, or to read
     got : [Parts -> Contents],              \* what it has assembled
     sure : SUBSET Parts,                    \* parts settled all along (history)
     todo : SUBSET (Files \cup {PartsDir}),   \* entries a cleanup has still to remove
     late : BOOLEAN,                         \* did it begin after the end? (history)
     out : Outcomes]

Idle == [pc |-> "idle", op |-> "abort", part |-> 0, body |-> Absent, alone |-> FALSE,
         named |-> [n \in Parts |-> Absent], left |-> {},
         got |-> [n \in Parts |-> Absent], sure |-> {}, todo |-> {},
         late |-> FALSE, out |-> "none"]

-----------------------------------------------------------------------------
(* Helpers *)

At(p, pc) == req[p].pc = pc

Goto(p, pc) == req' = [req EXCEPT ![p].pc = pc]

Finish(p, out) == req' = [req EXCEPT ![p].pc = "done", ![p].out = out]

Named(p) == {n \in Parts : req[p].named[n] # Absent}

IsLeast(n, S) == n \in S /\ \A m \in S : n <= m

\* Goroutines, p aside, between the creation of part n's data file and the
\* end of their UploadPart.
Uploading(p, n) ==
    {q \in Procs \ {p} : req[q].part = n /\ req[q].pc \in {"copy", "jcreate", "jwrite"}}

\* Create opens the file at the path and empties it under whoever has it open.
Opened(p, pc) ==
    LET others == {q \in linked \ {p} : req[q].part = req[p].part /\ req[q].pc = pc}
    IN /\ linked' = linked \cup {p}
       /\ overlap' = IF others = {} THEN overlap ELSE overlap \cup others \cup {p}

Closed(p) == linked' = linked \ {p} /\ overlap' = overlap \ {p}

\* The files present in the upload directory.
Present ==
    {f \in Files : \/ f = UploadFile /\ live
                   \/ f[2] = "data" /\ data[f[1]] # Absent
                   \/ f[2] = "json" /\ etag[f[1]] # Absent}

-----------------------------------------------------------------------------
(* Faulty variants of actions below, never part of Next. *)

\* The ETag a client names is not compared.
VerifyPartLax(p) ==
    /\ At(p, "verify")
    /\ \E n \in Parts :
       /\ IsLeast(n, req[p].left)
       /\ \/ etag[n] \in Bodies /\ req' = [req EXCEPT ![p].left = @ \ {n}]
          \/ etag[n] \notin Bodies /\ Finish(p, "error")
    /\ UNCHANGED <<created, files, object, puts, history>>

\* upload.json is not checked before a part is written.
CheckSkipped(p) ==
    /\ At(p, "check")
    /\ IF live \/ req[p].op = "part"
       THEN Goto(p, IF req[p].op = "part" THEN "create" ELSE "list")
       ELSE Finish(p, "notfound")
    /\ UNCHANGED <<created, files, object, puts, history>>

\* The file of a part is not closed when the copy has failed.
PartCopyFailLeaks(p) ==
    /\ At(p, "copy")
    /\ CanFail
    /\ Finish(p, "error")
    /\ UNCHANGED <<created, files, object, puts, history>>

-----------------------------------------------------------------------------
Init ==
    /\ created = FALSE
    /\ live = FALSE
    /\ data = [n \in Parts |-> Absent]
    /\ etag = [n \in Parts |-> Absent]
    /\ linked = {}
    /\ overlap = {}
    /\ object = NoObject
    /\ puts = 0
    /\ req = [p \in Procs |-> Idle]
    /\ ended = FALSE
    /\ settled = [n \in Parts |-> Absent]

(* CreateMultipartUpload.  The upload ID is a fresh UUID: nobody else knows *)
(* the directory before the response, so that it is one step.              *)
Create ==
    /\ ~created
    /\ created' = TRUE
    /\ live' = TRUE
    /\ UNCHANGED <<data, etag, linked, overlap, object, puts, req, history>>

(* A request for the upload arrives.  A Complete names any parts, by ETags  *)
(* of bodies that were sent; the code accepts an empty list.               *)
Begin(p) ==
    /\ At(p, "idle") /\ created
    /\ \/ /\ "part" \in Ops /\ puts < MaxPuts
          /\ puts' = puts + 1
          /\ \E n \in Parts :
               req' = [req EXCEPT ![p] =
                   [Idle EXCEPT !.pc = "check", !.op = "part", !.part = n,
                                !.body = puts + 1, !.late = ended]]
       \/ /\ "complete" \in Ops
          /\ UNCHANGED puts
          /\ \E named \in [Parts -> 0..puts] :
               req' = [req EXCEPT ![p] =
                   [Idle EXCEPT !.pc = "open", !.op = "complete", !.named = named,
                                !.left = {n \in Parts : named[n] # Absent},
                                !.sure = {n \in Parts : settled[n] # Absent},
                                !.late = ended]]
       \/ /\ "abort" \in Ops
          /\ UNCHANGED puts
          /\ req' = [req EXCEPT ![p] = [Idle EXCEPT !.pc = "check", !.late = ended]]
    /\ UNCHANGED <<created, files, object, history>>

Reply(p) ==
    /\ At(p, "done")
    /\ req' = [req EXCEPT ![p] = Idle]
    /\ UNCHANGED <<created, files, object, puts, history>>

(* The Stat of upload.json with which UploadPart and Abort begin. *)
Check(p) ==
    /\ At(p, "check")
    /\ IF live
       THEN Goto(p, IF req[p].op = "part" THEN "create" ELSE "list")
       ELSE Finish(p, "notfound")
    /\ UNCHANGED <<created, files, object, puts, history>>

-----------------------------------------------------------------------------
(* UploadPart *)

(* MkdirAll and Create.  The directories come into being again if a cleanup *)
(* has just removed them.                                                  *)
PartCreate(p) ==
    /\ At(p, "create")
    /\ LET n == req[p].part
           others == Uploading(p, n)
       IN /\ data' = [data EXCEPT ![n] = Torn]
          /\ settled' = [settled EXCEPT ![n] = Absent]
          /\ req' = [q \in Procs |->
                IF q = p THEN [req[p] EXCEPT !.pc = "copy", !.alone = (others = {})]
                ELSE [req[q] EXCEPT !.alone = @ /\ q \notin others,
                                    !.sure = @ \ {n}]]
    /\ Opened(p, "copy")
    /\ UNCHANGED <<created, live, etag, object, puts, ended>>

(* io.Copy wrote the whole body.  Where another request had the file open,  *)
(* the last bytes written may be those of either, or of both.              *)
PartCopy(p) ==
    /\ At(p, "copy")
    /\ LET n == req[p].part IN
       \/ p \in linked /\ data' = [data EXCEPT ![n] = req[p].body]
       \/ p \in linked \cap overlap /\ data' = [data EXCEPT ![n] = Torn]
       \/ (p \in overlap \/ p \notin linked) /\ UNCHANGED data
    /\ Closed(p)
    /\ Goto(p, "jcreate")
    /\ UNCHANGED <<created, live, etag, object, puts, history>>

(* The client disconnects or the disk is full: what was written stays. *)
PartCopyFail(p) ==
    /\ At(p, "copy")
    /\ CanFail
    /\ \/ UNCHANGED data
       \/ p \in linked \cap overlap /\ data' = [data EXCEPT ![req[p].part] = Torn]
    /\ Closed(p)
    /\ Finish(p, "error")
    /\ UNCHANGED <<created, live, etag, object, puts, history>>

PartDescribe(p) ==
    /\ At(p, "jcreate")
    /\ etag' = [etag EXCEPT ![req[p].part] = Torn]
    /\ Opened(p, "jwrite")
    /\ Goto(p, "jwrite")
    /\ UNCHANGED <<created, live, data, object, puts, history>>

(* The ETag is the MD5 of the bytes received, not of the bytes on disk. *)
PartDescribed(p) ==
    /\ At(p, "jwrite")
    /\ LET n == req[p].part IN
       /\ \/ p \in linked /\ etag' = [etag EXCEPT ![n] = req[p].body]
          \/ p \in linked \cap overlap /\ etag' = [etag EXCEPT ![n] = Torn]
          \/ p \notin linked /\ UNCHANGED etag
       /\ settled' = [settled EXCEPT ![n] =
                          IF req[p].alone THEN req[p].body ELSE Absent]
    /\ Closed(p)
    /\ Finish(p, "ok")
    /\ UNCHANGED <<created, live, data, object, puts, ended>>

PartDescribeFail(p) ==
    /\ At(p, "jcreate") \/ At(p, "jwrite")
    /\ CanFail
    /\ Closed(p)
    /\ Finish(p, "error")
    /\ UNCHANGED <<created, live, data, etag, object, puts, history>>

-----------------------------------------------------------------------------
(* CompleteMultipartUpload *)

CompleteOpen(p) ==
    /\ At(p, "open")
    /\ IF live THEN Goto(p, "verify") ELSE Finish(p, "notfound")
    /\ UNCHANGED <<created, files, object, puts, history>>

(* Parts are verified by number: the JSON file must record the ETag named. *)
VerifyPart(p) ==
    /\ At(p, "verify")
    /\ \E n \in Parts :
       /\ IsLeast(n, req[p].left)
       /\ \/ etag[n] = req[p].named[n] /\ req' = [req EXCEPT ![p].left = @ \ {n}]
          \/ etag[n] = Absent /\ Finish(p, "notfound")
          \/ etag[n] \notin {Absent, req[p].named[n]} /\ Finish(p, "error")
    /\ UNCHANGED <<created, files, object, puts, history>>

Verified(p) ==
    /\ At(p, "verify") /\ req[p].left = {}
    /\ req' = [req EXCEPT ![p].pc = "read", ![p].left = Named(p)]
    /\ UNCHANGED <<created, files, object, puts, history>>

(* The data files are read one after the other into a buffer.  A file that  *)
(* is rewritten while it is read is Torn, as it is on disk meanwhile.      *)
ReadPart(p) ==
    /\ At(p, "read")
    /\ \E n \in Parts :
       /\ IsLeast(n, req[p].left)
       /\ \/ data[n] = Absent /\ Finish(p, "error")
          \/ data[n] # Absent /\ req' = [req EXCEPT ![p].left = @ \ {n},
                                                    ![p].got[n] = data[n]]
    /\ UNCHANGED <<created, files, object, puts, history>>

Assembled(p) ==
    /\ At(p, "read") /\ req[p].left = {}
    /\ Goto(p, "store")
    /\ UNCHANGED <<created, files, object, puts, history>>

(* diskStorage.PutObject, under the key of this request. *)
Store(p) ==
    /\ At(p, "store")
    /\ object' = req[p].got
    /\ Goto(p, "list")
    /\ UNCHANGED <<created, files, puts, history>>

StoreFail(p) ==
    /\ At(p, "store")
    /\ CanFail
    /\ Finish(p, "error")
    /\ UNCHANGED <<created, files, object, puts, history>>

-----------------------------------------------------------------------------
(* cleanupMultipartUpload, by Abort and by Complete: RemoveAll lists a     *)
(* directory once, removes the entries it saw, the directory parts after   *)
(* the files it saw in there, and fails if any directory is not empty in   *)
(* the end.                                                                *)

CleanupList(p) ==
    /\ At(p, "list")
    /\ req' = [req EXCEPT ![p].pc = "remove",
                          ![p].todo = (Present \ PartFiles) \cup
                              (IF Present \subseteq {UploadFile} THEN {} ELSE {PartsDir})]
    /\ UNCHANGED <<created, files, object, puts, history>>

CleanupListParts(p) ==
    /\ At(p, "remove") /\ PartsDir \in req[p].todo
    /\ req' = [req EXCEPT ![p].todo = (@ \ {PartsDir}) \cup (Present \cap PartFiles)]
    /\ UNCHANGED <<created, files, object, puts, history>>

CleanupRemove(p) ==
    /\ At(p, "remove")
    /\ \E f \in req[p].todo \cap Files :
        /\ f = UploadFile => req[p].todo \cap PartFiles = {}
        /\ req' = [req EXCEPT ![p].todo = @ \ {f}]
        /\ live' = (live /\ f # UploadFile)
        /\ data' = IF f[2] = "data" THEN [data EXCEPT ![f[1]] = Absent] ELSE data
        /\ etag' = IF f[2] = "json" THEN [etag EXCEPT ![f[1]] = Absent] ELSE etag
        /\ linked' = linked \ {q \in Procs :
                \/ req[q].pc = "copy"   /\ f = <<req[q].part, "data">>
                \/ req[q].pc = "jwrite" /\ f = <<req[q].part, "json">>}
    /\ UNCHANGED <<created, overlap, object, puts, history>>

(* An entry cannot be removed, or a directory not read, and upload.json is  *)
(* among what stays: RemoveAll goes on with the rest, but the entries come *)
(* in any order.  Without upload.json what stays is only for the sweep.    *)
CleanupFail(p) ==
    /\ At(p, "list") \/ At(p, "remove")
    /\ CanFail /\ live
    /\ Finish(p, IF req[p].op = "complete" THEN "ok" ELSE "error")
    /\ UNCHANGED <<created, files, object, puts, history>>

(* Abort returns the error of the cleanup, Complete ignores it. *)
CleanupEnd(p) ==
    /\ At(p, "remove") /\ req[p].todo = {}
    /\ LET out == IF Present = {} \/ req[p].op = "complete" THEN "ok" ELSE "error"
       IN Finish(p, out) /\ ended' = (ended \/ out = "ok")
    /\ UNCHANGED <<created, files, object, puts, settled>>

-----------------------------------------------------------------------------
(* The process dies; storage.New sweeps the staging directory before any    *)
(* request is served.                                                      *)
Restart ==
    /\ CanCrash
    /\ live' = FALSE
    /\ data' = [n \in Parts |-> Absent]
    /\ etag' = [n \in Parts |-> Absent]
    /\ linked' = {}
    /\ overlap' = {}
    /\ req' = [p \in Procs |-> Idle]
    /\ ended' = created
    /\ settled' = [n \in Parts |-> Absent]
    /\ UNCHANGED <<created, object, puts>>

PartStep(p) ==
    \/ PartCreate(p) \/ PartCopy(p) \/ PartCopyFail(p)
    \/ PartDescribe(p) \/ PartDescribed(p) \/ PartDescribeFail(p)

CompleteStep(p) ==
    \/ CompleteOpen(p) \/ VerifyPart(p) \/ Verified(p) \/ ReadPart(p)
    \/ Assembled(p) \/ Store(p) \/ StoreFail(p)

CleanupStep(p) ==
    \/ CleanupList(p) \/ CleanupListParts(p) \/ CleanupRemove(p) \/ CleanupFail(p)
    \/ CleanupEnd(p)

Next ==
    \/ Create
    \/ \E p \in Procs :
         Begin(p) \/ Reply(p) \/ Check(p) \/ PartStep(p) \/ CompleteStep(p) \/ CleanupStep(p)
    \/ Restart

Spec == Init /\ [][Next]_vars

-----------------------------------------------------------------------------
(* Properties *)

(* Every variable has its type, and a request that is over has no file open. *)
TypeOK ==
    /\ created \in BOOLEAN /\ live \in BOOLEAN /\ ended \in BOOLEAN
    /\ data \in [Parts -> Contents]
    /\ etag \in [Parts -> Contents]
    /\ linked \subseteq Procs
    /\ overlap \subseteq Procs
    /\ object \in [Parts -> Contents]
    /\ puts \in 0..MaxPuts
    /\ req \in [Procs -> Request]
    /\ settled \in [Parts -> Bodies \cup {Absent}]
    /\ \A p \in linked \cup overlap : req[p].pc \in {"copy", "jwrite"}

(* An upload that was completed, aborted or swept is over: whatever other   *)
(* requests were in progress at the time and however they interleave with  *)
(* the cleanup, a request that begins later finds no such upload.  The      *)
(* exception shows in ended: a Complete whose cleanup fails succeeds all    *)
(* the same, and the upload stays.                                         *)
LateRequestsFail ==
    \A p \in Procs : req[p].late => req[p].pc \in {"check", "open"} \/ req[p].out = "notfound"

(* A successful Complete stores, for every part it names, the body with the *)
(* ETag it names, as far as the part was settled: its last UploadPart       *)
(* worked on it alone and succeeded, and none has begun to write since.    *)
SettledPartsStored ==
    \A p \in Procs :
        req[p].op = "complete" /\ req[p].out = "ok" =>
            \A n \in req[p].sure \cap Named(p) : req[p].got[n] = req[p].named[n]

(* "Verify all parts exist and ETags match": what a successful Complete    *)
(* stores for a part is the body with the ETag the client named.           *)
VerifiedPartsStored ==
    \A p \in Procs :
        req[p].op = "complete" /\ req[p].out = "ok" =>
            \A n \in Named(p) : req[p].got[n] = req[p].named[n]
=============================================================================
