--------------------------- MODULE IAMStoreProofs ---------------------------
(***************************************************************************)
(* Type correctness of IAMStore, and its two safety properties, for any    *)
(* number of goroutines, users, keys, groups, requests and faults.         *)
(*                                                                         *)
(*   TypeCorrect     TypeOK, FilesTyped, Shape                             *)
(*   AnswersCorrect  Accounts: of the files and keys of users              *)
(*   MembersCorrect  Memberships: of the groups and the index of members   *)
(***************************************************************************)
EXTENDS IAMStore, TLAPS

-----------------------------------------------------------------------------
(* The parts of the inductive invariants *)

\* What the file of a name may hold.
Enabled(k)  == UserFile(k, TRUE)
Disabled(k) == UserFile(k, FALSE)
Active      == Account(TRUE)
Inactive    == Account(FALSE)

UserFiles  == {Enabled(k) : k \in Keys} \cup {Disabled(k) : k \in Keys}
GroupFiles == {GroupFile(s) : s \in SUBSET Users}

UserContents    == {None, Empty, Garbled} \cup UserFiles
GroupContents   == {None, Empty, Garbled} \cup GroupFiles
AccountContents == {None, Empty, Garbled, Active, Inactive}

FilesTyped ==
    /\ \A u \in Users : files[u] \in UserContents
    /\ \A g \in Groups : files[g] \in GroupContents
    /\ \A k \in Keys : files[k] \in AccountContents

SaveUserOps == {"create", "enable", "disable", "attach"}
SaveGroupOps == {"addgroup", "join", "leave"}

\* The user file that a request has ready to be written.
UserData(r) ==
    /\ r.key \in Keys /\ r.data \in {Enabled(r.key), Disabled(r.key)}
    /\ r.op \in {"create", "enable"} => r.data = Enabled(r.key)
    /\ r.op = "disable" => r.data = Disabled(r.key)

\* Which requests run which steps, and what they hold then.
Named(r) ==
    /\ r.op \in UserOps => r.name \in Users
    /\ r.op \in GroupOps => r.name \in Groups
    /\ r.op \in AccountOps => r.name \in Keys
    /\ r.op = "create" => r.key \in Keys
    /\ r.user \in Users => r.op \in UserOps \cup {"join", "leave"}

Stepped(r) ==
    /\ r.pc = "find" => r.op \in {"create", "addaccount"}
    /\ r.pc = "stat" => r.op \in {"addgroup", "addaccount"}
    /\ r.pc = "get" => /\ r.op \in AllOps \ {"create", "addgroup", "join", "leave", "addaccount"}
                       /\ r.data = None
    /\ r.pc = "claim" => r.op \in SaveUserOps /\ (r.op # "create" => UserData(r))
    /\ r.pc \in {"check", "read"} => r.op \in {"join", "leave"} /\ r.user \in Users
    /\ r.pc = "index" => r.op = "join" /\ r.user \in Users
    /\ r.pc = "unindex" =>
         \/ r.op = "leave" /\ r.user \in Users
         \/ r.op = "delete" /\ r.file \in Groups
         \/ r.op = "delgroup" /\ r.data \in GroupFiles
    /\ r.pc = "groups" => r.op = "delete"
    /\ r.pc = "load" => r.op \in {"delete", "delgroup"}
    /\ r.pc = "remove" => /\ r.op \in {"delete", "delgroup", "delaccount"}
                          /\ r.op = "delete" => r.data \in UserContents
                          /\ r.op = "delgroup" => r.data \in GroupContents
                          /\ r.op = "delaccount" => r.data = None
    /\ r.pc = "unclaim" => r.op = "delete" /\ r.data \in UserFiles

Saving(r) ==
    r.pc \in SavePCs =>
      \/ r.op \in SaveUserOps /\ r.file = r.name /\ UserData(r)
      \/ /\ r.op \in SaveGroupOps \cup {"delete"} /\ r.file \in Groups
         /\ r.op \in SaveGroupOps => r.file = r.name
         /\ r.op \in {"join", "leave"} => r.user \in Users
         /\ r.data \in GroupFiles
      \/ /\ r.op \in {"addaccount", "setaccount"} /\ r.file = r.name
         /\ r.data = IF r.op = "addaccount" THEN Active ELSE Inactive

Shape == \A p \in Procs : Busy(p) => Named(req[p]) /\ Stepped(req[p]) /\ Saving(req[p])

\* Without a process there are no requests.
Down == ~up => \A p \in Procs : ~Busy(p)

\* A request that is alone shares nothing with another one.
Alone ==
    \A p, q \in Procs :
      p # q /\ Busy(p) /\ Busy(q) /\ req[p].alone => About(req[p]) \cap About(req[q]) = {}

\* Requests that share a group are known to have done so.
Shared ==
    \A p, q \in Procs :
      p # q /\ Busy(p) /\ Busy(q) =>
        Groups \cap About(req[p]) \cap About(req[q]) \subseteq mixed

\* The key of a user's file signs in the user, and so does the key of a file
\* about to be written or of one that a deletion, alone, has read or removed.
Signs(key, u) == holder[key] = u \/ key \in mixed

Claimed ==
    /\ \A u \in Users : files[u].kind = "user" => Signs(files[u].key, u)
    /\ \A p \in Procs :
         req[p].pc \in SavePCs /\ req[p].op \in SaveUserOps => Signs(req[p].key, req[p].name)
    /\ \A p \in Procs :
         /\ req[p].pc \in {"remove", "unclaim"} /\ req[p].alone
         /\ req[p].op = "delete" /\ req[p].data.kind = "user"
         => Signs(req[p].data.key, req[p].name)

\* While a UUID is new no file has it, and other requests about it find none.
Unborn(u) ==
    \/ told[u] = "new"
    \/ \E p \in Procs : /\ req[p].op = "create" /\ req[p].name = u
                        /\ req[p].pc \in {"find", "claim", "truncate"}

Fresh ==
    /\ \A u \in Users : Unborn(u) =>
         /\ files[u] = None
         /\ \A q \in Procs : Busy(q) /\ req[q].name = u =>
              req[q].op = "create" \/ req[q].pc = "get"
    /\ \A p \in Procs : Busy(p) /\ req[p].op = "create" => told[req[p].name] = "unknown"
    /\ \A p, q \in Procs :
         (Busy(p) /\ Busy(q) /\ req[p].name = req[q].name
          /\ req[p].op = "create" /\ req[q].op = "create") => p = q

\* A request that has changed the file of a user or account: it will be
\* answered, and not refused.
Committed(p, n) ==
    /\ req[p].name = n
    /\ req[p].pc = "unclaim" \/ (req[p].pc = "write" /\ req[p].file = n)

\* What was told is so, or else a request is about to tell something else.
ToldFile(n) ==
    /\ told[n] \in {"on", "off"} =>
         /\ files[n].kind \in {"user", "account"} /\ files[n].on = (told[n] = "on")
    /\ told[n] \in {"none", "new"} => files[n] = None

Known == \A n \in Users \cup Keys : (\A p \in Procs : ~Committed(p, n)) => ToldFile(n)

\* What a request about a user or account finds as long as it is alone.
Undisturbed ==
    \A p \in Procs : Busy(p) /\ req[p].alone /\ req[p].op \notin GroupOps =>
      LET r == req[p]
      IN /\ r.pc = "claim" /\ r.op = "attach" => files[r.name] = r.data
         /\ r.pc = "write" /\ r.file = r.name => p \in linked /\ files[r.name] = Empty
         /\ r.pc = "unclaim" => files[r.name] = None

\* A request that is changing the group g, and the user who joins or leaves.
Changing(p, g) ==
    \/ req[p].pc \in SavePCs /\ req[p].file = g
    \/ /\ req[p].pc \in {"index", "unindex"}
       /\ g = IF req[p].op = "delete" THEN req[p].file ELSE req[p].name

Mover(r) == IF r.op = "delete" THEN r.name ELSE r.user

Agree(g, u) == g \in member[u] <=> u \in Members(g)

\* How far the index of a group is from the file while p changes it.
Halfway(p, g) ==
    LET r == req[p]
        Others == Users \ {Mover(r)}
    IN /\ r.pc \in SavePCs =>
            /\ \A u \in Others : g \in member[u] <=> u \in r.data.users
            /\ Mover(r) \in r.data.users <=> r.op = "join"
       /\ r.pc = "write" => p \in linked /\ files[g] = Empty
       /\ r.pc \in {"index", "unindex"} /\ r.op # "delgroup" =>
            /\ \A u \in Others : Agree(g, u)
            /\ Mover(r) \in Members(g) <=> r.op = "join"
       /\ r.pc = "unindex" /\ r.op = "delgroup" =>
            files[g] = None /\ \A u \in Users : g \in member[u] => u \in r.data.users

Removing(p, g) ==
    req[p].pc = "remove" /\ req[p].op = "delgroup" /\ req[p].name = g => req[p].data = files[g]

GroupKnown ==
    \A g \in Groups : g \notin mixed =>
      /\ \A p \in Procs : Removing(p, g) /\ (Changing(p, g) => Halfway(p, g))
      /\ (\A p \in Procs : ~Changing(p, g)) => \A u \in Users : Agree(g, u)
-----------------------------------------------------------------------------
(* Values *)

\* The idle request is a request, and no file has an empty name.
LEMMA IdleType == Idle \in Request /\ NoName \notin Names
  BY DisjointAssumption
     DEF Idle, Request, Names, Contents, None, PCs, AllOps, UserOps, GroupOps, AccountOps

\* The contents of files are told apart.
LEMMA Kinds ==
    /\ None.kind = "none" /\ Empty.kind = "empty" /\ Garbled.kind = "garbled"
    /\ \A k \in Keys : /\ Enabled(k).kind = "user" /\ Enabled(k).key = k
                       /\ Disabled(k).kind = "user" /\ Disabled(k).key = k
                       /\ Enabled(k).on = TRUE /\ Disabled(k).on = FALSE
    /\ \A s \in SUBSET Users : GroupFile(s).kind = "group" /\ GroupFile(s).users = s
    /\ Active.kind = "account" /\ Active.on = TRUE
    /\ Inactive.kind = "account" /\ Inactive.on = FALSE
  BY
     DEF None, Empty, Garbled, Enabled, Disabled, UserFile, GroupFile, Active, Inactive,
         Account

\* What may be written is content.
LEMMA Writable ==
    UserContents \cup GroupContents \cup AccountContents \subseteq Contents
<1>1. {None, Empty, Garbled} \subseteq Contents
  BY DEF Contents
<1>2. UserFiles \subseteq Contents
  <2>1. \A k \in Keys, on \in BOOLEAN : UserFile(k, on) \in Contents
    BY DEF Contents
  <2>2. TRUE \in BOOLEAN /\ FALSE \in BOOLEAN
    OBVIOUS
  <2>3. ASSUME NEW k \in Keys
        PROVE  Enabled(k) \in Contents /\ Disabled(k) \in Contents
    BY <2>1, <2>2, Zenon DEF Enabled, Disabled
  <2> QED
    BY <2>3 DEF UserFiles
<1>3. GroupFiles \subseteq Contents
  BY DEF Contents, GroupFiles, GroupFile
<1>4. {Active, Inactive} \subseteq Contents
  <2>1. TRUE \in BOOLEAN /\ FALSE \in BOOLEAN
    OBVIOUS
  <2>2. {Active, Inactive} \subseteq {Account(on) : on \in BOOLEAN}
    BY <2>1, Zenon DEF Active, Inactive
  <2> QED
    BY <2>2 DEF Contents
<1> QED
  BY <1>1, <1>2, <1>3, <1>4 DEF UserContents, GroupContents, AccountContents

\* What a readable file holds.
LEMMA Held ==
    ASSUME FilesTyped
    PROVE  /\ \A u \in Users : Readable(u) =>
                /\ files[u].key \in Keys /\ files[u] \in UserFiles
                /\ files[u] = Enabled(files[u].key) \/ files[u] = Disabled(files[u].key)
           /\ \A g \in Groups : Readable(g) =>
                files[g].users \in SUBSET Users /\ files[g] = GroupFile(files[g].users)
           /\ \A k \in Keys : Readable(k) => files[k] \in {Active, Inactive}
<1>1. ASSUME NEW u \in Users, Readable(u)
      PROVE  /\ files[u].key \in Keys /\ files[u] \in UserFiles
             /\ files[u] = Enabled(files[u].key) \/ files[u] = Disabled(files[u].key)
  BY <1>1, Kinds DEF FilesTyped, Readable, UserContents, UserFiles
<1>2. ASSUME NEW g \in Groups, Readable(g)
      PROVE  files[g].users \in SUBSET Users /\ files[g] = GroupFile(files[g].users)
  BY <1>2, Kinds DEF FilesTyped, Readable, GroupContents, GroupFiles
<1>3. ASSUME NEW k \in Keys, Readable(k)
      PROVE  files[k] \in {Active, Inactive}
  BY <1>3, Kinds DEF FilesTyped, Readable, AccountContents
<1> QED
  BY <1>1, <1>2, <1>3

-----------------------------------------------------------------------------
(* Steps of a request *)

\* A request that is in progress has the shape of one.
WellFormed(r) == r.pc # "idle" => Named(r) /\ Stepped(r) /\ Saving(r)

\* What a request is about stays as it is.
SameRequest(r, s) ==
    r.op = s.op /\ r.name = s.name /\ r.user = s.user /\ r.alone = s.alone

\* One request becomes another one.
LEMMA Moved ==
    ASSUME req \in [Procs -> Request], NEW p \in Procs, NEW r \in Request, Become(p, r)
    PROVE  /\ req' \in [Procs -> Request] /\ req'[p] = r
           /\ \A q \in Procs \ {p} : req'[q] = req[q]
  BY DEF Become

\* It comes to its next step.
LEMMA Gone ==
    ASSUME req \in [Procs -> Request], NEW p \in Procs, NEW pc \in PCs, Goto(p, pc)
    PROVE  /\ req' \in [Procs -> Request] /\ \A q \in Procs \ {p} : req'[q] = req[q]
           /\ SameRequest(req'[p], req[p]) /\ req'[p].pc = pc /\ req'[p].key = req[p].key
           /\ req'[p].file = req[p].file /\ req'[p].data = req[p].data
           /\ req'[p].groups = req[p].groups
<1>1. req[p] \in Request /\ [req[p] EXCEPT !.pc = pc] \in Request
  BY DEF Request
<1> QED
  BY <1>1, Moved DEF Goto, SameRequest, Request

\* It is about to save a file.
LEMMA Saved ==
    ASSUME req \in [Procs -> Request], NEW p \in Procs, NEW r \in Request, NEW name \in Names,
           NEW data \in Contents, Save(p, r, name, data)
    PROVE  /\ req' \in [Procs -> Request] /\ \A q \in Procs \ {p} : req'[q] = req[q]
           /\ SameRequest(req'[p], r) /\ req'[p].pc = "truncate" /\ req'[p].key = r.key
           /\ req'[p].file = name /\ req'[p].data = data /\ req'[p].groups = r.groups
<1>1. [r EXCEPT !.pc = "truncate", !.file = name, !.data = data] \in Request
  BY DEF Request, PCs, SavePCs
<1> QED
  BY <1>1, Moved DEF Save, SameRequest, Request

\* It is answered.
LEMMA Answered ==
    ASSUME TypeOK, Shape, NEW p \in Procs, Busy(p), NEW out, Answer(p, out)
    PROVE  /\ req' \in [Procs -> Request] /\ \A q \in Procs \ {p} : req'[q] = req[q]
           /\ req'[p] = Idle /\ told' \in [Users \cup Keys -> Lives]
<1>1. req[p] \in Request /\ told \in [Users \cup Keys -> Lives]
  BY DEF TypeOK
<1>2. req[p].op \notin GroupOps => req[p].name \in Users \cup Keys
  BY <1>1 DEF Shape, Named, Request, AllOps
<1>3. Told(req[p]) \in Lives
  BY DEF Told, Lives
<1>4. told' \in [Users \cup Keys -> Lives]
  BY <1>1, <1>2, <1>3 DEF Answer, Lives
<1> QED
  BY <1>4, IdleType, Moved DEF Answer, TypeOK

\* Where a request comes to with one step.
Advanced(p) ==
    /\ req' \in [Procs -> Request] /\ \A q \in Procs \ {p} : req'[q] = req[q]
    /\ told' \in [Users \cup Keys -> Lives]
    /\ req'[p] = Idle \/ (SameRequest(req'[p], req[p]) /\ WellFormed(req'[p]))

\* The steps of a request run while the process does, and only its own.
LEMMA Running ==
    ASSUME NEW p \in Procs, UserStep(p) \/ GroupStep(p) \/ DeleteStep(p)
    PROVE  Busy(p) /\ up = TRUE /\ up' = TRUE /\ calls' = calls
<1> USE DEF Busy, At, SavePCs, stores, disk
<1>1. CASE Find(p)
  BY <1>1 DEF Find
<1>2. CASE StatFile(p)
  BY <1>2 DEF StatFile
<1>3. CASE Get(p)
  BY <1>3 DEF Get
<1>4. CASE AttachedAlready(p)
  BY <1>4 DEF AttachedAlready
<1>5. CASE Claim(p)
  BY <1>5 DEF Claim
<1>6. CASE Truncate(p)
  BY <1>6 DEF Truncate
<1>7. CASE Write(p)
  BY <1>7 DEF Write
<1>8. CASE SaveFail(p)
  BY <1>8 DEF SaveFail
<1>9. CASE CheckUser(p)
  BY <1>9 DEF CheckUser
<1>10. CASE ReadGroup(p)
  BY <1>10 DEF ReadGroup
<1>11. CASE AddToIndex(p)
  BY <1>11 DEF AddToIndex
<1>12. CASE RemoveFromIndex(p)
  BY <1>12 DEF RemoveFromIndex
<1>13. CASE IndexFail(p)
  BY <1>13 DEF IndexFail
<1>14. CASE FindGroups(p)
  BY <1>14 DEF FindGroups
<1>15. CASE LeaveGroup(p)
  BY <1>15 DEF LeaveGroup
<1>16. CASE Load(p)
  BY <1>16 DEF Load
<1>17. CASE Remove(p)
  BY <1>17 DEF Remove
<1>18. CASE RemoveFail(p)
  BY <1>18 DEF RemoveFail
<1>19. CASE Unclaim(p)
  BY <1>19 DEF Unclaim
<1>20. CASE UnclaimFail(p)
  BY <1>20 DEF UnclaimFail
<1> QED
  BY <1>1, <1>2, <1>3, <1>4, <1>5, <1>6, <1>7, <1>8, <1>9, <1>10, <1>11, <1>12, <1>13, <1>14,
     <1>15, <1>16, <1>17, <1>18, <1>19, <1>20 DEF UserStep, GroupStep, DeleteStep

\* The steps that requests about users and accounts, and all saves, consist of
\* keep requests well formed.
LEMMA UserStepShape ==
    ASSUME TypeOK, FilesTyped, Shape, NEW p \in Procs, UserStep(p)
    PROVE  Advanced(p)
<1> USE DEF Advanced, WellFormed, At
<1>a. /\ Busy(p) /\ req[p] \in Request /\ req \in [Procs -> Request]
      /\ Named(req[p]) /\ Stepped(req[p]) /\ Saving(req[p])
      /\ told \in [Users \cup Keys -> Lives]
  BY Running DEF TypeOK, Shape
<1>1. CASE Find(p)
  <2>1. CASE Answer(p, "refused")
    BY <1>a, <2>1, Answered
  <2>2. CASE req[p].op = "create" /\ Goto(p, "claim") /\ UNCHANGED told
    BY <1>a, <2>2, Gone, <1>1
       DEF Find, PCs, Named, Stepped, Saving, SameRequest, SavePCs, SaveUserOps
  <2>3. CASE req[p].op # "create" /\ Goto(p, "stat") /\ UNCHANGED told
    BY <1>a, <2>3, Gone, <1>1 DEF Find, PCs, Named, Stepped, Saving, SameRequest, SavePCs
  <2> QED
    BY <1>1, <2>1, <2>2, <2>3 DEF Find
<1>2. CASE StatFile(p)
  <2>1. CASE Answer(p, "refused")
    BY <1>a, <2>1, Answered
  <2>2. CASE req[p].op = "addgroup" /\ Save(p, req[p], req[p].name, GroupFile({})) /\ UNCHANGED told
    <3>1. req[p].name \in Groups /\ GroupFile({}) \in GroupFiles
      BY <1>a, <2>2 DEF Named, GroupOps, GroupFiles
    <3> QED
      BY <1>a, <2>2, <3>1, Saved, Writable
         DEF GroupContents, Names, Named, Stepped, Saving, SameRequest, SavePCs, SaveGroupOps
  <2>3. CASE req[p].op = "addaccount" /\ Save(p, req[p], req[p].name, Active) /\ UNCHANGED told
    <3>1. req[p].name \in Keys
      BY <1>a, <2>3 DEF Named, AccountOps
    <3> QED
      BY <1>a, <2>3, <3>1, Saved, Writable
         DEF AccountContents, Names, Named, Stepped, Saving, SameRequest, SavePCs
  <2> QED
    BY <1>a, <1>2, <2>1, <2>2, <2>3 DEF StatFile, Stepped, Active
<1>3. CASE Get(p)
  <2>1. CASE Answer(p, "refused")
    BY <1>a, <2>1, Answered
  <2>2. CASE Readable(req[p].name) /\ req[p].op \in {"enable", "disable", "attach"}
    <3> DEFINE old == files[req[p].name]
               data == IF req[p].op = "enable" THEN Enabled(old.key)
                       ELSE IF req[p].op = "disable" THEN Disabled(old.key) ELSE old
               s == [req[p] EXCEPT !.pc = "claim", !.key = old.key, !.data = data]
    <3>1. /\ req[p].name \in Users /\ old.key \in Keys
          /\ old \in {Enabled(old.key), Disabled(old.key)}
      BY <1>a, <2>2, Held DEF Named, UserOps
    <3>2. /\ Become(p, s) /\ UNCHANGED told
      <4> DEFINE status == CASE req[p].op = "enable" -> TRUE [] req[p].op = "disable" -> FALSE
                             [] OTHER -> old.on
                 t == [req[p] EXCEPT !.pc = "claim", !.key = old.key,
                                     !.data = UserFile(old.key, status)]
      <4>1. Become(p, t) /\ UNCHANGED told
        <5> HIDE DEF t
        <5> QED
          BY <1>3, <2>2 DEF Get, t
      <4>2. UserFile(old.key, status) = data
        <5>1. CASE old.on = TRUE /\ old = UserFile(old.key, TRUE)
          BY <5>1, <2>2 DEF Enabled, Disabled
        <5>2. CASE old.on = FALSE /\ old = UserFile(old.key, FALSE)
          BY <5>2, <2>2 DEF Enabled, Disabled
        <5>3. Enabled(old.key).on = TRUE /\ Disabled(old.key).on = FALSE
          BY DEF Enabled, Disabled, UserFile
        <5> HIDE DEF old
        <5> QED
          BY <3>1, <5>1, <5>2, <5>3 DEF Enabled, Disabled
      <4> HIDE DEF data, status
      <4> QED
        BY <4>1, <4>2
    <3>3. /\ s \in Request /\ SameRequest(s, req[p]) /\ s.pc = "claim" /\ s.key = old.key
          /\ s.data = data
      <4>1. data \in Contents
        BY <3>1, Writable DEF UserContents, UserFiles
      <4> HIDE DEF data
      <4> QED
        BY <1>a, <3>1, <4>1 DEF Request, PCs, SameRequest
    <3>4. UserData(s)
      BY <2>2, <3>1, <3>3 DEF UserData, SameRequest
    <3>5. Named(s) /\ Stepped(s) /\ Saving(s)
      BY <1>a, <2>2, <3>3, <3>4 DEF Named, Stepped, Saving, SameRequest, SavePCs, SaveUserOps
    <3> QED
      BY <1>a, <3>2, <3>3, <3>5, Moved
  <2>3. CASE req[p].op = "setaccount" /\ Save(p, req[p], req[p].name, Inactive) /\ UNCHANGED told
    <3>1. req[p].name \in Keys
      BY <1>a, <2>3 DEF Named, AccountOps
    <3> QED
      BY <1>a, <2>3, <3>1, Saved, Writable
         DEF AccountContents, Names, Named, Stepped, Saving, SameRequest, SavePCs
  <2>4. CASE req[p].op = "delete" /\ Goto(p, "groups") /\ UNCHANGED told
    BY <1>a, <2>4, Gone DEF PCs, Named, Stepped, Saving, SameRequest, SavePCs
  <2>5. CASE req[p].op = "delgroup" /\ Goto(p, "load") /\ UNCHANGED told
    BY <1>a, <2>5, Gone DEF PCs, Named, Stepped, Saving, SameRequest, SavePCs
  <2>6. CASE req[p].op = "delaccount" /\ Goto(p, "remove") /\ UNCHANGED told
    BY <1>a, <1>3, <2>6, Gone DEF Get, PCs, Named, Stepped, Saving, SameRequest, SavePCs
  <2> QED
    BY <1>a, <1>3, <2>1, <2>2, <2>3, <2>4, <2>5, <2>6
       DEF Get, Stepped, AllOps, UserOps, GroupOps, AccountOps, Inactive
<1>4. CASE AttachedAlready(p)
  BY <1>a, <1>4, Answered DEF AttachedAlready
<1>5. CASE Claim(p)
  <2>1. CASE Answer(p, "refused")
    BY <1>a, <2>1, Answered
  <2>2. CASE ~Answer(p, "refused")
    <3> DEFINE data == IF req[p].op = "create" THEN Enabled(req[p].key) ELSE req[p].data
    <3>1. Save(p, req[p], req[p].name, data) /\ UNCHANGED told
      BY <1>5, <2>2 DEF Claim, Enabled
    <3>2. /\ req[p].op \in SaveUserOps /\ req[p].name \in Users /\ req[p].key \in Keys
          /\ data \in {Enabled(req[p].key), Disabled(req[p].key)}
          /\ req[p].op \in {"create", "enable"} => data = Enabled(req[p].key)
          /\ req[p].op = "disable" => data = Disabled(req[p].key)
      BY <1>a, <1>5 DEF Claim, Named, Stepped, UserData, SaveUserOps, UserOps
    <3>3. data \in Contents
      BY <3>2, Writable DEF UserContents, UserFiles
    <3> HIDE DEF data
    <3> QED
      BY <1>a, <3>1, <3>2, <3>3, Saved
         DEF Names, Named, Stepped, Saving, UserData, SameRequest, SavePCs
  <2> QED
    BY <2>1, <2>2
<1>6. CASE Truncate(p)
  BY <1>a, <1>6, Gone DEF Truncate, PCs, Named, Stepped, Saving, SameRequest, SavePCs, UserData
<1>7. CASE Write(p)
  <2>1. CASE Answer(p, "ok")
    BY <1>a, <2>1, Answered
  <2>2. CASE req[p].op = "join" /\ Goto(p, "index") /\ UNCHANGED told
    BY <1>a, <1>7, <2>2, Gone
       DEF Write, PCs, Named, Stepped, Saving, SameRequest, SavePCs, SaveUserOps
  <2>3. CASE req[p].op \in {"leave", "delete"} /\ Goto(p, "unindex") /\ UNCHANGED told
    BY <1>a, <1>7, <2>3, Gone
       DEF Write, PCs, Named, Stepped, Saving, SameRequest, SavePCs, SaveUserOps
  <2> QED
    BY <1>7, <2>1, <2>2, <2>3 DEF Write
<1>8. CASE SaveFail(p)
  <2>1. CASE Answer(p, "failed")
    BY <1>a, <2>1, Answered
  <2>2. CASE req[p].op = "delete" /\ Goto(p, "groups") /\ UNCHANGED told
    BY <1>a, <1>8, <2>2, Gone DEF PCs, Named, Stepped, Saving, SameRequest, SavePCs
  <2> QED
    BY <1>8, <2>1, <2>2 DEF SaveFail
<1> QED
  BY <1>1, <1>2, <1>3, <1>4, <1>5, <1>6, <1>7, <1>8 DEF UserStep

\* So do the steps that change groups ...
LEMMA GroupStepShape ==
    ASSUME TypeOK, FilesTyped, Shape, NEW p \in Procs, GroupStep(p)
    PROVE  Advanced(p)
<1> USE DEF Advanced, WellFormed, At
<1>a. /\ Busy(p) /\ req[p] \in Request /\ req \in [Procs -> Request]
      /\ Named(req[p]) /\ Stepped(req[p]) /\ Saving(req[p])
      /\ told \in [Users \cup Keys -> Lives]
  BY Running DEF TypeOK, Shape
<1>1. CASE CheckUser(p)
  <2>1. CASE Answer(p, "refused")
    BY <1>a, <2>1, Answered
  <2>2. CASE Goto(p, "read") /\ UNCHANGED told
    BY <1>a, <1>1, <2>2, Gone DEF CheckUser, PCs, Named, Stepped, Saving, SameRequest, SavePCs
  <2> QED
    BY <1>1, <2>1, <2>2 DEF CheckUser
<1>2. CASE ReadGroup(p)
  <2>1. CASE \E out : Answer(p, out)
    BY <1>a, <2>1, Answered
  <2>2. CASE ~\E out : Answer(p, out)
    <3> DEFINE users == files[req[p].name].users
               now == IF req[p].op = "join" THEN users \cup {req[p].user}
                      ELSE users \ {req[p].user}
    <3>1. Save(p, req[p], req[p].name, GroupFile(now)) /\ UNCHANGED told /\ Readable(req[p].name)
      BY <1>2, <2>2 DEF ReadGroup
    <3>2. req[p].name \in Groups /\ req[p].op \in {"join", "leave"} /\ req[p].user \in Users
      BY <1>a, <1>2 DEF ReadGroup, Named, Stepped, GroupOps
    <3>3. GroupFile(now) \in GroupFiles
      <4>1. now \in SUBSET Users
        BY <3>1, <3>2, Held
      <4> QED
        BY <4>1 DEF GroupFiles
    <3> HIDE DEF now
    <3> QED
      BY <1>a, <3>1, <3>2, <3>3, Saved, Writable
         DEF GroupContents, Names, Named, Stepped, Saving, SameRequest, SavePCs, SaveGroupOps
  <2> QED
    BY <2>1, <2>2
<1>3. CASE AddToIndex(p)
  BY <1>a, <1>3, Answered DEF AddToIndex
<1>4. CASE RemoveFromIndex(p)
  <2>1. CASE Answer(p, "ok")
    BY <1>a, <2>1, Answered
  <2>2. CASE req[p].op = "delete" /\ Goto(p, "groups") /\ UNCHANGED told
    BY <1>a, <2>2, Gone DEF PCs, Named, Stepped, Saving, SameRequest, SavePCs
  <2> QED
    BY <1>a, <1>4, <2>1, <2>2 DEF RemoveFromIndex, Stepped
<1>5. CASE IndexFail(p)
  <2>1. CASE Answer(p, "ok")
    BY <1>a, <2>1, Answered
  <2>2. CASE req[p].op = "delete" /\ Goto(p, "groups") /\ UNCHANGED told
    BY <1>a, <2>2, Gone DEF PCs, Named, Stepped, Saving, SameRequest, SavePCs
  <2> QED
    BY <1>5, <2>1, <2>2 DEF IndexFail
<1> QED
  BY <1>1, <1>2, <1>3, <1>4, <1>5 DEF GroupStep

\* ... and those of deletions.
LEMMA DeleteStepShape ==
    ASSUME TypeOK, FilesTyped, Shape, NEW p \in Procs, DeleteStep(p)
    PROVE  Advanced(p)
<1> USE DEF Advanced, WellFormed, At
<1>a. /\ Busy(p) /\ req[p] \in Request /\ req \in [Procs -> Request]
      /\ Named(req[p]) /\ Stepped(req[p]) /\ Saving(req[p])
      /\ told \in [Users \cup Keys -> Lives]
  BY Running DEF TypeOK, Shape
<1>1. CASE FindGroups(p)
  <2> DEFINE s == [req[p] EXCEPT !.groups = member[req[p].name], !.data = Empty]
  <2>1. req[p].op = "delete" /\ req[p].name \in Users /\ req[p].pc = "groups"
    BY <1>a, <1>1 DEF FindGroups, Named, Stepped, UserOps
  <2>2. member[req[p].name] \in SUBSET (Groups \cup {NoName}) /\ Empty \in Contents
    BY <2>1, Writable DEF TypeOK, UserContents
  <2>3. s \in Request /\ SameRequest(s, req[p]) /\ s.pc = "groups"
    BY <1>a, <2>1, <2>2 DEF Request, SameRequest
  <2> QED
    BY <1>a, <1>1, <2>1, <2>3, Moved
       DEF FindGroups, Named, Stepped, Saving, SameRequest, SavePCs
<1>2. CASE LeaveGroup(p)
  <2>1. req[p].op = "delete" /\ req[p].name \in Users /\ req[p].pc = "groups"
    BY <1>a, <1>2 DEF LeaveGroup, Named, Stepped, UserOps
  <2>2. CASE req[p].groups = {}
    BY <1>a, <1>2, <2>1, <2>2, Gone
       DEF LeaveGroup, PCs, Named, Stepped, Saving, SameRequest, SavePCs
  <2>3. ASSUME NEW g \in req[p].groups,
               IF g \in Groups /\ Readable(g)
               THEN Save(p, [req[p] EXCEPT !.groups = @ \ {g}], g,
                         GroupFile(files[g].users \ {req[p].name}))
               ELSE Become(p, [req[p] EXCEPT !.groups = @ \ {g}])
        PROVE  /\ req' \in [Procs -> Request] /\ \A q \in Procs \ {p} : req'[q] = req[q]
               /\ SameRequest(req'[p], req[p]) /\ WellFormed(req'[p])
    <3> DEFINE rest == [req[p] EXCEPT !.groups = @ \ {g}]
    <3>1. rest \in Request /\ SameRequest(rest, req[p]) /\ rest.pc = "groups"
      BY <1>a, <2>1 DEF Request, SameRequest
    <3> HIDE DEF rest
    <3>2. CASE g \in Groups /\ Readable(g)
      <4> DEFINE now == files[g].users \ {req[p].name}
      <4>1. GroupFile(now) \in GroupFiles
        BY <3>2, Held DEF GroupFiles
      <4>2. Save(p, rest, g, GroupFile(now))
        BY <2>3, <3>2 DEF rest
      <4> HIDE DEF now
      <4> QED
        BY <1>a, <2>1, <3>1, <3>2, <4>1, <4>2, Saved, Writable
           DEF GroupContents, Names, Named, Stepped, Saving, SameRequest, SavePCs, SaveGroupOps
    <3>3. CASE ~(g \in Groups /\ Readable(g))
      <4>1. Become(p, rest)
        BY <2>3, <3>3 DEF rest
      <4> QED
        BY <1>a, <2>1, <3>1, <4>1, Moved DEF Named, Stepped, Saving, SameRequest, SavePCs
    <3> QED
      BY <3>2, <3>3
  <2> QED
    BY <1>a, <1>2, <2>2, <2>3 DEF LeaveGroup
<1>3. CASE Load(p)
  <2> DEFINE s == [req[p] EXCEPT !.pc = "remove", !.data = files[req[p].name]]
  <2>1. /\ req[p].op \in {"delete", "delgroup"}
        /\ req[p].op = "delete" => req[p].name \in Users
        /\ req[p].op = "delgroup" => req[p].name \in Groups
    BY <1>a, <1>3 DEF Load, Named, Stepped, UserOps, GroupOps
  <2>2. /\ req[p].op = "delete" => files[req[p].name] \in UserContents
        /\ req[p].op = "delgroup" => files[req[p].name] \in GroupContents
    BY <2>1 DEF FilesTyped
  <2>3. /\ s \in Request /\ SameRequest(s, req[p]) /\ s.pc = "remove"
        /\ s.data = files[req[p].name]
    BY <1>a, <2>1, <2>2, Writable DEF Request, SameRequest, PCs
  <2> QED
    BY <1>a, <1>3, <2>1, <2>2, <2>3, Moved
       DEF Load, Named, Stepped, Saving, SameRequest, SavePCs
<1>4. CASE Remove(p)
  <2>1. CASE Answer(p, "ok")
    BY <1>a, <2>1, Answered
  <2>2. CASE req[p].data.kind = "user" /\ Goto(p, "unclaim") /\ UNCHANGED told
    <3>1. req[p].op = "delete" /\ req[p].data \in UserFiles
      BY <1>a, <1>4, <2>2, Kinds DEF Remove, Stepped, UserContents, GroupContents, GroupFiles
    <3> QED
      BY <1>a, <2>2, <3>1, Gone DEF PCs, Named, Stepped, Saving, SameRequest, SavePCs
  <2>3. CASE req[p].data.kind = "group" /\ Goto(p, "unindex") /\ UNCHANGED told
    <3>1. req[p].op = "delgroup" /\ req[p].data \in GroupFiles
      BY <1>a, <1>4, <2>3, Kinds DEF Remove, Stepped, UserContents, GroupContents, UserFiles
    <3> QED
      BY <1>a, <2>3, <3>1, Gone DEF PCs, Named, Stepped, Saving, SameRequest, SavePCs
  <2> QED
    BY <1>4, <2>1, <2>2, <2>3 DEF Remove
<1>5. CASE RemoveFail(p)
  BY <1>a, <1>5, Answered DEF RemoveFail
<1>6. CASE Unclaim(p)
  BY <1>a, <1>6, Answered DEF Unclaim
<1>7. CASE UnclaimFail(p)
  BY <1>a, <1>7, Answered DEF UnclaimFail
<1> QED
  BY <1>1, <1>2, <1>3, <1>4, <1>5, <1>6, <1>7 DEF DeleteStep

\* Every step of a request keeps all requests well formed.
LEMMA StepShape ==
    ASSUME TypeOK, FilesTyped, Shape, NEW p \in Procs,
           UserStep(p) \/ GroupStep(p) \/ DeleteStep(p)
    PROVE  Advanced(p) /\ Shape'
<1>1. Advanced(p)
  BY UserStepShape, GroupStepShape, DeleteStepShape
<1>2. ASSUME SameRequest(req'[p], req[p]), WellFormed(req'[p])
      PROVE  Busy(p)' => Named(req'[p]) /\ Stepped(req'[p]) /\ Saving(req'[p])
  BY <1>2 DEF Busy, WellFormed
<1>3. ASSUME NEW q \in Procs, q # p
      PROVE  Busy(q)' => Named(req'[q]) /\ Stepped(req'[q]) /\ Saving(req'[q])
  BY <1>1, <1>3 DEF Advanced, Shape, Busy
<1> QED
  BY <1>1, <1>2, <1>3 DEF Advanced, Shape, Busy, Idle

-----------------------------------------------------------------------------
(* Type correctness *)

\* The file that a request is about to write is there to hold what it writes.
LEMMA Target ==
    ASSUME TypeOK, Shape, NEW p \in Procs, req[p].pc \in SavePCs
    PROVE  /\ req[p].file \in Names
           /\ req[p].file \in Users => req[p].data \in UserContents
           /\ req[p].file \in Groups => req[p].data \in GroupContents
           /\ req[p].file \in Keys => req[p].data \in AccountContents
<1>1. Named(req[p]) /\ Saving(req[p])
  BY DEF Shape, Busy, SavePCs
<1>2. CASE req[p].op \in SaveUserOps
  BY <1>1, <1>2, DisjointAssumption
     DEF Named, Saving, SaveUserOps, UserOps, UserData, UserContents, UserFiles, Names,
         SaveGroupOps
<1>3. CASE req[p].op \in SaveGroupOps \cup {"delete"}
  BY <1>1, <1>3, DisjointAssumption
     DEF Named, Saving, SaveGroupOps, GroupOps, GroupContents, Names, SaveUserOps
<1>4. CASE req[p].op \in {"addaccount", "setaccount"}
  BY <1>1, <1>4, DisjointAssumption
     DEF Named, Saving, AccountOps, AccountContents, Names, SaveUserOps, SaveGroupOps
<1> QED
  BY <1>1, <1>2, <1>3, <1>4 DEF Saving

\* What a file may hold whatever it is for.
LEMMA Put ==
    ASSUME FilesTyped, files \in [Names -> Contents], NEW name \in Names, NEW data,
           name \in Users => data \in UserContents,
           name \in Groups => data \in GroupContents,
           name \in Keys => data \in AccountContents,
           files' = [files EXCEPT ![name] = data]
    PROVE  FilesTyped' /\ files' \in [Names -> Contents]
<1>1. data \in Contents
  BY Writable DEF Names
<1>2. FilesTyped'
  BY DEF FilesTyped, Names
<1> QED
  BY <1>1, <1>2

\* Every step leaves in a file what a file of its kind may hold.
LEMMA FilesStep ==
    ASSUME TypeOK, FilesTyped, Shape, NEW p \in Procs,
           UserStep(p) \/ GroupStep(p) \/ DeleteStep(p)
    PROVE  FilesTyped' /\ files' \in [Names -> Contents]
<1>a. files \in [Names -> Contents]
  BY DEF TypeOK
<1>b. /\ None \in UserContents \cap GroupContents \cap AccountContents
      /\ Empty \in UserContents \cap GroupContents \cap AccountContents
      /\ Garbled \in UserContents \cap GroupContents \cap AccountContents
  BY DEF UserContents, GroupContents, AccountContents
<1>1. CASE Truncate(p)
  BY <1>a, <1>b, <1>1, Target, Put DEF Truncate, At, SavePCs
<1>2. CASE Write(p)
  <2>1. req[p].pc \in SavePCs
    BY <1>2 DEF Write, At, SavePCs
  <2>2. files' = files \/ \E data \in {req[p].data, Garbled} :
                           files' = [files EXCEPT ![req[p].file] = data]
    BY <1>2 DEF Write, Written
  <2>3. CASE files' = files
    BY <1>a, <2>3 DEF FilesTyped
  <2> QED
    BY <1>a, <1>b, <2>1, <2>2, <2>3, Target, Put
<1>3. CASE Remove(p)
  <2>1. req[p].name \in Names
    BY <1>3 DEF Remove, At, Shape, Busy, Named, Stepped, UserOps, GroupOps, AccountOps, Names
  <2> QED
    BY <1>a, <1>b, <1>3, <2>1, Put DEF Remove
<1>4. CASE files' = files
  BY <1>a, <1>4 DEF FilesTyped
<1> QED
  BY <1>1, <1>2, <1>3, <1>4
     DEF UserStep, GroupStep, DeleteStep, Find, StatFile, Get, AttachedAlready, Claim, SaveFail,
         CheckUser, ReadGroup, AddToIndex, RemoveFromIndex, IndexFail, FindGroups, LeaveGroup,
         Load, RemoveFail, Unclaim, UnclaimFail, stores, disk

\* The other variables.
LEMMA RestStep ==
    ASSUME TypeOK, FilesTyped, Shape, NEW p \in Procs,
           UserStep(p) \/ GroupStep(p) \/ DeleteStep(p)
    PROVE  /\ linked' \subseteq {q \in Procs : req'[q].pc = "write"}
           /\ holder' \in [Keys -> Users \cup {Nobody}]
           /\ member' \in [Users -> SUBSET (Groups \cup {NoName})]
           /\ faults' \in 0..MaxFaults /\ mixed' \subseteq Groups \cup Keys
           /\ mixed \subseteq mixed'
<1>a. /\ linked \subseteq {q \in Procs : req[q].pc = "write"}
      /\ holder \in [Keys -> Users \cup {Nobody}]
      /\ member \in [Users -> SUBSET (Groups \cup {NoName})]
      /\ faults \in 0..MaxFaults /\ mixed \subseteq Groups \cup Keys
  BY DEF TypeOK
<1>b. /\ \A q \in Procs \ {p} : req'[q] = req[q]
      /\ Busy(p) /\ Named(req[p]) /\ Stepped(req[p]) /\ Saving(req[p])
  BY StepShape, Running DEF Advanced, Shape
<1>c. ASSUME linked' \subseteq linked, p \notin linked'
      PROVE  linked' \subseteq {q \in Procs : req'[q].pc = "write"}
  BY <1>a, <1>b, <1>c
<1>d. Fault => faults' \in 0..MaxFaults
  BY <1>a, OpsAssumption DEF Fault
<1>1. CASE Find(p) \/ StatFile(p) \/ Get(p) \/ AttachedAlready(p)
  BY <1>a, <1>c, <1>1 DEF Find, StatFile, Get, AttachedAlready, At, stores, disk
<1>2. CASE Claim(p)
  <2>1. req[p].key \in Keys /\ req[p].name \in Users
    BY <1>b, <1>2 DEF Claim, At, Named, Stepped, SaveUserOps, UserOps, UserData
  <2> QED
    BY <1>a, <1>c, <1>2, <2>1 DEF Claim, At
<1>3. CASE Truncate(p)
  <2>1. req'[p].pc = "write"
    BY <1>3, Gone DEF Truncate, TypeOK, PCs, SavePCs
  <2> QED
    BY <1>a, <1>b, <1>3, <2>1 DEF Truncate, At
<1>4. CASE Write(p)
  BY <1>a, <1>c, <1>4 DEF Write, Written, At
<1>5. CASE SaveFail(p)
  BY <1>a, <1>c, <1>d, <1>5 DEF SaveFail
<1>6. CASE CheckUser(p) \/ ReadGroup(p)
  BY <1>a, <1>c, <1>6 DEF CheckUser, ReadGroup, At, stores, disk
<1>7. CASE AddToIndex(p)
  <2>1. req[p].user \in Users /\ req[p].name \in Groups
    BY <1>b, <1>7 DEF AddToIndex, At, Named, Stepped, GroupOps
  <2>2. Joined(member[req[p].user], req[p].name) \in SUBSET (Groups \cup {NoName})
    BY <1>a, <2>1 DEF Joined
  <2>3. member' \in [Users -> SUBSET (Groups \cup {NoName})]
    BY <1>a, <1>7, <2>1, <2>2 DEF AddToIndex
  <2> QED
    BY <1>a, <1>c, <1>7, <2>3 DEF AddToIndex, At
<1>8. CASE RemoveFromIndex(p)
  <2>1. member' = member \/ \E g, users : member' = Left(g, users)
    BY <1>8 DEF RemoveFromIndex
  <2>2. member' \in [Users -> SUBSET (Groups \cup {NoName})]
    BY <1>a, <2>1 DEF Left
  <2> QED
    BY <1>a, <1>c, <1>8, <2>2 DEF RemoveFromIndex, At
<1>9. CASE IndexFail(p)
  <2>1. req[p].pc \in {"index", "unindex"} =>
          (IF req[p].op = "delete" THEN req[p].file ELSE req[p].name) \in Groups
    BY <1>b DEF Named, Stepped, GroupOps
  <2> QED
    BY <1>a, <1>c, <1>d, <1>9, <2>1 DEF IndexFail, disk
<1>10. CASE FindGroups(p) \/ LeaveGroup(p) \/ Load(p)
  BY <1>a, <1>c, <1>10 DEF FindGroups, LeaveGroup, Load, At, stores, disk
<1>11. CASE Remove(p)
  <2>1. linked' \subseteq linked /\ p \notin linked
    BY <1>a, <1>11 DEF Remove, At
  <2> QED
    BY <1>a, <1>c, <1>11, <2>1 DEF Remove
<1>12. CASE RemoveFail(p)
  BY <1>a, <1>c, <1>d, <1>12 DEF RemoveFail, At, disk
<1>13. CASE Unclaim(p)
  <2>1. req[p].data.key \in Keys
    BY <1>b, <1>13, Kinds DEF Unclaim, At, Stepped, UserFiles
  <2> QED
    BY <1>a, <1>c, <1>13, <2>1 DEF Unclaim, At
<1>14. CASE UnclaimFail(p)
  BY <1>a, <1>c, <1>d, <1>14 DEF UnclaimFail, At, disk
<1> QED
  BY <1>1, <1>2, <1>3, <1>4, <1>5, <1>6, <1>7, <1>8, <1>9, <1>10, <1>11, <1>12, <1>13, <1>14
     DEF UserStep, GroupStep, DeleteStep

\* A request arrives.
LEMMA BeginStep ==
    ASSUME TypeOK, FilesTyped, Shape, NEW p \in Procs, NEW op \in Ops, NEW name \in Names,
           NEW user \in Users \cup {Nobody}, NEW key \in Keys \cup {NoName},
           Begin(p, op, name, user, key)
    PROVE  /\ req' \in [Procs -> Request] /\ ~Busy(p)
           /\ \A q \in Procs \ {p} :
                /\ req'[q].pc = req[q].pc /\ req'[q].op = req[q].op /\ req'[q].name = req[q].name
                /\ req'[q].user = req[q].user /\ req'[q].key = req[q].key
                /\ req'[q].file = req[q].file /\ req'[q].data = req[q].data
                /\ req'[q].alone => req[q].alone
           /\ req'[p].pc = FirstPC(op) /\ req'[p].op = op /\ req'[p].name = name
           /\ req'[p].user = user /\ req'[p].key = key /\ req'[p].data = None
           /\ op \in AllOps /\ FirstPC(op) \in {"find", "stat", "check", "read", "get"}
           /\ mixed \subseteq mixed'
           /\ \A q \in Procs \ {p} :
                Busy(q) /\ About(req[q]) \cap About(req'[p]) # {} =>
                  /\ ~req'[q].alone /\ ~req'[p].alone
                  /\ Groups \cap About(req[q]) \cap About(req'[p]) \subseteq mixed'
<1> DEFINE r == [Idle EXCEPT !.pc = FirstPC(op), !.op = op, !.name = name,
                             !.user = user, !.key = key]
           Others == {q \in Procs : Busy(q) /\ About(req[q]) \cap About(r) # {}}
<1>1. FirstPC(op) \in {"find", "stat", "check", "read", "get"} /\ op \in AllOps
  BY OpsAssumption DEF FirstPC
<1>2. /\ r \in Request /\ r.pc = FirstPC(op) /\ r.op = op /\ r.name = name /\ r.user = user
      /\ r.key = key /\ r.data = None
  BY <1>1, IdleType DEF Idle, Request, PCs
<1>3. req \in [Procs -> Request]
  BY DEF TypeOK
<1>4. /\ ~Busy(p)
      /\ req' = [q \in Procs |-> IF q = p THEN [r EXCEPT !.alone = (Others = {})]
                                 ELSE [req[q] EXCEPT !.alone = @ /\ q \notin Others]]
  BY DEF Begin
<1> HIDE DEF r, Others
<1>5. /\ [r EXCEPT !.alone = (Others = {})] \in Request
      /\ \A q \in Procs : [req[q] EXCEPT !.alone = @ /\ q \notin Others] \in Request
  BY <1>2, <1>3 DEF Request
<1>6. req' \in [Procs -> Request]
  BY <1>4, <1>5
<1>7. req'[p] = [r EXCEPT !.alone = (Others = {})]
  BY <1>4
<1>8. /\ req'[p].pc = FirstPC(op) /\ req'[p].op = op /\ req'[p].name = name
      /\ req'[p].user = user /\ req'[p].key = key /\ req'[p].data = None
  BY <1>2, <1>7 DEF Request
<1>9. ASSUME NEW q \in Procs \ {p}
      PROVE  /\ req'[q].pc = req[q].pc /\ req'[q].op = req[q].op /\ req'[q].name = req[q].name
             /\ req'[q].user = req[q].user /\ req'[q].key = req[q].key
             /\ req'[q].file = req[q].file /\ req'[q].data = req[q].data
             /\ req'[q].alone => req[q].alone
  BY <1>3, <1>4 DEF Request
<1>10. About(req'[p]) = About(r)
  BY <1>2, <1>8 DEF About
<1>11. mixed' = mixed \cup (Groups \cap UNION {About(req[q]) \cap About(r) : q \in Others})
  BY DEF Begin, r, Others
<1>12. ASSUME NEW q \in Procs \ {p}, Busy(q), About(req[q]) \cap About(req'[p]) # {}
       PROVE  /\ ~req'[q].alone /\ ~req'[p].alone
              /\ Groups \cap About(req[q]) \cap About(req'[p]) \subseteq mixed'
  <2>1. q \in Others
    BY <1>10, <1>12 DEF Others
  <2>2. ~req'[q].alone
    BY <1>3, <1>4, <2>1 DEF Request
  <2>3. ~req'[p].alone
    BY <1>2, <1>7, <2>1 DEF Request
  <2> QED
    BY <1>10, <1>11, <2>1, <2>2, <2>3
<1> QED
  BY <1>1, <1>4, <1>6, <1>8, <1>9, <1>11, <1>12

\* Types, contents and shapes are inductive.
LEMMA TypeStep ==
    TypeOK /\ FilesTyped /\ Shape /\ [Next]_vars => (TypeOK /\ FilesTyped /\ Shape)'
<1> SUFFICES ASSUME TypeOK, FilesTyped, Shape, [Next]_vars
             PROVE  (TypeOK /\ FilesTyped /\ Shape)'
  OBVIOUS
<1>1. ASSUME NEW p \in Procs, UserStep(p) \/ GroupStep(p) \/ DeleteStep(p)
      PROVE  (TypeOK /\ FilesTyped /\ Shape)'
  BY <1>1, StepShape, FilesStep, RestStep, Running DEF TypeOK, Advanced
<1>2. ASSUME NEW p \in Procs, NEW op \in Ops, NEW name \in Names,
             NEW user \in Users \cup {Nobody}, NEW key \in Keys \cup {NoName},
             Begin(p, op, name, user, key)
      PROVE  (TypeOK /\ FilesTyped /\ Shape)'
  <2>1. FilesTyped' /\ UNCHANGED <<files, linked, holder, member, up, faults>>
    BY <1>2 DEF Begin, disk, FilesTyped
  <2>2. told' \in [Users \cup Keys -> Lives]
    BY <1>2 DEF Begin, TypeOK, Lives
  <2>3. calls' \in 0..MaxRequests /\ mixed' \subseteq Groups \cup Keys
    <3>1. \E S : mixed' = mixed \cup (Groups \cap S)
      BY <1>2 DEF Begin
    <3>2. calls \in 0..MaxRequests /\ calls > 0 /\ calls' = calls - 1
      BY <1>2 DEF Begin, TypeOK
    <3>3. calls' \in 0..MaxRequests
      BY <3>2, OpsAssumption
    <3> QED
      BY <3>1, <3>3 DEF TypeOK
  <2>4. req' \in [Procs -> Request] /\ linked' \subseteq {q \in Procs : req'[q].pc = "write"}
    <3>1. p \notin linked /\ linked \subseteq {q \in Procs : req[q].pc = "write"}
      BY <1>2, BeginStep DEF TypeOK, Busy
    <3>2. \A q \in Procs \ {p} : req'[q].pc = req[q].pc
      BY <1>2, BeginStep
    <3>3. req' \in [Procs -> Request]
      BY <1>2, BeginStep
    <3> QED
      BY <2>1, <3>1, <3>2, <3>3
  <2>5. Named(req'[p]) /\ Stepped(req'[p]) /\ Saving(req'[p])
    <3>1. /\ op \in UserOps => name \in Users
          /\ op \in GroupOps => name \in Groups
          /\ op \in AccountOps => name \in Keys
          /\ op = "create" => key \in Keys
          /\ user \in Users => op \in UserOps \cup {"join", "leave"}
          /\ op \in {"join", "leave"} => user \in Users
      BY <1>2, DisjointAssumption DEF Begin, Sensible, UserOps, GroupOps, AccountOps
    <3> QED
      BY <1>2, <3>1, BeginStep
         DEF Named, Stepped, Saving, FirstPC, SavePCs, UserOps, GroupOps, AccountOps
  <2>6. ASSUME NEW q \in Procs \ {p}, Busy(q)'
        PROVE  Named(req'[q]) /\ Stepped(req'[q]) /\ Saving(req'[q])
    <3>1. Named(req[q]) /\ Stepped(req[q]) /\ Saving(req[q])
      BY <1>2, <2>6, BeginStep DEF Shape, Busy
    <3> QED
      BY <1>2, <3>1, BeginStep DEF Named, Stepped, Saving, UserData
  <2>7. Shape'
    BY <2>5, <2>6 DEF Shape
  <2> QED
    BY <2>1, <2>2, <2>3, <2>4, <2>7 DEF TypeOK
<1>3. CASE Crash
  <2>1. FilesTyped' /\ Shape' /\ req' \in [Procs -> Request] /\ linked' = {}
    BY <1>3, IdleType DEF Crash, FilesTyped, Shape, Busy, Idle
  <2>2. told' \in [Users \cup Keys -> Lives]
    BY <1>3 DEF Crash, TypeOK, Lives
  <2> QED
    <3>1. faults' \in 0..MaxFaults
      BY <1>3, OpsAssumption DEF Crash, TypeOK, Fault
    <3> QED
      BY <1>3, <2>1, <2>2, <3>1 DEF Crash, TypeOK
<1>4. CASE Start \/ StartFail
  <2>1. FilesTyped' /\ Shape' /\ req' = req
    BY <1>4 DEF Start, StartFail, FilesTyped, Shape, Busy
  <2>2. holder' \in [Keys -> Users \cup {Nobody}]
    BY <1>4 DEF Start, StartFail, ReconcileUsers, TypeOK
  <2>3. member' \in [Users -> SUBSET (Groups \cup {NoName})] /\ mixed' \subseteq Groups \cup Keys
    BY <1>4 DEF Start, StartFail, RebuildGroups, TypeOK
  <2>4. faults' \in 0..MaxFaults
    BY <1>4, OpsAssumption DEF Start, StartFail, Fault, TypeOK
  <2> QED
    BY <1>4, <2>1, <2>2, <2>3, <2>4 DEF Start, StartFail, TypeOK
<1>5. CASE UNCHANGED vars
  BY <1>5 DEF vars, TypeOK, FilesTyped, Shape, Busy
<1> QED
  BY <1>1, <1>2, <1>3, <1>4, <1>5 DEF Next

\* They hold at first.
LEMMA TypeInit == Init => TypeOK /\ FilesTyped /\ Shape
  BY IdleType, Writable, OpsAssumption
     DEF Init, TypeOK, FilesTyped, Shape, Busy, Idle, Lives, UserContents, GroupContents,
         AccountContents, Names

\* Every variable has its type, the files of users, groups and accounts hold
\* users, groups and accounts, and a goroutine whose file is at its path is
\* about to write it (MarshalToFile).
THEOREM TypeCorrect == Spec => []TypeOK
<1>1. Spec => [](TypeOK /\ FilesTyped /\ Shape)
  BY TypeInit, TypeStep, PTL DEF Spec
<1> QED
  BY <1>1, PTL

-----------------------------------------------------------------------------
(* Requests beside each other *)

\* Types, contents and shapes.
Typed == TypeOK /\ FilesTyped /\ Shape

\* How requests are beside each other.
Apart == Down /\ Alone /\ Shared

\* Requests that share what they are about stay known as such.
LEMMA ApartStep == Typed /\ Apart /\ [Next]_vars => Apart'
<1> SUFFICES ASSUME TypeOK, FilesTyped, Shape, Apart, [Next]_vars PROVE Apart'
  BY DEF Typed
<1> USE DEF Apart, Down, Alone, Shared
<1>1. ASSUME NEW p \in Procs, UserStep(p) \/ GroupStep(p) \/ DeleteStep(p)
      PROVE  Apart'
  <2>1. /\ up' = TRUE /\ mixed \subseteq mixed' /\ Busy(p)
        /\ \A q \in Procs \ {p} : req'[q] = req[q]
        /\ req'[p] = Idle \/ SameRequest(req'[p], req[p])
    BY <1>1, StepShape, RestStep, Running DEF Advanced
  <2>2. \A q \in Procs : Busy(q)' => /\ Busy(q) /\ About(req'[q]) = About(req[q])
                                     /\ req'[q].alone = req[q].alone
    BY <2>1 DEF Busy, About, SameRequest, Idle
  <2> QED
    BY <2>1, <2>2
<1>2. ASSUME NEW p \in Procs, NEW op \in Ops, NEW name \in Names,
             NEW user \in Users \cup {Nobody}, NEW key \in Keys \cup {NoName},
             Begin(p, op, name, user, key)
      PROVE  Apart'
  <2>1. up /\ up' = up
    BY <1>2 DEF Begin, disk
  <2>2. \A q \in Procs \ {p} : /\ Busy(q)' <=> Busy(q)
                               /\ About(req'[q]) = About(req[q])
                               /\ req'[q].alone => req[q].alone
    BY <1>2, BeginStep DEF Busy, About
  <2>3. /\ mixed \subseteq mixed'
        /\ \A q \in Procs \ {p} :
             Busy(q) /\ About(req[q]) \cap About(req'[p]) # {} =>
               /\ ~req'[q].alone /\ ~req'[p].alone
               /\ Groups \cap About(req[q]) \cap About(req'[p]) \subseteq mixed'
    BY <1>2, BeginStep
  <2>4. ASSUME NEW q \in Procs, NEW r \in Procs, q # r, Busy(q)', Busy(r)'
        PROVE  /\ req'[q].alone => About(req'[q]) \cap About(req'[r]) = {}
               /\ Groups \cap About(req'[q]) \cap About(req'[r]) \subseteq mixed'
    <3>1. CASE q # p /\ r # p
      BY <2>2, <2>3, <2>4, <3>1
    <3>2. CASE q = p
      BY <2>2, <2>3, <2>4, <3>2
    <3>3. CASE r = p
      BY <2>2, <2>3, <2>4, <3>3
    <3> QED
      BY <3>1, <3>2, <3>3
  <2> QED
    BY <2>1, <2>4
<1>3. CASE Crash
  BY <1>3 DEF Crash, Busy, Idle
<1>4. CASE Start \/ StartFail
  BY <1>4 DEF Start, StartFail, Busy
<1>5. CASE UNCHANGED vars
  BY <1>5 DEF vars, Busy
<1> QED
  BY <1>1, <1>2, <1>3, <1>4, <1>5 DEF Next

-----------------------------------------------------------------------------
(* What a step does *)

\* Where the steps of a request lead.
LEMMA Arrival ==
    ASSUME TypeOK, NEW p \in Procs
    PROVE  /\ Find(p) => req'[p].pc \in {"idle", "claim", "stat"}
           /\ StatFile(p) => req'[p].pc \in {"idle", "truncate"}
           /\ Get(p) => req'[p].pc \in {"idle", "claim", "truncate", "groups", "load", "remove"}
           /\ AttachedAlready(p) => req'[p].pc \in {"idle"}
           /\ Claim(p) => req'[p].pc \in {"idle", "truncate"}
           /\ Truncate(p) => req'[p].pc \in {"write"}
           /\ Write(p) => req'[p].pc \in {"idle", "index", "unindex"}
           /\ SaveFail(p) => req'[p].pc \in {"idle", "groups"}
           /\ CheckUser(p) => req'[p].pc \in {"idle", "read"}
           /\ ReadGroup(p) => req'[p].pc \in {"idle", "truncate"}
           /\ AddToIndex(p) => req'[p].pc \in {"idle"}
           /\ RemoveFromIndex(p) => req'[p].pc \in {"idle", "groups"}
           /\ IndexFail(p) => req'[p].pc \in {"idle", "groups"}
           /\ FindGroups(p) => req'[p].pc \in {"groups"}
           /\ LeaveGroup(p) => req'[p].pc \in {"load", "truncate", "groups"}
           /\ Load(p) => req'[p].pc \in {"remove"}
           /\ Remove(p) => req'[p].pc \in {"idle", "unclaim", "unindex"}
           /\ RemoveFail(p) => req'[p].pc \in {"idle"}
           /\ Unclaim(p) => req'[p].pc \in {"idle"}
           /\ UnclaimFail(p) => req'[p].pc \in {"idle"}
<1> USE DEF Become
<1>a. req \in [Procs -> Request] /\ Idle.pc = "idle"
  BY DEF TypeOK, Idle
<1>b. ASSUME NEW pc, Goto(p, pc) PROVE req'[p].pc = pc
  BY <1>a, <1>b DEF Goto, Request
<1>c. ASSUME NEW out, Answer(p, out) PROVE req'[p].pc = "idle"
  BY <1>a, <1>c DEF Answer
<1>d. ASSUME NEW r \in Request, NEW name, NEW data, Save(p, r, name, data)
      PROVE  req'[p].pc = "truncate"
  BY <1>a, <1>d DEF Save, Request
<1>1. Find(p) => req'[p].pc \in {"idle", "claim", "stat"}
  BY <1>a, <1>b, <1>c, <1>d DEF Find
<1>2. StatFile(p) => req'[p].pc \in {"idle", "truncate"}
  BY <1>a, <1>b, <1>c, <1>d DEF StatFile
<1>3. Get(p) => req'[p].pc \in {"idle", "claim", "truncate", "groups", "load", "remove"}
  BY <1>a, <1>b, <1>c, <1>d DEF Get, Request
<1>4. AttachedAlready(p) => req'[p].pc \in {"idle"}
  BY <1>a, <1>b, <1>c, <1>d DEF AttachedAlready
<1>5. Claim(p) => req'[p].pc \in {"idle", "truncate"}
  BY <1>a, <1>b, <1>c, <1>d DEF Claim
<1>6. Truncate(p) => req'[p].pc \in {"write"}
  BY <1>a, <1>b, <1>c, <1>d DEF Truncate
<1>7. Write(p) => req'[p].pc \in {"idle", "index", "unindex"}
  BY <1>a, <1>b, <1>c, <1>d DEF Write
<1>8. SaveFail(p) => req'[p].pc \in {"idle", "groups"}
  BY <1>a, <1>b, <1>c, <1>d DEF SaveFail
<1>9. CheckUser(p) => req'[p].pc \in {"idle", "read"}
  BY <1>a, <1>b, <1>c, <1>d DEF CheckUser
<1>10. ReadGroup(p) => req'[p].pc \in {"idle", "truncate"}
  BY <1>a, <1>b, <1>c, <1>d DEF ReadGroup
<1>11. AddToIndex(p) => req'[p].pc \in {"idle"}
  BY <1>a, <1>b, <1>c, <1>d DEF AddToIndex
<1>12. RemoveFromIndex(p) => req'[p].pc \in {"idle", "groups"}
  BY <1>a, <1>b, <1>c, <1>d DEF RemoveFromIndex
<1>13. IndexFail(p) => req'[p].pc \in {"idle", "groups"}
  BY <1>a, <1>b, <1>c, <1>d DEF IndexFail
<1>14. FindGroups(p) => req'[p].pc \in {"groups"}
  BY <1>a, <1>b, <1>c, <1>d DEF FindGroups, At, Request
<1>15. LeaveGroup(p) => req'[p].pc \in {"load", "truncate", "groups"}
  <2>1. ASSUME NEW g PROVE [req[p] EXCEPT !.groups = @ \ {g}] \in Request
    BY <1>a DEF Request
  <2>2. ASSUME NEW g PROVE [req[p] EXCEPT !.groups = @ \ {g}].pc = req[p].pc
    BY <1>a DEF Request
  <2> QED
    BY <1>a, <1>b, <1>d, <2>1, <2>2 DEF LeaveGroup, At
<1>16. Load(p) => req'[p].pc \in {"remove"}
  BY <1>a, <1>b, <1>c, <1>d DEF Load
<1>17. Remove(p) => req'[p].pc \in {"idle", "unclaim", "unindex"}
  BY <1>a, <1>b, <1>c, <1>d DEF Remove
<1>18. RemoveFail(p) => req'[p].pc \in {"idle"}
  BY <1>a, <1>b, <1>c, <1>d DEF RemoveFail
<1>19. Unclaim(p) => req'[p].pc \in {"idle"}
  BY <1>a, <1>b, <1>c, <1>d DEF Unclaim
<1>20. UnclaimFail(p) => req'[p].pc \in {"idle"}
  BY <1>a, <1>b, <1>c, <1>d DEF UnclaimFail
<1> QED
  BY <1>1, <1>2, <1>3, <1>4, <1>5, <1>6, <1>7, <1>8, <1>9, <1>10, <1>11, <1>12, <1>13, <1>14,
     <1>15, <1>16, <1>17, <1>18, <1>19, <1>20

\* A request writes the file of the user or account it is about, and of no
\* other one.
LEMMA Own ==
    ASSUME Shape, NEW p \in Procs, req[p].pc \in SavePCs, req[p].file \in Users \cup Keys
    PROVE  /\ req[p].file = req[p].name /\ req[p].op \notin GroupOps \cup {"delete"}
           /\ req[p].op \in SaveUserOps => UserData(req[p]) /\ req[p].name \in Users
           /\ req[p].op \notin SaveUserOps =>
                /\ req[p].op \in {"addaccount", "setaccount"} /\ req[p].name \in Keys
                /\ req[p].data = IF req[p].op = "addaccount" THEN Active ELSE Inactive
  BY DisjointAssumption
     DEF Shape, Busy, SavePCs, Saving, Named, SaveUserOps, SaveGroupOps, GroupOps, UserOps,
         AccountOps

\* How the file of a user or account changes.
Truncates(p, n) == Truncate(p) /\ req[p].file = n /\ files'[n] = Empty

Fills(p, n) ==
    /\ Write(p) /\ req[p].file = n /\ p \in linked
    /\ files'[n] = req[p].data \/ (files'[n] = Garbled /\ files[n] # Empty)

Removes(p, n) == Remove(p) /\ req[p].name = n /\ files'[n] = None

\* A file changes only because it is truncated, filled or removed.
LEMMA Changed ==
    ASSUME TypeOK, FilesTyped, Shape, NEW p \in Procs,
           UserStep(p) \/ GroupStep(p) \/ DeleteStep(p),
           NEW n \in Names, files'[n] # files[n]
    PROVE  Truncates(p, n) \/ Fills(p, n) \/ Removes(p, n)
<1>a. files \in [Names -> Contents]
  BY DEF TypeOK
<1>1. CASE Truncate(p)
  BY <1>a, <1>1 DEF Truncate, Truncates
<1>2. CASE Write(p)
  BY <1>a, <1>2 DEF Write, Written, Fills
<1>3. CASE Remove(p)
  BY <1>a, <1>3 DEF Remove, Removes
<1> QED
  BY <1>1, <1>2, <1>3
     DEF UserStep, GroupStep, DeleteStep, Find, StatFile, Get, AttachedAlready, Claim, SaveFail,
         CheckUser, ReadGroup, AddToIndex, RemoveFromIndex, IndexFail, FindGroups, LeaveGroup,
         Load, RemoveFail, Unclaim, UnclaimFail, stores, disk

\* A request changes no file of a user or account but that of its own.
LEMMA ChangedOwn ==
    ASSUME TypeOK, FilesTyped, Shape, NEW p \in Procs,
           UserStep(p) \/ GroupStep(p) \/ DeleteStep(p),
           NEW n \in Users \cup Keys, files'[n] # files[n]
    PROVE  n = req[p].name /\ req[p].op \notin GroupOps
<1>1. n \in Names
  BY DEF Names
<1>2. CASE Truncates(p, n) \/ Fills(p, n)
  BY <1>2, Own DEF Truncates, Fills, Truncate, Write, At, SavePCs
<1>3. CASE Removes(p, n)
  BY <1>3, DisjointAssumption DEF Removes, Remove, At, Shape, Busy, Named
<1> QED
  BY <1>1, <1>2, <1>3, Changed

\* A request that is alone has the file it is about to itself.
LEMMA Untouched ==
    ASSUME TypeOK, FilesTyped, Shape, Alone, NEW p \in Procs, NEW q \in Procs, p # q,
           UserStep(p) \/ GroupStep(p) \/ DeleteStep(p),
           Busy(q), req[q].alone, req[q].name \in Users \cup Keys
    PROVE  /\ files'[req[q].name] = files[req[q].name]
           /\ req[p].name # req[q].name
<1>1. req[p].name # req[q].name
  BY Running DEF Alone, About
<1> QED
  BY <1>1, ChangedOwn

\* Who claims a key, and who frees it.
Claims(p) ==
    /\ Claim(p) /\ holder' = [holder EXCEPT ![req[p].key] = req[p].name]
    /\ holder[req[p].key] \in {Nobody, req[p].name} /\ req'[p].pc = "truncate"
    /\ req'[p].key = req[p].key /\ SameRequest(req'[p], req[p])

Frees(p) ==
    /\ Unclaim(p) /\ holder' = [holder EXCEPT ![req[p].data.key] = Nobody]
    /\ req[p].alone \/ req[p].data.key \in mixed'

\* CreateOrUpdateUser claims the key or the request is refused.
LEMMA ClaimOrRefuse ==
    ASSUME TypeOK, Shape, NEW p \in Procs, Claim(p)
    PROVE  Claims(p) \/ (Answer(p, "refused") /\ holder' = holder)
<1>1. CASE ~(Answer(p, "refused") /\ holder' = holder)
  <2> DEFINE data == IF req[p].op = "create" THEN UserFile(req[p].key, TRUE) ELSE req[p].data
  <2>1. /\ Save(p, req[p], req[p].name, data)
        /\ holder' = [holder EXCEPT ![req[p].key] = req[p].name]
        /\ holder[req[p].key] \in {Nobody, req[p].name}
    BY <1>1 DEF Claim
  <2>2. /\ req[p].op \in SaveUserOps /\ req[p].name \in Users
        /\ data \in {Enabled(req[p].key), Disabled(req[p].key)} /\ req[p].key \in Keys
    BY DEF Claim, At, Shape, Busy, Named, Stepped, SaveUserOps, UserOps, UserData, Enabled
  <2>3. data \in Contents /\ req[p].name \in Names
    BY <2>2, Writable DEF Names, UserContents, UserFiles
  <2> HIDE DEF data
  <2> QED
    BY <2>1, <2>2, <2>3, Saved DEF Claims, TypeOK
<1> QED
  BY <1>1

\* The index of keys changes only by claims and deletions.
LEMMA HolderStep ==
    ASSUME TypeOK, FilesTyped, Shape, NEW p \in Procs,
           UserStep(p) \/ GroupStep(p) \/ DeleteStep(p)
    PROVE  holder' = holder \/ Claims(p) \/ Frees(p)
<1>1. CASE Claim(p)
  BY <1>1, ClaimOrRefuse
<1>2. CASE Unclaim(p)
  BY <1>2 DEF Unclaim, Frees
<1> QED
  BY <1>1, <1>2
     DEF UserStep, GroupStep, DeleteStep, Find, StatFile, Get, AttachedAlready, Truncate, Write,
         SaveFail, CheckUser, ReadGroup, AddToIndex, RemoveFromIndex, IndexFail, FindGroups,
         LeaveGroup, Load, Remove, RemoveFail, UnclaimFail, stores, disk

-----------------------------------------------------------------------------
(* Keys *)

\* A request that is alone finds its file as it left it.
LEMMA UndisturbedStep ==
    Typed /\ Apart /\ Undisturbed /\ [Next]_vars => Undisturbed'
<1> SUFFICES ASSUME TypeOK, FilesTyped, Shape, Apart, Undisturbed, [Next]_vars
             PROVE  Undisturbed'
  BY DEF Typed
<1>1. ASSUME NEW p \in Procs, UserStep(p) \/ GroupStep(p) \/ DeleteStep(p),
             NEW q \in Procs, Busy(q)', req'[q].alone, req'[q].op \notin GroupOps
      PROVE  /\ req'[q].pc = "claim" /\ req'[q].op = "attach" =>
                  files'[req'[q].name] = req'[q].data
             /\ req'[q].pc = "write" /\ req'[q].file = req'[q].name =>
                  q \in linked' /\ files'[req'[q].name] = Empty
             /\ req'[q].pc = "unclaim" => files'[req'[q].name] = None
  <2>1. CASE q # p
    <3>1. req'[q] = req[q] /\ Busy(q) /\ req[q].name \in Users \cup Keys
      BY <1>1, <2>1, StepShape DEF Advanced, Busy, Shape, Named, AllOps, TypeOK, Request
    <3>2. files'[req[q].name] = files[req[q].name] /\ req[p].name # req[q].name
      BY <1>1, <2>1, <3>1, Untouched DEF Apart
    <3>3. q \in linked /\ req[q].file = req[q].name => q \in linked'
      BY <1>1, <2>1, <3>2
         DEF UserStep, GroupStep, DeleteStep, Find, StatFile, Get, AttachedAlready, Claim,
             Truncate, Write, Written, SaveFail, CheckUser, ReadGroup, AddToIndex,
             RemoveFromIndex, IndexFail, FindGroups, LeaveGroup, Load, Remove, RemoveFail,
             Unclaim, UnclaimFail, stores, disk
    <3> QED
      BY <1>1, <3>1, <3>2, <3>3 DEF Undisturbed
  <2>2. CASE q = p
    <3>1. SameRequest(req'[p], req[p]) /\ WellFormed(req'[p]) /\ Busy(p)
      <4>1. Advanced(p) /\ Busy(p) /\ Busy(p)'
        BY <1>1, <2>2, StepShape, Running
      <4>2. req'[p] # Idle
        BY <4>1 DEF Busy, Idle
      <4> QED
        BY <4>1, <4>2 DEF Advanced
    <3>2. ASSUME req'[p].pc = "claim", req'[p].op = "attach"
          PROVE  files'[req'[p].name] = req'[p].data
      <4>1. Get(p)
        BY <1>1, <3>1, <3>2, Arrival
           DEF UserStep, GroupStep, DeleteStep, Find, SameRequest, At,
           Shape, Stepped
      <4> DEFINE old == files[req[p].name]
      <4>2. req[p].name \in Users /\ Readable(req[p].name) /\ UNCHANGED files
        <5>1. req[p].op = "attach" /\ req[p].name \in Users
          BY <3>1, <3>2 DEF SameRequest, Shape, Named, UserOps
        <5>2. ~Answer(p, "refused")
          BY <3>1, <3>2, Answered DEF Idle
        <5> QED
          BY <4>1, <5>1, <5>2 DEF Get, stores, disk
      <4>3. Become(p, [req[p] EXCEPT !.pc = "claim", !.key = old.key,
                                     !.data = UserFile(old.key, old.on)])
        BY <3>1, <3>2, <4>1, <4>2 DEF Get, SameRequest
      <4>4. old = UserFile(old.key, old.on)
        <5>1. old \in {Enabled(old.key), Disabled(old.key)}
          BY <4>2, Held
        <5> QED
          BY <5>1 DEF Enabled, Disabled, UserFile
      <4> QED
        BY <3>1, <4>2, <4>3, <4>4 DEF Become, TypeOK, Request, SameRequest
    <3>3. ASSUME req'[p].pc = "write", req'[p].file = req'[p].name
          PROVE  p \in linked' /\ files'[req'[p].name] = Empty
      <4>1. Truncate(p)
        BY <1>1, <3>3, Arrival DEF UserStep, GroupStep, DeleteStep
      <4>2. req'[p].file = req[p].file /\ req[p].file \in Names
        BY <4>1, Gone, Target DEF Truncate, At, SavePCs, TypeOK, PCs
      <4> QED
        BY <3>3, <4>1, <4>2 DEF Truncate, TypeOK
    <3>4. ASSUME req'[p].pc = "unclaim" PROVE files'[req'[p].name] = None
      <4>1. Remove(p)
        BY <1>1, <3>4, Arrival DEF UserStep, GroupStep, DeleteStep
      <4>2. req[p].name \in Names
        BY <4>1
           DEF Remove, At, Shape, Busy, Named, Stepped, UserOps, GroupOps, AccountOps, Names
      <4> QED
        BY <3>1, <4>1, <4>2 DEF Remove, TypeOK, SameRequest
    <3> QED
      BY <2>2, <3>2, <3>3, <3>4
  <2> QED
    BY <2>1, <2>2
<1>2. ASSUME NEW p \in Procs, NEW op \in Ops, NEW name \in Names,
             NEW user \in Users \cup {Nobody}, NEW key \in Keys \cup {NoName},
             Begin(p, op, name, user, key)
      PROVE  Undisturbed'
  <2>1. UNCHANGED <<files, linked>>
    BY <1>2 DEF Begin, disk
  <2> QED
    BY <1>2, <2>1, BeginStep DEF Undisturbed, Busy
<1>3. CASE Crash
  BY <1>3 DEF Crash, Busy, Idle, Undisturbed
<1>4. CASE Start \/ StartFail
  BY <1>4 DEF Start, StartFail, Busy, Undisturbed
<1>5. CASE UNCHANGED vars
  BY <1>5 DEF vars, Busy, Undisturbed
<1> QED
  BY <1>1, <1>2, <1>3, <1>4, <1>5 DEF Next, Undisturbed

\* The same after the step.
SignsNext(key, u) == holder'[key] = u \/ key \in mixed'

\* A key goes on signing in the user it signs in, except the user of a deletion
\* that frees it.
LEMMA SignsStep ==
    ASSUME Typed, Claimed, NEW p \in Procs, UserStep(p) \/ GroupStep(p) \/ DeleteStep(p),
           NEW k \in Keys, NEW u \in Users, Signs(k, u)
    PROVE  \/ SignsNext(k, u)
           \/ Frees(p) /\ req[p].alone /\ req[p].name = u
<1>1. /\ mixed \subseteq mixed' /\ holder \in [Keys -> Users \cup {Nobody}]
      /\ holder' = holder \/ Claims(p) \/ Frees(p)
  BY RestStep, HolderStep DEF Typed, TypeOK
<1>2. CASE Claims(p)
  BY <1>1, <1>2, DisjointAssumption DEF Claims, Signs, SignsNext
<1>3. CASE Frees(p)
  <2>1. CASE ~req[p].alone
    BY <1>1, <1>3, <2>1 DEF Frees, Signs, SignsNext
  <2>2. CASE req[p].alone
    <3>1. Signs(req[p].data.key, req[p].name)
      BY <1>3, <2>2, Kinds
         DEF Frees, Unclaim, At, Claimed, Typed, Shape, Busy, Stepped, UserFiles
    <3> QED
      BY <1>1, <1>3, <2>2, <3>1 DEF Frees, Signs, SignsNext
  <2> QED
    BY <2>1, <2>2
<1> QED
  BY <1>1, <1>2, <1>3 DEF Signs, SignsNext

\* The keys of files, of files about to be written, and of deletions.
LEMMA ClaimedStep ==
    Typed /\ Apart /\ Undisturbed /\ Claimed /\ [Next]_vars => Claimed'
<1> SUFFICES ASSUME Typed, Apart, Undisturbed, Claimed, [Next]_vars
             PROVE  Claimed'
  OBVIOUS
<1> USE DEF Typed
<1>1. ASSUME NEW p \in Procs, UserStep(p) \/ GroupStep(p) \/ DeleteStep(p)
      PROVE  Claimed'
  <2>a. /\ \A q \in Procs \ {p} : req'[q] = req[q]
        /\ Busy(p) /\ (req'[p].pc # "idle" => SameRequest(req'[p], req[p]) /\ WellFormed(req'[p]))
        /\ Named(req[p]) /\ Stepped(req[p]) /\ Saving(req[p])
    <3>1. Advanced(p) /\ Busy(p) /\ Named(req[p]) /\ Stepped(req[p]) /\ Saving(req[p])
      BY <1>1, StepShape, Running DEF Shape
    <3>2. req'[p].pc # "idle" => req'[p] # Idle
      BY DEF Idle
    <3> QED
      BY <3>1, <3>2 DEF Advanced
  <2>1. ASSUME NEW u \in Users, files'[u].kind = "user"
        PROVE  SignsNext(files'[u].key, u)
    <3>1. CASE files'[u] = files[u]
      <4>1. Signs(files[u].key, u) /\ files[u].key \in Keys
        BY <2>1, <3>1, Kinds DEF Claimed, FilesTyped, UserContents, UserFiles
      <4>2. ~(Frees(p) /\ req[p].alone /\ req[p].name = u)
        BY <2>a, <2>1, <3>1, Kinds
           DEF Frees, Unclaim, At, Undisturbed, Stepped, GroupOps
      <4>3. SignsNext(files[u].key, u)
        BY <1>1, <4>1, <4>2, SignsStep
      <4> QED
        BY <3>1, <4>3 DEF Signs, SignsNext
    <3>2. CASE files'[u] # files[u]
      <4>1. Fills(p, u) /\ files'[u] = req[p].data
        BY <1>1, <2>1, <3>2, Changed, Kinds DEF Truncates, Fills, Removes, Names
      <4>2. req[p].name = u /\ UserData(req[p]) /\ req[p].op \in SaveUserOps
        BY <2>a, <4>1, Own, DisjointAssumption DEF Fills, Write, At, SavePCs
      <4>3. Signs(req[p].key, u) /\ req[p].data.key = req[p].key
        BY <4>1, <4>2, Kinds DEF Claimed, Fills, Write, At, SavePCs, UserData
      <4> QED
        BY <4>1, <4>3 DEF Fills, Write, Signs, SignsNext
    <3> QED
      BY <3>1, <3>2
  <2>2. ASSUME NEW q \in Procs, req'[q].pc \in SavePCs, req'[q].op \in SaveUserOps
        PROVE  SignsNext(req'[q].key, req'[q].name)
    <3>1. CASE q # p
      <4>1. /\ Signs(req[q].key, req[q].name) /\ req'[q] = req[q] /\ Busy(q)
            /\ req[q].key \in Keys /\ req[q].name \in Users
        BY <2>a, <2>2, <3>1
           DEF Claimed, Shape, Named, Saving, Busy, SavePCs, SaveUserOps, SaveGroupOps, UserOps,
               UserData
      <4>2. ~(Frees(p) /\ req[p].alone /\ req[p].name = req[q].name)
        BY <2>a, <3>1, <4>1 DEF Apart, Alone, About
      <4>3. SignsNext(req[q].key, req[q].name)
        BY <1>1, <4>1, <4>2, SignsStep
      <4> QED
        BY <4>1, <4>3 DEF Signs, SignsNext
    <3>2. CASE q = p
      <4>1. CASE Truncate(p)
        <5>1. /\ req'[p].key = req[p].key /\ req'[p].name = req[p].name
              /\ req'[p].op = req[p].op
          BY <4>1, Gone DEF Truncate, TypeOK, PCs, SavePCs, SameRequest
        <5>2. Signs(req[p].key, req[p].name)
          BY <2>2, <3>2, <4>1, <5>1 DEF Claimed, Truncate, At, SavePCs
        <5> QED
          BY <3>2, <4>1, <5>1, <5>2 DEF Truncate, Signs, SignsNext
      <4>2. CASE Claim(p)
        <5>1. ~Answer(p, "refused")
          BY <2>2, <3>2 DEF Answer, Become, Idle, SavePCs, TypeOK
        <5>2. Claims(p)
          BY <4>2, <5>1, ClaimOrRefuse
        <5>3. req[p].key \in Keys
          BY <2>a, <4>2 DEF Claim, At, Named, Stepped, SaveUserOps, UserData
        <5> QED
          BY <3>2, <5>2, <5>3 DEF Claims, Signs, SignsNext, SameRequest, TypeOK
      <4>3. CASE ~Truncate(p) /\ ~Claim(p)
        <5>1. req'[p].pc = "truncate" /\ req[p].op \in SaveUserOps
          BY <1>1, <2>a, <2>2, <3>2, <4>3, Arrival
             DEF UserStep, GroupStep, DeleteStep, SavePCs, SameRequest
        <5>2. StatFile(p) \/ Get(p) \/ ReadGroup(p) \/ LeaveGroup(p)
          BY <1>1, <4>3, <5>1, Arrival DEF UserStep, GroupStep, DeleteStep
        <5>3. Get(p)
          BY <2>a, <5>1, <5>2
             DEF StatFile, ReadGroup, LeaveGroup, At, Stepped, SaveUserOps
        <5>4. Get(p) /\ req[p].op \in {"enable", "disable", "attach"} => req'[p].pc # "truncate"
          <6>1. ASSUME NEW key, NEW data
                PROVE  [req[p] EXCEPT !.pc = "claim", !.key = key, !.data = data].pc = "claim"
            BY DEF TypeOK, Request
          <6>2. Get(p) /\ req[p].op \in {"enable", "disable", "attach"} =>
                  \/ Answer(p, "refused")
                  \/ \E key, data :
                       Become(p, [req[p] EXCEPT !.pc = "claim", !.key = key, !.data = data])
            BY DEF Get
          <6>3. Get(p) /\ Answer(p, "refused") => req'[p].pc = "idle"
            BY DEF Answer, Become, Idle, TypeOK
          <6>4. ASSUME NEW r, Become(p, r) PROVE req'[p] = r
            BY <6>4 DEF Become, TypeOK
          <6> QED
            BY <6>1, <6>2, <6>3, <6>4
        <5> QED
          BY <2>a, <5>1, <5>3, <5>4 DEF Get, At, Stepped, SaveUserOps
      <4> QED
        BY <4>1, <4>2, <4>3
    <3> QED
      BY <3>1, <3>2
  <2>3. ASSUME NEW q \in Procs, req'[q].pc \in {"remove", "unclaim"}, req'[q].alone,
               req'[q].op = "delete", req'[q].data.kind = "user"
        PROVE  SignsNext(req'[q].data.key, req'[q].name)
    <3>1. CASE q # p
      <4>1. /\ Signs(req[q].data.key, req[q].name) /\ req'[q] = req[q] /\ Busy(q)
            /\ req[q].data.key \in Keys /\ req[q].name \in Users /\ req[q].alone
        BY <2>a, <2>3, <3>1, Kinds
           DEF Claimed, Shape, Named, Stepped, Busy, UserOps, UserContents, UserFiles
      <4>2. ~(Frees(p) /\ req[p].alone /\ req[p].name = req[q].name)
        BY <2>a, <3>1, <4>1 DEF Apart, Alone, About
      <4>3. SignsNext(req[q].data.key, req[q].name)
        BY <1>1, <4>1, <4>2, SignsStep
      <4> QED
        BY <4>1, <4>3 DEF Signs, SignsNext
    <3>2. CASE q = p
      <4>1. CASE Remove(p)
        <5>1. /\ req'[p].data = req[p].data /\ req'[p].name = req[p].name
              /\ req'[p].op = req[p].op /\ req'[p].alone = req[p].alone
          BY <2>3, <3>2, <4>1, Gone, Answered
             DEF Remove, TypeOK, PCs, SameRequest, Idle, Answer, Become
        <5> QED
          BY <2>3, <3>2, <4>1, <5>1 DEF Claimed, Remove, At, Signs, SignsNext
      <4>2. CASE Load(p)
        <5>1. /\ req'[p].data = files[req[p].name] /\ req'[p].name = req[p].name
              /\ req'[p].op = req[p].op
          BY <4>2 DEF Load, Become, TypeOK, Request
        <5>2. req[p].name \in Users
          BY <2>a, <2>3, <3>2, <5>1 DEF Named, UserOps
        <5> QED
          BY <2>3, <3>2, <4>2, <5>1, <5>2 DEF Claimed, Load, stores, disk, Signs, SignsNext
      <4>3. CASE ~Remove(p) /\ ~Load(p)
        <5>1. Get(p)
          BY <1>1, <2>3, <3>2, <4>3, Arrival DEF UserStep, GroupStep, DeleteStep
        <5>2. Get(p) /\ req[p].op = "delete" => req'[p].pc \notin {"remove", "unclaim"}
          BY DEF Get, Answer, Become, Goto, Idle, TypeOK, Request
        <5> QED
          BY <2>a, <2>3, <3>2, <5>1, <5>2 DEF SameRequest
      <4> QED
        BY <4>1, <4>2, <4>3
    <3> QED
      BY <3>1, <3>2
  <2> QED
    BY <2>1, <2>2, <2>3 DEF Claimed, Signs, SignsNext
<1>2. ASSUME NEW p \in Procs, NEW op \in Ops, NEW name \in Names,
             NEW user \in Users \cup {Nobody}, NEW key \in Keys \cup {NoName},
             Begin(p, op, name, user, key)
      PROVE  Claimed'
  <2>1. UNCHANGED <<files, holder>>
    BY <1>2 DEF Begin, disk
  <2>2. req'[p].pc \notin SavePCs \cup {"remove", "unclaim"}
    BY <1>2, BeginStep DEF SavePCs
  <2>3. /\ mixed \subseteq mixed'
        /\ \A q \in Procs \ {p} :
             /\ req'[q].pc = req[q].pc /\ req'[q].op = req[q].op /\ req'[q].name = req[q].name
             /\ req'[q].key = req[q].key /\ req'[q].data = req[q].data
             /\ req'[q].alone => req[q].alone
    BY <1>2, BeginStep
  <2> QED
    BY <2>1, <2>2, <2>3 DEF Claimed, Signs, SignsNext
<1>3. CASE Crash
  BY <1>3 DEF Crash, Idle, Claimed, Signs, SignsNext, SavePCs
<1>4. CASE Start \/ StartFail
  <2>a. \A q \in Procs : ~Busy(q)
    BY <1>4 DEF Start, StartFail, Apart, Down
  <2>1. /\ UNCHANGED <<files, req>> /\ mixed' \in {mixed, mixed \ Groups}
        /\ ReconcileUsers \/ UNCHANGED holder
    BY <1>4 DEF Start, StartFail, RebuildGroups
  <2>2. ASSUME NEW u \in Users, files[u].kind = "user"
        PROVE  SignsNext(files[u].key, u)
    <3> DEFINE k == files[u].key
    <3>1. k \in Keys /\ Readable(u) /\ Signs(k, u)
      BY <2>2, Kinds DEF Claimed, FilesTyped, UserContents, UserFiles, Readable
    <3>2. ReconcileUsers => holder'[k] \in {v \in Users : Readable(v) /\ files[v].key = k}
      BY <3>1 DEF ReconcileUsers, Reconciled
    <3>3. k \notin mixed => holder'[k] = u
      BY <2>1, <3>1, <3>2, Held, Kinds DEF Claimed, Signs, SignsNext
    <3> QED
      BY <2>1, <3>1, <3>3, DisjointAssumption DEF Signs, SignsNext
  <2> QED
    BY <2>a, <2>1, <2>2 DEF Claimed, Busy, SavePCs, Signs, SignsNext
<1>5. CASE UNCHANGED vars
  BY <1>5 DEF vars, Claimed, Signs, SignsNext
<1> QED
  BY <1>1, <1>2, <1>3, <1>4, <1>5 DEF Next

-----------------------------------------------------------------------------
(* Answers *)

\* The steps that may refuse a request.
Refusals == {"find", "stat", "get", "claim", "check", "read"}

\* The steps that end a request about a user or account with success.
Finishes(p) ==
    \/ AttachedAlready(p) \/ Write(p) \/ Remove(p) \/ Unclaim(p) \/ UnclaimFail(p)

\* A step answers the request or tells nothing, and refuses only before the
\* request changes anything.  The step after a change answers.
LEMMA Outcome ==
    ASSUME TypeOK, FilesTyped, Shape, NEW p \in Procs,
           UserStep(p) \/ GroupStep(p) \/ DeleteStep(p)
    PROVE  \/ told' = told /\ \A n \in Users \cup Keys : ~Committed(p, n)
           \/ Answer(p, "refused") /\ req[p].pc \in Refusals /\ files' = files
           \/ Answer(p, "failed")
           \/ Answer(p, "ok") /\ (req[p].op \in GroupOps \/ Finishes(p))
<1> USE DEF At, Refusals, Committed, Finishes, stores, disk
<1>a. Stepped(req[p])
  BY Running DEF Shape
<1>1. CASE Find(p)
  BY <1>1 DEF Find
<1>2. CASE StatFile(p)
  BY <1>2 DEF StatFile
<1>3. CASE Get(p)
  BY <1>3 DEF Get
<1>4. CASE AttachedAlready(p)
  BY <1>4 DEF AttachedAlready
<1>5. CASE Claim(p)
  BY <1>5 DEF Claim
<1>6. CASE Truncate(p)
  BY <1>6 DEF Truncate
<1>7. CASE Write(p) \/ SaveFail(p)
  <2>1. CASE req[p].op \in {"join", "leave", "delete"}
    <3>1. told' = told \/ Answer(p, "failed")
      BY <1>7, <2>1 DEF Write, SaveFail
    <3>2. \A n \in Users \cup Keys : ~Committed(p, n)
      BY <1>7, <2>1, Own DEF Write, SaveFail, SavePCs, GroupOps
    <3> QED
      BY <3>1, <3>2
  <2>2. CASE req[p].op \notin {"join", "leave", "delete"}
    BY <1>7, <2>2 DEF Write, SaveFail
  <2> QED
    BY <2>1, <2>2
<1>8. CASE CheckUser(p)
  BY <1>8 DEF CheckUser
<1>9. CASE ReadGroup(p)
  BY <1>a, <1>9 DEF ReadGroup, Stepped, GroupOps
<1>10. CASE AddToIndex(p)
  BY <1>a, <1>10 DEF AddToIndex, Stepped, GroupOps
<1>11. CASE RemoveFromIndex(p)
  BY <1>a, <1>11 DEF RemoveFromIndex, Stepped, GroupOps
<1>12. CASE IndexFail(p)
  BY <1>a, <1>12 DEF IndexFail, Stepped, GroupOps
<1>13. CASE FindGroups(p) \/ LeaveGroup(p) \/ Load(p)
  BY <1>13 DEF FindGroups, LeaveGroup, Load
<1>14. CASE Remove(p)
  BY <1>14 DEF Remove
<1>15. CASE RemoveFail(p) \/ Unclaim(p) \/ UnclaimFail(p)
  BY <1>15 DEF RemoveFail, Unclaim, UnclaimFail
<1> QED
  BY <1>1, <1>2, <1>3, <1>4, <1>5, <1>6, <1>7, <1>8, <1>9, <1>10, <1>11, <1>12, <1>13, <1>14,
     <1>15
     DEF UserStep, GroupStep, DeleteStep

\* What an answer tells.
LEMMA Tells ==
    ASSUME TypeOK, Shape, NEW p \in Procs, Busy(p), NEW out, Answer(p, out)
    PROVE  /\ req'[p] = Idle
           /\ \A n \in Users \cup Keys :
                /\ n # req[p].name => told'[n] = told[n]
                /\ n = req[p].name =>
                     /\ req[p].op \notin GroupOps
                     /\ out = "refused" =>
                          told'[n] = IF req[p].op = "create" THEN "new" ELSE told[n]
                     /\ out = "ok" /\ req[p].alone => told'[n] = Told(req[p])
                     /\ out # "refused" /\ ~(out = "ok" /\ req[p].alone) => told'[n] = "unknown"
<1>1. told \in [Users \cup Keys -> Lives] /\ req \in [Procs -> Request]
  BY DEF TypeOK
<1>2. req[p].op \in GroupOps => req[p].name \notin Users \cup Keys
  BY DisjointAssumption DEF Shape, Named
<1> QED
  BY <1>1, <1>2 DEF Answer, Become

\* While a UUID is new, no file has it.
LEMMA FreshStep == Typed /\ Apart /\ Fresh /\ [Next]_vars => Fresh'
<1> SUFFICES ASSUME TypeOK, FilesTyped, Shape, Apart, Fresh, [Next]_vars
             PROVE  Fresh'
  BY DEF Typed
<1>1. ASSUME NEW p \in Procs, UserStep(p) \/ GroupStep(p) \/ DeleteStep(p)
      PROVE  Fresh'
  <2>a. /\ \A q \in Procs \ {p} : req'[q] = req[q]
        /\ Busy(p) /\ (req'[p].pc # "idle" => SameRequest(req'[p], req[p]))
        /\ Named(req[p]) /\ Stepped(req[p]) /\ Saving(req[p])
    <3>1. Advanced(p) /\ Busy(p) /\ Named(req[p]) /\ Stepped(req[p]) /\ Saving(req[p])
      BY <1>1, StepShape, Running DEF Shape
    <3>2. req'[p].pc # "idle" => req'[p] # Idle
      BY DEF Idle
    <3> QED
      BY <3>1, <3>2 DEF Advanced
  <2>b. ASSUME NEW u \in Users, told'[u] # told[u]
        PROVE  /\ req'[p].pc = "idle" /\ u = req[p].name
               /\ told'[u] = "new" => req[p].op = "create" /\ req[p].pc \in {"find", "claim"}
               /\ (\E q \in Procs \ {p} : Busy(q) /\ req[q].op = "create" /\ req[q].name = u) =>
                    told'[u] = "unknown"
    <3>1. req'[p].pc = "idle" /\ u = req[p].name
      BY <1>1, <2>a, <2>b, Outcome, Tells DEF Idle
    <3>2. told'[u] = "new" => req[p].op = "create" /\ req[p].pc \in {"find", "claim"}
      <4>1. Told(req[p]) # "new"
        BY DEF Told
      <4> QED
        BY <1>1, <2>a, <2>b, <4>1, Outcome, Tells DEF Stepped, Refusals, AllOps
    <3>3. ASSUME NEW q \in Procs \ {p}, Busy(q), req[q].op = "create", req[q].name = u
          PROVE  told'[u] = "unknown"
      <4>1. ~req[p].alone
        BY <2>a, <3>1, <3>3 DEF Apart, Alone, About
      <4>2. req[p].op # "create"
        BY <2>a, <3>1, <3>3 DEF Fresh
      <4> QED
        BY <1>1, <2>a, <2>b, <4>1, <4>2, Outcome, Tells
    <3> QED
      BY <3>1, <3>2, <3>3
  <2>1. ASSUME NEW u \in Users, Unborn(u)'
        PROVE  Unborn(u)
    <3>1. CASE told'[u] = "new"
      BY <2>b, <3>1 DEF Unborn
    <3>2. ASSUME NEW q \in Procs, req'[q].op = "create", req'[q].name = u,
                 req'[q].pc \in {"find", "claim", "truncate"}
          PROVE  Unborn(u)
      <4>1. CASE q # p
        BY <2>a, <3>2, <4>1 DEF Unborn
      <4>2. CASE q = p
        <5>1. req[p].op = "create" /\ req[p].name = u
          BY <2>a, <3>2, <4>2 DEF SameRequest
        <5>2. Find(p) \/ Claim(p) \/ StatFile(p) \/ Get(p) \/ ReadGroup(p) \/ LeaveGroup(p)
          BY <1>1, <3>2, <4>2, Arrival DEF UserStep, GroupStep, DeleteStep
        <5>3. req[p].pc \in {"find", "claim"}
          BY <2>a, <5>1, <5>2
             DEF Find, Claim, StatFile, Get, ReadGroup, LeaveGroup, At, Stepped
        <5> QED
          BY <5>1, <5>3 DEF Unborn
      <4> QED
        BY <4>1, <4>2
    <3> QED
      BY <2>1, <3>1, <3>2 DEF Unborn
  <2>2. ASSUME NEW u \in Users, Unborn(u)'
        PROVE  files'[u] = None
    <3>1. files[u] = None
      BY <2>1, <2>2 DEF Fresh
    <3>2. ASSUME Truncates(p, u) \/ Fills(p, u) PROVE FALSE
      <4>1. /\ req[p].name = u /\ req[p].pc \in SavePCs
        BY <3>2, Own DEF Truncates, Fills, Truncate, Write, At, SavePCs
      <4>2. req[p].op = "create"
        BY <2>1, <2>2, <2>a, <4>1 DEF Fresh, SavePCs
      <4>3. req'[p].pc \in {"write", "idle", "index", "unindex"}
        BY <3>2, Arrival DEF Truncates, Fills
      <4>4. told'[u] # "new"
        <5>1. told[u] = "unknown"
          BY <2>a, <4>1, <4>2 DEF Fresh
        <5> QED
          BY <2>b, <4>1, <5>1 DEF SavePCs
      <4>5. PICK q \in Procs : /\ req'[q].op = "create" /\ req'[q].name = u
                               /\ req'[q].pc \in {"find", "claim", "truncate"}
        BY <2>2, <4>4 DEF Unborn
      <4>6. q # p
        BY <4>3, <4>5
      <4>7. Busy(q) /\ req[q].op = "create" /\ req[q].name = u
        BY <2>a, <4>5, <4>6 DEF Busy
      <4> QED
        BY <2>a, <4>1, <4>2, <4>6, <4>7 DEF Fresh
    <3> QED
      BY <1>1, <3>1, <3>2, Changed DEF Removes, Names
  <2>3. ASSUME NEW u \in Users, Unborn(u)', NEW q \in Procs, Busy(q)', req'[q].name = u
        PROVE  req'[q].op = "create" \/ req'[q].pc = "get"
    <3>1. CASE q # p
      BY <2>1, <2>3, <2>a, <3>1 DEF Fresh, Busy
    <3>2. CASE q = p
      <4>1. req[p].name = u /\ req'[p].op = req[p].op /\ files[u] = None
        BY <2>1, <2>3, <2>a, <3>2 DEF SameRequest, Busy, Fresh
      <4>2. req[p].op = "create" \/ req[p].pc = "get"
        BY <2>1, <2>3, <2>a, <4>1 DEF Fresh
      <4>3. req[p].pc = "get" => Get(p) /\ Answer(p, "refused")
        <5>1. ~Readable(u)
          BY <4>1, Kinds DEF Readable
        <5> QED
          BY <1>1, <4>1, <5>1
             DEF UserStep, GroupStep, DeleteStep, Find, StatFile, Get, AttachedAlready, Claim,
                 Truncate, Write, SaveFail, CheckUser, ReadGroup, AddToIndex, RemoveFromIndex,
                 IndexFail, FindGroups, LeaveGroup, Load, Remove, RemoveFail, Unclaim,
                 UnclaimFail, At, SavePCs
      <4> QED
        BY <2>3, <2>a, <3>2, <4>1, <4>2, <4>3, Tells DEF Busy, Idle
    <3> QED
      BY <3>1, <3>2
  <2>4. ASSUME NEW q \in Procs, Busy(q)', req'[q].op = "create"
        PROVE  told'[req'[q].name] = "unknown"
    <3>1. /\ Busy(q) /\ req[q].op = "create" /\ req'[q].name = req[q].name
          /\ req[q].name \in Users
      BY <2>4, <2>a DEF SameRequest, Busy, Shape, Named, UserOps
    <3>2. told[req[q].name] = "unknown"
      BY <3>1 DEF Fresh
    <3> QED
      BY <2>4, <2>b, <3>1, <3>2 DEF Busy
  <2>5. ASSUME NEW q \in Procs, NEW r \in Procs, Busy(q)', Busy(r)', req'[q].name = req'[r].name,
               req'[q].op = "create", req'[r].op = "create"
        PROVE  q = r
    <3>1. \A s \in Procs : Busy(s)' => /\ Busy(s) /\ req'[s].op = req[s].op
                                       /\ req'[s].name = req[s].name
      BY <2>a DEF SameRequest, Busy
    <3> QED
      BY <2>5, <3>1 DEF Fresh
  <2> QED
    BY <2>2, <2>3, <2>4, <2>5 DEF Fresh
<1>2. ASSUME NEW p \in Procs, NEW op \in Ops, NEW name \in Names,
             NEW user \in Users \cup {Nobody}, NEW key \in Keys \cup {NoName},
             Begin(p, op, name, user, key)
      PROVE  Fresh'
  <2>1. /\ UNCHANGED files
        /\ told' = IF op = "create" THEN [told EXCEPT ![name] = "unknown"] ELSE told
        /\ op = "create" => told[name] = "new" /\ name \in Users
        /\ op \in UserOps /\ op # "create" => FirstPC(op) = "get"
        /\ op \notin UserOps => name \notin Users
    BY <1>2, DisjointAssumption, OpsAssumption
       DEF Begin, Sensible, disk, UserOps, GroupOps, AccountOps, FirstPC, AllOps
  <2>2. /\ req'[p].pc = FirstPC(op) /\ req'[p].op = op /\ req'[p].name = name /\ ~Busy(p)
        /\ \A q \in Procs \ {p} : /\ Busy(q)' <=> Busy(q)
                                  /\ req'[q].pc = req[q].pc /\ req'[q].op = req[q].op
                                  /\ req'[q].name = req[q].name
    BY <1>2, BeginStep DEF Busy
  <2>3. told \in [Users \cup Keys -> Lives]
    BY DEF TypeOK
  <2>4. ASSUME NEW u \in Users, Unborn(u)' PROVE Unborn(u)
    BY <2>1, <2>2, <2>3, <2>4 DEF Unborn
  <2>5. ASSUME NEW u \in Users, Unborn(u)', NEW q \in Procs, Busy(q)', req'[q].name = u
        PROVE  req'[q].op = "create" \/ req'[q].pc = "get"
    BY <2>1, <2>2, <2>4, <2>5 DEF Fresh
  <2>6. ASSUME NEW q \in Procs, Busy(q)', req'[q].op = "create"
        PROVE  told'[req'[q].name] = "unknown"
    <3>1. CASE q = p
      BY <2>1, <2>2, <2>3, <2>6, <3>1
    <3>2. CASE q # p
      <4>1. req[q].name \in Users /\ told[req[q].name] = "unknown"
        BY <2>2, <2>6, <3>2 DEF Fresh, Shape, Named, UserOps
      <4> QED
        BY <2>1, <2>2, <2>3, <2>6, <3>2, <4>1
    <3> QED
      BY <3>1, <3>2
  <2>7. ASSUME NEW q \in Procs, NEW r \in Procs, Busy(q)', Busy(r)', req'[q].name = req'[r].name,
               req'[q].op = "create", req'[r].op = "create"
        PROVE  q = r
    <3>1. op = "create" =>
            \A s \in Procs \ {p} : Busy(s) /\ req[s].op = "create" => req[s].name # name
      BY <2>1 DEF Fresh
    <3> QED
      BY <2>2, <2>7, <3>1 DEF Fresh
  <2> QED
    BY <2>1, <2>4, <2>5, <2>6, <2>7 DEF Fresh
<1>3. CASE Crash
  <2>1. \A q \in Procs : req'[q] = Idle
    BY <1>3 DEF Crash
  <2>2. \A u \in Users : told'[u] = "new" => told[u] = "new"
    BY <1>3 DEF Crash, TypeOK
  <2> QED
    BY <1>3, <2>1, <2>2 DEF Crash, Busy, Idle, Fresh, Unborn
<1>4. CASE Start \/ StartFail
  BY <1>4 DEF Start, StartFail, Busy, Fresh, Unborn
<1>5. CASE UNCHANGED vars
  BY <1>5 DEF vars, Busy, Fresh, Unborn
<1> QED
  BY <1>1, <1>2, <1>3, <1>4, <1>5 DEF Next

\* What the success of a request that ran alone tells is so.
LEMMA ToldTruly ==
    ASSUME TypeOK, FilesTyped, Shape, Undisturbed, NEW p \in Procs, Finishes(p),
           Answer(p, "ok"), req[p].alone, NEW n \in Users \cup Keys, n = req[p].name
    PROVE  ToldFile(n)'
<1>a. /\ Named(req[p]) /\ Stepped(req[p]) /\ Saving(req[p]) /\ Busy(p)
      /\ req[p].op \notin GroupOps /\ told'[n] = Told(req[p]) /\ n \in Names
      /\ req'[p].pc = "idle" /\ files \in [Names -> Contents]
  <2>1. Busy(p)
    BY DEF Finishes, AttachedAlready, Write, Remove, Unclaim, UnclaimFail, At, Busy
  <2> QED
    BY <2>1, Tells DEF Shape, Names, Idle, TypeOK
<1>1. CASE AttachedAlready(p)
  <2>1. req[p].op = "attach" /\ files'[n] = req[p].data /\ UserData(req[p])
    BY <1>a, <1>1 DEF AttachedAlready, At, Undisturbed, stores, disk, Stepped
  <2>2. CASE req[p].data = Enabled(req[p].key)
    <3>1. files'[n].kind = "user" /\ files'[n].on = TRUE /\ req[p].data.on = TRUE
      BY <2>1, <2>2, Kinds DEF UserData
    <3>2. told'[n] = "on"
      BY <1>a, <2>1, <3>1 DEF Told
    <3> QED
      BY <3>1, <3>2 DEF ToldFile
  <2>3. CASE req[p].data = Disabled(req[p].key)
    <3>1. files'[n].kind = "user" /\ files'[n].on = FALSE /\ req[p].data.on = FALSE
      BY <2>1, <2>3, Kinds DEF UserData
    <3>2. told'[n] = "off"
      BY <1>a, <2>1, <3>1 DEF Told
    <3> QED
      BY <3>1, <3>2 DEF ToldFile
  <2> QED
    BY <2>1, <2>2, <2>3 DEF UserData
<1>2. CASE Write(p)
  <2>1. req[p].op # "delete" /\ req[p].pc = "write"
    <3>1. req[p].op = "delete" => Goto(p, "unindex")
      BY <1>2 DEF Write
    <3> QED
      BY <1>a, <1>2, <3>1, Gone DEF PCs, TypeOK, Write, At
  <2>2. req[p].file = n
    BY <1>a, <2>1 DEF Saving, SavePCs, SaveUserOps, SaveGroupOps, GroupOps
  <2>3. /\ req[p].op \in SaveUserOps => UserData(req[p])
        /\ req[p].op \notin SaveUserOps =>
             /\ req[p].op \in {"addaccount", "setaccount"}
             /\ req[p].data = IF req[p].op = "addaccount" THEN Active ELSE Inactive
    BY <2>1, <2>2, Own DEF SavePCs
  <2>4. p \in linked /\ files[n] = Empty
    BY <1>a, <2>1, <2>2 DEF Undisturbed
  <2>5. files'[n] = req[p].data
    BY <1>a, <1>2, <2>2, <2>4 DEF Write, Written
  <2>6. CASE req[p].op \in SaveUserOps
    <3>1. CASE req[p].data = Enabled(req[p].key)
      <4>1. files'[n].kind = "user" /\ files'[n].on = TRUE /\ req[p].data.on = TRUE
        BY <2>3, <2>5, <2>6, <3>1, Kinds DEF UserData
      <4>2. req[p].op # "disable"
        <5>1. Enabled(req[p].key) # Disabled(req[p].key)
          BY <2>3, <2>6, Kinds DEF UserData
        <5> QED
          BY <2>3, <2>6, <3>1, <5>1 DEF UserData
      <4>3. told'[n] = "on"
        BY <1>a, <2>6, <4>1, <4>2 DEF Told, SaveUserOps
      <4> QED
        BY <4>1, <4>3 DEF ToldFile
    <3>2. CASE req[p].data = Disabled(req[p].key)
      <4>1. files'[n].kind = "user" /\ files'[n].on = FALSE /\ req[p].data.on = FALSE
        BY <2>3, <2>5, <2>6, <3>2, Kinds DEF UserData
      <4>2. req[p].op \notin {"create", "enable"}
        <5>1. Enabled(req[p].key) # Disabled(req[p].key)
          BY <2>3, <2>6, Kinds DEF UserData
        <5> QED
          BY <2>3, <2>6, <3>2, <5>1 DEF UserData
      <4>3. told'[n] = "off"
        BY <1>a, <2>6, <4>1, <4>2 DEF Told, SaveUserOps
      <4> QED
        BY <4>1, <4>3 DEF ToldFile
    <3> QED
      BY <2>3, <2>6, <3>1, <3>2 DEF UserData
  <2>7. CASE req[p].op \notin SaveUserOps
    <3>1. CASE req[p].op = "addaccount"
      <4>1. files'[n].kind = "account" /\ files'[n].on = TRUE
        BY <2>3, <2>5, <2>7, <3>1, Kinds
      <4>2. told'[n] = "on"
        BY <1>a, <3>1 DEF Told
      <4> QED
        BY <4>1, <4>2 DEF ToldFile
    <3>2. CASE req[p].op = "setaccount"
      <4>1. files'[n].kind = "account" /\ files'[n].on = FALSE
        BY <2>3, <2>5, <2>7, <3>2, Kinds
      <4>2. told'[n] = "off"
        BY <1>a, <3>2 DEF Told
      <4> QED
        BY <4>1, <4>2 DEF ToldFile
    <3> QED
      BY <2>3, <2>7, <3>1, <3>2
  <2> QED
    BY <2>6, <2>7
<1>3. CASE Remove(p) \/ Unclaim(p) \/ UnclaimFail(p)
  <2>1. req[p].op \in {"delete", "delaccount"}
    BY <1>a, <1>3 DEF Remove, Unclaim, UnclaimFail, At, Stepped, GroupOps
  <2>2. files'[n] = None
    BY <1>a, <1>3 DEF Remove, Unclaim, UnclaimFail, At, Undisturbed, disk
  <2> QED
    BY <1>a, <2>1, <2>2 DEF ToldFile, Told
<1> QED
  BY <1>1, <1>2, <1>3 DEF Finishes

\* What was told of a user or account is so, or else a request is about to tell
\* something else.
LEMMA KnownStep ==
    Typed /\ Apart /\ Undisturbed /\ Fresh /\ Known /\ [Next]_vars => Known'
<1> SUFFICES ASSUME TypeOK, FilesTyped, Shape, Apart, Undisturbed, Fresh, Known, [Next]_vars,
                    NEW n \in Users \cup Keys, \A q \in Procs : ~Committed(q, n)'
             PROVE  ToldFile(n)'
  BY DEF Typed, Known
<1>1. ASSUME NEW p \in Procs, UserStep(p) \/ GroupStep(p) \/ DeleteStep(p)
      PROVE  ToldFile(n)'
  <2>a. /\ Advanced(p) /\ Busy(p) /\ Named(req[p]) /\ Stepped(req[p]) /\ Saving(req[p])
        /\ req \in [Procs -> Request] /\ files \in [Names -> Contents]
    BY <1>1, StepShape, Running DEF Shape, TypeOK
  <2>b. \A q \in Procs \ {p} : ~Committed(q, n)
    BY <2>a DEF Advanced, Committed
  <2>c. ASSUME told'[n] = told[n], files'[n] = files[n], ~Committed(p, n)
        PROVE  ToldFile(n)'
    BY <2>b, <2>c DEF Known, ToldFile
  <2>1. CASE n # req[p].name
    <3>1. told'[n] = told[n]
      BY <1>1, <2>a, <2>1, Outcome, Tells
    <3>2. files'[n] = files[n]
      BY <1>1, <2>1, ChangedOwn
    <3> QED
      BY <2>c, <2>1, <3>1, <3>2 DEF Committed
  <2>2. CASE n = req[p].name /\ told' = told /\ ~Committed(p, n)
    <3>1. CASE files'[n] = files[n]
      BY <2>c, <2>2, <3>1
    <3>2. CASE files'[n] # files[n]
      <4>1. Truncates(p, n) \/ Fills(p, n) \/ Removes(p, n)
        BY <1>1, <3>2, Changed DEF Names
      <4>2. ~Fills(p, n)
        BY <2>2 DEF Fills, Write, At, Committed
      <4>3. ~Truncates(p, n)
        <5>1. SUFFICES ASSUME Truncates(p, n) PROVE FALSE
          OBVIOUS
        <5>2. /\ req'[p].pc = "write" /\ req'[p].file = n /\ req'[p].name = n
          BY <2>2, <5>1, Gone DEF Truncates, Truncate, TypeOK, PCs, SavePCs, SameRequest
        <5> QED
          BY <5>2 DEF Committed
      <4>4. CASE Removes(p, n)
        <5>1. req[p].op \in {"delete", "delaccount"} /\ req[p].data.kind # "group"
          BY <2>a, <2>2, <4>4, Kinds, DisjointAssumption
             DEF Removes, Remove, At, Stepped, Named, GroupOps, UserContents, UserFiles
        <5>2. ~Goto(p, "unclaim")
          <6>1. Goto(p, "unclaim") => req'[p].pc = "unclaim" /\ req'[p].name = n
            BY <2>a, <2>2, Gone DEF PCs, SameRequest
          <6> QED
            BY <6>1 DEF Committed
        <5>3. Answer(p, "ok")
          BY <4>4, <5>1, <5>2 DEF Removes, Remove
        <5>4. told'[n] \in {"none", "unknown"}
          BY <2>a, <2>2, <5>1, <5>3, Tells DEF Told
        <5> QED
          BY <4>4, <5>4 DEF Removes, ToldFile
      <4> QED
        BY <4>1, <4>2, <4>3, <4>4
    <3> QED
      BY <3>1, <3>2
  <2>3. CASE n = req[p].name /\ Answer(p, "refused") /\ req[p].pc \in Refusals /\ files' = files
    <3>1. ~Committed(p, n)
      BY <2>3 DEF Committed, Refusals
    <3>2. CASE req[p].op = "create"
      <4>1. req[p].pc \in {"find", "claim"} /\ n \in Users
        BY <2>a, <2>3, <3>2 DEF Refusals, Stepped, Named, UserOps, AllOps
      <4>2. files[n] = None
        BY <2>3, <3>2, <4>1 DEF Fresh, Unborn
      <4>3. told'[n] = "new"
        BY <2>a, <2>3, <3>2, Tells
      <4> QED
        BY <2>3, <4>2, <4>3 DEF ToldFile
    <3>3. CASE req[p].op # "create"
      BY <2>a, <2>c, <2>3, <3>1, <3>3, Tells
    <3> QED
      BY <3>2, <3>3
  <2>4. CASE n = req[p].name /\ Answer(p, "failed")
    BY <2>a, <2>4, Tells DEF ToldFile
  <2>5. CASE n = req[p].name /\ Answer(p, "ok") /\ (req[p].op \in GroupOps \/ Finishes(p))
    <3>1. CASE req[p].alone
      BY <2>a, <2>5, <3>1, Tells, ToldTruly
    <3>2. CASE ~req[p].alone
      BY <2>a, <2>5, <3>2, Tells DEF ToldFile
    <3> QED
      BY <3>1, <3>2
  <2> QED
    BY <1>1, <2>1, <2>2, <2>3, <2>4, <2>5, Outcome
<1>2. ASSUME NEW p \in Procs, NEW op \in Ops, NEW name \in Names,
             NEW user \in Users \cup {Nobody}, NEW key \in Keys \cup {NoName},
             Begin(p, op, name, user, key)
      PROVE  ToldFile(n)'
  <2>1. /\ UNCHANGED files
        /\ told' = IF op = "create" THEN [told EXCEPT ![name] = "unknown"] ELSE told
    BY <1>2 DEF Begin, disk
  <2>2. \A q \in Procs : ~Committed(q, n)
    BY <1>2, BeginStep DEF Committed, Busy
  <2>3. ToldFile(n)
    BY <2>2 DEF Known
  <2> QED
    BY <2>1, <2>3 DEF ToldFile, TypeOK
<1>3. CASE Crash
  <2>1. CASE \E q \in Procs : Busy(q) /\ req[q].name = n
    BY <1>3, <2>1 DEF Crash, TypeOK, ToldFile
  <2>2. CASE ~\E q \in Procs : Busy(q) /\ req[q].name = n
    <3>1. ToldFile(n)
      BY <2>2 DEF Known, Committed, Busy
    <3> QED
      BY <1>3, <2>2, <3>1 DEF Crash, TypeOK, ToldFile
  <2> QED
    BY <2>1, <2>2
<1>4. CASE Start \/ StartFail
  BY <1>4 DEF Start, StartFail, Known, Committed, ToldFile
<1>5. CASE UNCHANGED vars
  BY <1>5 DEF vars, Known, Committed, ToldFile
<1> QED
  BY <1>1, <1>2, <1>3, <1>4, <1>5 DEF Next

\* What is inductive of users and accounts.
Accounts == Typed /\ Apart /\ Claimed /\ Undisturbed /\ Fresh /\ Known

\* The invariant of users and accounts holds at first,
LEMMA AccountsInit == Init => Accounts
<1> SUFFICES ASSUME Init PROVE Accounts
  OBVIOUS
<1>1. Typed
  BY TypeInit DEF Typed
<1>2. /\ \A p \in Procs : req[p] = Idle
      /\ \A n \in Names : files[n] = None
      /\ \A u \in Users : told[u] = "new"
      /\ \A k \in Keys : told[k] = "none"
  BY DisjointAssumption DEF Init, Names
<1>3. Apart
  BY <1>2 DEF Apart, Down, Alone, Shared, Busy, Idle
<1>4. Claimed
  BY <1>2, Kinds DEF Claimed, Idle, SavePCs, Names
<1>5. Undisturbed
  BY <1>2 DEF Undisturbed, Busy, Idle
<1>6. Fresh
  BY <1>2 DEF Fresh, Busy, Idle, Names
<1>7. Known
  <2>1. \A n \in Users \cup Keys : files[n] = None /\ told[n] \in {"new", "none"}
    BY <1>2 DEF Names
  <2> QED
    BY <2>1 DEF Known, ToldFile
<1> QED
  BY <1>1, <1>3, <1>4, <1>5, <1>6, <1>7 DEF Accounts

\* every step keeps it,
LEMMA AccountsStep == Accounts /\ [Next]_vars => Accounts'
  BY TypeStep, ApartStep, ClaimedStep, UndisturbedStep, FreshStep, KnownStep
     DEF Accounts, Typed

\* and what it says of a user or account without requests is what was told.
LEMMA AccountsAnswered == Accounts => AnswersHold
<1> SUFFICES ASSUME Accounts PROVE AnswersHold
  OBVIOUS
<1>1. ASSUME NEW n \in Users \cup Keys, Calm(n) PROVE ToldFile(n)
  BY <1>1 DEF Accounts, Known, Committed, Calm, Busy, About
<1>2. ASSUME NEW u \in Users, Calm(u) PROVE ToldUser(u)
  <2>1. ToldFile(u) /\ files[u] \in UserContents
    BY <1>1, <1>2 DEF Accounts, Typed, FilesTyped
  <2>2. files[u].kind = "user" => Signs(files[u].key, u)
    BY DEF Accounts, Claimed
  <2>3. files[u].kind # "account"
    BY <2>1, Kinds DEF UserContents, UserFiles
  <2> QED
    BY <2>1, <2>2, <2>3 DEF ToldUser, ToldFile, Signs
<1>3. ASSUME NEW k \in Keys, Calm(k) PROVE ToldAccount(k)
  <2>1. ToldFile(k) /\ files[k] \in AccountContents
    BY <1>1, <1>3 DEF Accounts, Typed, FilesTyped
  <2>2. CASE told[k] \in {"on", "off"}
    <3>1. /\ files[k] \in {Active, Inactive}
          /\ told[k] = "on" => files[k].on = TRUE
          /\ told[k] = "off" => files[k].on = FALSE
      BY <2>1, <2>2, Kinds DEF ToldFile, AccountContents
    <3>2. /\ told[k] = "on" => files[k] = Active
          /\ told[k] = "off" => files[k] = Inactive
      BY <3>1, Kinds
    <3> QED
      BY <2>2, <3>2, Zenon DEF ToldAccount, Active, Inactive
  <2>3. CASE told[k] \notin {"on", "off"}
    BY <2>1, <2>3 DEF ToldAccount, ToldFile
  <2> QED
    BY <2>2, <2>3
<1> QED
  BY <1>2, <1>3 DEF AnswersHold

\* What the answers tell of users and accounts (Create, Update, AttachPolicy
\* and Delete of the services) is what their files hold, and the key of a user
\* signs in this user, across the failures and restarts of everything else.
THEOREM AnswersCorrect == Spec => []AnswersHold
  BY AccountsInit, AccountsStep, AccountsAnswered, PTL DEF Spec

-----------------------------------------------------------------------------
(* Groups *)

\* A request works on a group only if it is about it.
LEMMA WorksOn ==
    ASSUME Typed, NEW p \in Procs, NEW g \in Groups, Changing(p, g)
    PROVE  g \in About(req[p]) /\ Busy(p)
<1>1. Busy(p) /\ Named(req[p]) /\ Stepped(req[p]) /\ Saving(req[p])
  BY DEF Changing, SavePCs, Busy, Typed, Shape
<1>2. CASE req[p].op = "delete"
  BY <1>1, <1>2 DEF About
<1>3. CASE req[p].op # "delete" /\ req[p].pc \in SavePCs /\ req[p].file = g
  <2>1. req[p].file = req[p].name
    BY <1>1, <1>3 DEF Saving
  <2> QED
    BY <1>1, <1>3, <2>1 DEF About
<1> QED
  BY <1>1, <1>2, <1>3 DEF Changing, About

\* A request that is about a group deletes a user or is about it by name.
LEMMA AboutGroup ==
    ASSUME Typed, NEW p \in Procs, Busy(p), NEW g \in Groups, g \in About(req[p])
    PROVE  /\ \/ req[p].op = "delete" /\ req[p].name \in Users
              \/ req[p].op \in GroupOps /\ req[p].name = g
           /\ Named(req[p]) /\ Stepped(req[p]) /\ Saving(req[p])
<1>1. Named(req[p]) /\ Stepped(req[p]) /\ Saving(req[p]) /\ req[p].op \in AllOps
  BY DEF Typed, TypeOK, Request, Shape
<1>2. CASE req[p].op = "delete"
  BY <1>1, <1>2 DEF Named, UserOps
<1>3. CASE req[p].op # "delete"
  <2>1. req[p].name = g
    BY <1>3 DEF About
  <2>2. req[p].op \notin UserOps \cup AccountOps
    BY <1>1, <2>1, DisjointAssumption DEF Named
  <2> QED
    BY <1>1, <2>1, <2>2 DEF AllOps
<1> QED
  BY <1>1, <1>2, <1>3

\* What is known of a group and a request about it, the only one.
Sound(p, g) ==
    /\ Removing(p, g)
    /\ IF Changing(p, g) THEN Halfway(p, g) ELSE \A u \in Users : Agree(g, u)

\* A step that changes neither the file nor the index entries of a group.
Same(g) ==
    /\ files'[g] = files[g]
    /\ \A u \in Users : g \in member'[u] <=> g \in member[u]

\* Such a step keeps the index in agreement, or out of it.
LEMMA SameAgree ==
    ASSUME NEW g, Same(g), NEW u \in Users
    PROVE  Agree(g, u)' <=> Agree(g, u)
  BY DEF Same, Agree, Members, Readable

\* So does a request that neither was nor is changing the group.
LEMMA StillSound ==
    ASSUME NEW p, NEW g, Sound(p, g), ~Changing(p, g), ~Changing(p, g)', Same(g),
           req'[p].pc = "remove" /\ req'[p].op = "delgroup" /\ req'[p].name = g =>
             req'[p].data = files'[g]
    PROVE  Sound(p, g)'
  BY SameAgree DEF Sound, Removing

\* A request about a group keeps it in step with the index, or on the way there.
LEMMA SoundStep ==
    ASSUME Typed, NEW p \in Procs, UserStep(p) \/ GroupStep(p) \/ DeleteStep(p),
           NEW g \in Groups, g \in About(req[p]), g \notin mixed', Sound(p, g)
    PROVE  Sound(p, g)'
<1> USE DEF At
<1>a. /\ Busy(p) /\ Named(req[p]) /\ Stepped(req[p]) /\ Saving(req[p])
      /\ (req[p].op = "delete" /\ req[p].name \in Users)
         \/ (req[p].op \in GroupOps /\ req[p].name = g)
      /\ req[p] \in Request /\ req \in [Procs -> Request] /\ g \in Names
      /\ files \in [Names -> Contents]
      /\ req'[p].pc # "idle" => SameRequest(req'[p], req[p])
  <2>1. Busy(p) /\ Advanced(p)
    BY Running, StepShape DEF Typed
  <2>2. req'[p].pc # "idle" => req'[p] # Idle
    BY DEF Idle
  <2>3. req'[p].pc # "idle" => SameRequest(req'[p], req[p])
    BY <2>1, <2>2 DEF Advanced
  <2> QED
    BY <2>1, <2>3, AboutGroup DEF Typed, TypeOK, Names
<1>b. ASSUME req'[p].pc \notin SavePCs \cup {"index", "unindex"}
      PROVE  ~Changing(p, g)'
  BY <1>b DEF Changing
<1>c. ASSUME files' = files, member' = member PROVE Same(g)
  BY <1>c DEF Same
<1>1. CASE Find(p) \/ AttachedAlready(p) \/ Claim(p)
  BY <1>a, <1>1 DEF Find, AttachedAlready, Claim, Stepped, GroupOps, SaveUserOps
<1>d. ASSUME Same(g), ~Changing(p, g), ~Changing(p, g)', req'[p].pc # "remove"
      PROVE  Sound(p, g)'
  BY <1>d, StillSound
<1>2. CASE StatFile(p)
  <2>1. ~Changing(p, g) /\ Same(g) /\ req[p].op = "addgroup" /\ req[p].name = g
    <3>1. req[p].pc = "stat" /\ files' = files /\ member' = member
      BY <1>2 DEF StatFile, stores, disk
    <3>2. req[p].op = "addgroup" /\ req[p].name = g
      BY <1>a, <3>1 DEF Stepped, GroupOps
    <3> QED
      BY <1>c, <3>1, <3>2 DEF Changing, SavePCs
  <2>2. CASE Answer(p, "refused")
    BY <1>a, <1>b, <1>d, <2>1, <2>2, Tells DEF Typed, Idle, SavePCs
  <2>3. CASE files[g] = None /\ Save(p, req[p], g, GroupFile({}))
    <3>1. GroupFile({}) \in Contents
      BY Writable DEF GroupContents, GroupFiles
    <3>2. /\ req'[p].pc = "truncate" /\ req'[p].file = g /\ req'[p].data = GroupFile({})
          /\ req'[p].op = "addgroup" /\ req'[p].user = req[p].user
      BY <1>a, <2>1, <2>3, <3>1, Saved DEF SameRequest
    <3>3. \A u \in Users : ~(g \in member'[u])
      BY <2>1, <2>3, Kinds DEF Sound, Same, Agree, Members, Readable
    <3>4. req'[p].data.users = {}
      BY <3>2, Kinds
    <3> QED
      BY <3>2, <3>3, <3>4 DEF Sound, Changing, Halfway, Removing, SavePCs, Mover
  <2> QED
    BY <1>2, <2>1, <2>2, <2>3 DEF StatFile
<1>3. CASE Get(p)
  <2>1. ~Changing(p, g) /\ Same(g)
    BY <1>c, <1>3 DEF Get, Changing, SavePCs, stores, disk
  <2>2. req'[p].pc \in {"idle", "groups", "load"}
    <3>1. \/ Answer(p, "refused") \/ Goto(p, "groups") \/ Goto(p, "load")
      BY <1>a, <1>3 DEF Get, GroupOps, Stepped
    <3> QED
      BY <1>a, <3>1, Gone, Tells DEF PCs, Typed, Idle
  <2> QED
    BY <1>b, <1>d, <2>1, <2>2 DEF SavePCs
<1>4. CASE Truncate(p)
  <2>1. /\ req'[p].pc = "write" /\ req'[p].file = req[p].file /\ SameRequest(req'[p], req[p])
        /\ req'[p].data = req[p].data /\ req[p].pc = "truncate" /\ req[p].file \in Names
    BY <1>a, <1>4, Gone, Target DEF Truncate, PCs, SavePCs, Typed
  <2>2. CASE req[p].file = g
    <3>1. files'[g] = Empty /\ p \in linked' /\ member' = member
      BY <1>a, <1>4, <2>2 DEF Truncate
    <3>2. Changing(p, g) /\ Changing(p, g)'
      BY <2>1, <2>2 DEF Changing, SavePCs
    <3> QED
      BY <2>1, <3>1, <3>2 DEF Sound, Halfway, Removing, SavePCs, Mover, SameRequest
  <2>3. CASE req[p].file # g
    <3>1. Same(g) /\ ~Changing(p, g) /\ ~Changing(p, g)'
      BY <1>a, <1>4, <2>1, <2>3 DEF Truncate, Same, Changing, SavePCs
    <3> QED
      BY <1>d, <2>1, <3>1
  <2> QED
    BY <2>2, <2>3
<1>5. CASE Write(p)
  <2>1. req[p].pc = "write" /\ member' = member
    BY <1>5 DEF Write
  <2>2. CASE req[p].file = g
    <3>1. Changing(p, g)
      BY <2>1, <2>2 DEF Changing, SavePCs
    <3>2. files'[g] = req[p].data
      BY <1>a, <1>5, <2>1, <2>2, <3>1 DEF Sound, Halfway, Write, Written
    <3>3. req[p].op \in SaveGroupOps \cup {"delete"} /\ req[p].data \in GroupFiles
      BY <1>a, <2>1, <2>2, DisjointAssumption
         DEF Saving, SavePCs, Named, UserOps, AccountOps, SaveUserOps
    <3>4. Members(g)' = req[p].data.users
      BY <3>2, <3>3, Kinds DEF Members, Readable, GroupFiles
    <3>5. /\ \A u \in Users \ {Mover(req[p])} : Agree(g, u)'
          /\ Mover(req[p]) \in Members(g)' <=> req[p].op = "join"
      BY <2>1, <3>1, <3>4 DEF Sound, Halfway, SavePCs, Agree
    <3>6. CASE req[p].op = "addgroup"
      <4>1. req'[p].pc = "idle"
        BY <1>a, <1>5, <3>6, Tells DEF Write, Idle, Typed
      <4>2. Mover(req[p]) \notin Users
        BY <1>a, <3>6 DEF Mover, Named, UserOps
      <4> QED
        BY <1>b, <3>5, <4>1, <4>2 DEF Sound, Removing, SavePCs
    <3>7. CASE req[p].op \in {"join", "leave", "delete"}
      <4>1. /\ req'[p].pc = IF req[p].op = "join" THEN "index" ELSE "unindex"
            /\ SameRequest(req'[p], req[p]) /\ req'[p].file = req[p].file
        BY <1>a, <1>5, <3>7, Gone DEF Write, PCs
      <4>2. Changing(p, g)'
        BY <1>a, <2>2, <3>7, <4>1 DEF Changing, SameRequest
      <4>3. Mover(req'[p]) = Mover(req[p])
        BY <4>1 DEF Mover, SameRequest
      <4> QED
        BY <3>5, <3>7, <4>1, <4>2, <4>3 DEF Sound, Halfway, Removing, SavePCs, SameRequest
    <3> QED
      BY <3>3, <3>6, <3>7 DEF SaveGroupOps
  <2>3. CASE req[p].file # g
    <3>1. req[p].op = "delete"
      BY <1>a, <2>1, <2>3 DEF Saving, SavePCs, SaveGroupOps, SaveUserOps, GroupOps
    <3>2. req'[p].pc = "unindex" /\ req'[p].file = req[p].file /\ req'[p].op = "delete"
      BY <1>a, <1>5, <3>1, Gone DEF Write, PCs, SameRequest
    <3>3. Same(g) /\ ~Changing(p, g) /\ ~Changing(p, g)'
      BY <1>a, <1>5, <2>1, <2>3, <3>2 DEF Write, Written, Same, Changing, SavePCs
    <3> QED
      BY <1>d, <3>2, <3>3
  <2> QED
    BY <2>2, <2>3
<1>6. CASE SaveFail(p) \/ IndexFail(p) \/ RemoveFail(p)
  <2>1. Same(g)
    BY <1>c, <1>6 DEF SaveFail, IndexFail, RemoveFail, disk
  <2>2. ~Changing(p, g)
    BY <1>6 DEF SaveFail, IndexFail, RemoveFail, Changing, SavePCs
  <2>3. req'[p].pc \in {"idle", "groups"}
    BY <1>6, Arrival DEF Typed
  <2> QED
    BY <1>b, <1>d, <2>1, <2>2, <2>3 DEF SavePCs
<1>7. CASE CheckUser(p) \/ FindGroups(p) \/ Load(p)
  <2>1. Same(g)
    BY <1>c, <1>7 DEF CheckUser, FindGroups, Load, stores, disk
  <2>2. ~Changing(p, g)
    BY <1>7 DEF CheckUser, FindGroups, Load, Changing, SavePCs
  <2>3. req'[p].pc \in {"idle", "read", "groups", "remove"}
    BY <1>7, Arrival DEF Typed
  <2>4. req'[p].pc = "remove" => req'[p].data = files'[req'[p].name]
    <3>1. req'[p].pc = "remove" => Load(p)
      BY <1>7, Arrival DEF Typed
    <3>2. Load(p) => req'[p].data = files[req[p].name] /\ req'[p].name = req[p].name
      BY <1>a DEF Load, Become, Request
    <3>3. files' = files
      BY <1>7 DEF CheckUser, FindGroups, Load, stores, disk
    <3> QED
      BY <3>1, <3>2, <3>3
  <2> QED
    BY <1>b, <2>1, <2>2, <2>3, <2>4, StillSound DEF SavePCs
<1>8. CASE ReadGroup(p)
  <2>1. /\ ~Changing(p, g) /\ Same(g) /\ req[p].op \in {"join", "leave"} /\ req[p].name = g
        /\ req[p].user \in Users
    BY <1>a, <1>c, <1>8 DEF ReadGroup, Changing, SavePCs, stores, disk, Stepped
  <2>2. CASE \E out : Answer(p, out)
    BY <1>a, <1>b, <1>d, <2>1, <2>2, Tells DEF Typed, Idle, SavePCs
  <2>3. CASE ~\E out : Answer(p, out)
    <3> DEFINE users == files[g].users
               now == IF req[p].op = "join" THEN users \cup {req[p].user}
                      ELSE users \ {req[p].user}
    <3>1. Readable(g) /\ Save(p, req[p], g, GroupFile(now))
      BY <1>8, <2>1, <2>3 DEF ReadGroup
    <3>2. users \in SUBSET Users
      BY <3>1, Held DEF Typed
    <3>3. /\ now \in SUBSET Users
          /\ \A u \in Users \ {req[p].user} : u \in now <=> u \in users
          /\ req[p].user \in now <=> req[p].op = "join"
      BY <2>1, <3>2
    <3>4. \A u \in Users : g \in member'[u] <=> u \in users
      BY <2>1, <3>1 DEF Sound, Same, Agree, Members
    <3> HIDE DEF now, users
    <3>5. GroupFile(now) \in Contents /\ GroupFile(now).users = now
      BY <3>3, Writable, Kinds DEF GroupContents, GroupFiles
    <3>6. /\ req'[p].pc = "truncate" /\ req'[p].file = g /\ req'[p].data = GroupFile(now)
          /\ req'[p].op = req[p].op /\ req'[p].user = req[p].user
      BY <1>a, <3>1, <3>5, Saved DEF SameRequest
    <3> QED
      BY <2>1, <3>3, <3>4, <3>5, <3>6 DEF Sound, Changing, Halfway, Removing, SavePCs, Mover
  <2> QED
    BY <2>2, <2>3
<1>9. CASE AddToIndex(p)
  <2>1. /\ req[p].op = "join" /\ req[p].name = g /\ req[p].user \in Users
        /\ req[p].pc = "index"
    BY <1>a, <1>9 DEF AddToIndex, Stepped
  <2>2. Changing(p, g) /\ Mover(req[p]) = req[p].user
    BY <2>1 DEF Changing, Mover
  <2>3. /\ \A u \in Users \ {req[p].user} : Agree(g, u)
        /\ req[p].user \in Members(g)
    BY <2>1, <2>2 DEF Sound, Halfway
  <2>4. /\ files' = files
        /\ member' = [member EXCEPT ![req[p].user] = Joined(@, g)]
        /\ member \in [Users -> SUBSET (Groups \cup {NoName})]
    BY <1>9, <2>1 DEF AddToIndex, Typed, TypeOK
  <2>5. g \in member'[req[p].user]
    BY <2>1, <2>4 DEF Joined
  <2>6. \A u \in Users : Agree(g, u)'
    BY <2>1, <2>3, <2>4, <2>5 DEF Agree, Members, Readable
  <2>7. req'[p].pc = "idle"
    BY <1>9, Arrival DEF Typed
  <2> QED
    BY <1>b, <2>6, <2>7 DEF Sound, Removing, SavePCs
<1>10. CASE RemoveFromIndex(p)
  <2>1. req[p].pc = "unindex" /\ files' = files /\ req[p].op \in {"leave", "delete", "delgroup"}
    BY <1>a, <1>10 DEF RemoveFromIndex, Stepped
  <2>2. req'[p].pc \in {"idle", "groups"}
    BY <1>10, Arrival DEF Typed
  <2>3. CASE Changing(p, g) /\ req[p].op # "delgroup"
    <3>1. member' = Left(g, {Mover(req[p])})
      BY <1>10, <2>1, <2>3 DEF RemoveFromIndex, Changing, SavePCs, Mover
    <3>2. /\ \A u \in Users \ {Mover(req[p])} : Agree(g, u)
          /\ Mover(req[p]) \notin Members(g)
      BY <2>1, <2>3 DEF Sound, Halfway
    <3>3. \A u \in Users : Agree(g, u)'
      BY <2>1, <3>1, <3>2 DEF Left, Agree, Members, Readable
    <3> QED
      BY <1>b, <2>2, <3>3 DEF Sound, Removing, SavePCs
  <2>4. CASE Changing(p, g) /\ req[p].op = "delgroup"
    <3>1. member' = Left(g, req[p].data.users)
      BY <1>10, <2>1, <2>4 DEF RemoveFromIndex, Changing, SavePCs
    <3>2. files[g] = None /\ \A u \in Users : g \in member[u] => u \in req[p].data.users
      BY <2>1, <2>4 DEF Sound, Halfway
    <3>3. \A u \in Users : Agree(g, u)'
      BY <2>1, <3>1, <3>2, Kinds DEF Left, Agree, Members, Readable
    <3> QED
      BY <1>b, <2>2, <3>3 DEF Sound, Removing, SavePCs
  <2>5. CASE ~Changing(p, g)
    <3>1. req[p].op = "delete" /\ req[p].file # g
      BY <1>a, <2>1, <2>5 DEF Changing
    <3>2. member' = Left(req[p].file, {req[p].name})
      BY <1>10, <3>1 DEF RemoveFromIndex
    <3>3. Same(g)
      BY <2>1, <3>1, <3>2 DEF Same, Left
    <3> QED
      BY <1>b, <1>d, <2>2, <2>5, <3>3 DEF SavePCs
  <2> QED
    BY <2>3, <2>4, <2>5
<1>11. CASE LeaveGroup(p)
  <2>1. ~Changing(p, g) /\ Same(g) /\ req[p].op = "delete" /\ req[p].name \in Users
    <3>1. req[p].pc = "groups" /\ files' = files /\ member' = member
      BY <1>11 DEF LeaveGroup, stores, disk
    <3> QED
      BY <1>a, <1>c, <3>1 DEF Changing, SavePCs, Stepped, GroupOps
  <2>2. CASE req'[p].pc \in {"load", "groups"}
    BY <1>b, <1>d, <2>1, <2>2 DEF SavePCs
  <2>3. CASE req'[p].pc = "truncate"
    <3>1. PICK h \in req[p].groups :
            LET rest == [req[p] EXCEPT !.groups = @ \ {h}]
            IN IF h \in Groups /\ Readable(h)
               THEN Save(p, rest, h, GroupFile(files[h].users \ {req[p].name}))
               ELSE Become(p, rest)
      <4>1. ~Goto(p, "load")
        BY <1>a, <2>3, Gone DEF PCs
      <4> QED
        BY <1>11, <4>1 DEF LeaveGroup
    <3> DEFINE rest == [req[p] EXCEPT !.groups = @ \ {h}]
               now == files[h].users \ {req[p].name}
    <3>2. rest \in Request /\ rest.pc = req[p].pc /\ SameRequest(rest, req[p])
      BY <1>a DEF Request, SameRequest
    <3>3. h \in Groups /\ Readable(h) /\ Save(p, rest, h, GroupFile(now))
      <4>1. ~Become(p, rest)
        BY <1>a, <1>11, <2>3, <3>2 DEF Become, LeaveGroup
      <4> QED
        BY <3>1, <4>1
    <3>4. now \in SUBSET Users /\ req[p].name \notin now
      BY <3>3, Held DEF Typed
    <3>5. GroupFile(now) \in Contents /\ GroupFile(now).users = now /\ h \in Names
      BY <3>3, <3>4, Writable, Kinds DEF GroupContents, GroupFiles, Names
    <3>a. h = g => \A u \in Users \ {req[p].name} : g \in member'[u] <=> u \in now
      BY <2>1, <3>3 DEF Sound, Same, Agree, Members
    <3> HIDE DEF rest, now
    <3>6. /\ req'[p].file = h /\ req'[p].data = GroupFile(now) /\ req'[p].op = "delete"
          /\ req'[p].name = req[p].name
      BY <1>a, <2>1, <3>2, <3>3, <3>5, Saved DEF SameRequest
    <3>7. CASE h # g
      <4>1. ~Changing(p, g)'
        BY <2>3, <3>6, <3>7 DEF Changing
      <4> QED
        BY <1>d, <2>1, <2>3, <4>1
    <3>8. CASE h = g
      BY <2>3, <3>4, <3>5, <3>6, <3>8, <3>a
         DEF Sound, Changing, Halfway, Removing, SavePCs, Mover
    <3> QED
      BY <3>7, <3>8
  <2> QED
    BY <1>11, <2>2, <2>3, Arrival DEF Typed
<1>12. CASE Remove(p)
  <2>1. /\ req[p].pc = "remove" /\ member' = member
        /\ files' = [files EXCEPT ![req[p].name] = None]
    BY <1>12 DEF Remove
  <2>2. ~Changing(p, g) /\ \A u \in Users : Agree(g, u)
    BY <2>1 DEF Sound, Changing, SavePCs
  <2>3. CASE req[p].op = "delete" /\ req[p].name \in Users
    <3>1. req'[p].pc \in {"idle", "unclaim"}
      <4>1. req[p].data.kind # "group"
        BY <1>a, <2>1, <2>3, Kinds DEF Stepped, UserContents, UserFiles
      <4>2. Goto(p, "unclaim") \/ Answer(p, "ok")
        BY <1>12, <4>1 DEF Remove
      <4> QED
        BY <1>a, <4>2, Gone, Tells DEF PCs, Typed, Idle
    <3>2. Same(g)
      BY <2>1, <2>3, DisjointAssumption DEF Same
    <3> QED
      BY <1>b, <1>d, <2>2, <3>1, <3>2 DEF SavePCs
  <2>4. CASE req[p].op = "delgroup" /\ req[p].name = g
    <3>1. req[p].data = files[g] /\ req[p].data \in GroupContents /\ files'[g] = None
      BY <1>a, <2>1, <2>4 DEF Sound, Removing, Stepped
    <3>2. CASE req[p].data.kind = "group"
      <4>1. /\ req'[p].pc = "unindex" /\ SameRequest(req'[p], req[p])
            /\ req'[p].data = req[p].data
        <5>1. Goto(p, "unindex")
          BY <1>12, <3>2 DEF Remove
        <5> QED
          BY <1>a, <5>1, Gone DEF PCs
      <4>2. \A u \in Users : g \in member'[u] => u \in req[p].data.users
        BY <2>1, <2>2, <3>1 DEF Agree, Members
      <4> QED
        BY <2>4, <3>1, <4>1, <4>2 DEF Sound, Changing, Halfway, Removing, SameRequest, SavePCs
    <3>3. CASE req[p].data.kind # "group"
      <4>1. ~Readable(g) /\ req[p].data.kind # "user"
        BY <3>1, <3>3, Kinds DEF Readable, GroupContents, GroupFiles
      <4>2. req'[p].pc = "idle"
        BY <1>a, <1>12, <3>3, <4>1, Tells DEF Remove, Typed, Idle
      <4>3. \A u \in Users : Agree(g, u)'
        BY <2>1, <2>2, <3>1, <4>1, Kinds DEF Agree, Members, Readable
      <4> QED
        BY <1>b, <4>2, <4>3 DEF Sound, Removing, SavePCs
    <3> QED
      BY <3>2, <3>3
  <2> QED
    BY <1>a, <2>1, <2>3, <2>4 DEF Stepped, GroupOps
<1>13. CASE Unclaim(p) \/ UnclaimFail(p)
  <2>1. Same(g) /\ ~Changing(p, g)
    <3>1. files' = files /\ member' = member /\ req[p].pc = "unclaim"
      BY <1>13 DEF Unclaim, UnclaimFail, disk
    <3> QED
      BY <1>c, <3>1 DEF Changing, SavePCs
  <2>2. req'[p].pc = "idle"
    BY <1>13, Arrival DEF Typed
  <2> QED
    BY <1>b, <1>d, <2>1, <2>2 DEF SavePCs
<1> QED
  BY <1>1, <1>2, <1>3, <1>4, <1>5, <1>6, <1>7, <1>8, <1>9, <1>10, <1>11, <1>12, <1>13
     DEF UserStep, GroupStep, DeleteStep

\* A request that is not about a group leaves its file and its index entries.
LEMMA Elsewhere ==
    ASSUME Typed, NEW p \in Procs, UserStep(p) \/ GroupStep(p) \/ DeleteStep(p),
           NEW g \in Groups, g \notin About(req[p])
    PROVE  /\ Same(g)
           /\ \A q \in linked : q # p /\ req[q].file = g => q \in linked'
<1>a. /\ Busy(p) /\ Named(req[p]) /\ Stepped(req[p]) /\ Saving(req[p])
      /\ req[p].name # g /\ req[p].op # "delete" /\ g \in Names
      /\ files \in [Names -> Contents]
      /\ member \in [Users -> SUBSET (Groups \cup {NoName})]
  BY Running DEF Typed, TypeOK, Shape, About, Names
<1>b. ~Changing(p, g)
  BY WorksOn
<1>1. files'[g] = files[g]
  <2>1. ~(Truncates(p, g) \/ Fills(p, g) \/ Removes(p, g))
    BY <1>a, <1>b DEF Truncates, Fills, Removes, Truncate, Write, At, SavePCs, Changing
  <2> QED
    BY <1>a, <2>1, Changed DEF Typed
<1>2. ASSUME NEW u \in Users PROVE g \in member'[u] <=> g \in member[u]
  <2>1. CASE AddToIndex(p)
    <3>1. member' = [member EXCEPT ![req[p].user] = Joined(@, req[p].name)]
      BY <2>1 DEF AddToIndex
    <3>2. g # NoName
      BY DisjointAssumption
    <3> QED
      BY <1>a, <3>1, <3>2 DEF Joined
  <2>2. CASE RemoveFromIndex(p)
    <3>1. member' = member \/ \E users : member' = Left(req[p].name, users)
      <4>1. req[p].op = "leave" \/ req[p].op = "delgroup"
        BY <1>a, <2>2 DEF RemoveFromIndex, At, Stepped
      <4>2. CASE req[p].op = "leave"
        BY <2>2, <4>2 DEF RemoveFromIndex
      <4>3. CASE req[p].op = "delgroup"
        BY <2>2, <4>3 DEF RemoveFromIndex
      <4> QED
        BY <4>1, <4>2, <4>3
    <3> QED
      BY <1>a, <3>1 DEF Left
  <2> QED
    BY <2>1, <2>2
       DEF UserStep, GroupStep, DeleteStep, Find, StatFile, Get, AttachedAlready, Claim, Truncate,
           Write, SaveFail, CheckUser, ReadGroup, IndexFail, FindGroups, LeaveGroup, Load, Remove,
           RemoveFail, Unclaim, UnclaimFail, stores, disk
<1>3. \A q \in linked : q # p /\ req[q].file = g => q \in linked'
  BY <1>a
     DEF UserStep, GroupStep, DeleteStep, Find, StatFile, Get, AttachedAlready, Claim, Truncate,
         Write, Written, SaveFail, CheckUser, ReadGroup, AddToIndex, RemoveFromIndex, IndexFail,
         FindGroups, LeaveGroup, Load, Remove, RemoveFail, Unclaim, UnclaimFail, stores, disk
<1> QED
  BY <1>1, <1>2, <1>3 DEF Same

\* What is known of the request of q stays known while it does not move and the
\* group stays as it is.
LEMMA Bystander ==
    ASSUME NEW q, NEW g, req'[q] = req[q], Same(g), Removing(q, g),
           q \in linked /\ req[q].file = g => q \in linked',
           Changing(q, g) => Halfway(q, g),
           req[q].pc = "write" /\ Changing(q, g) => req[q].file = g
    PROVE  /\ Removing(q, g)' /\ (Changing(q, g)' <=> Changing(q, g))
           /\ Changing(q, g)' => Halfway(q, g)'
<1>1. Removing(q, g)' /\ (Changing(q, g)' <=> Changing(q, g))
  BY DEF Removing, Same, Changing
<1>2. ASSUME Changing(q, g) PROVE Halfway(q, g)'
  <2>1. \A u \in Users : Agree(g, u)' <=> Agree(g, u)
    BY SameAgree
  <2>2. Members(g)' = Members(g)
    BY DEF Same, Members, Readable
  <2> QED
    BY <1>2, <2>1, <2>2 DEF Halfway, Same
<1> QED
  BY <1>1, <1>2

\* The index of group members agrees with the files of the groups except while
\* a request moves both.
LEMMA GroupKnownStep == Typed /\ Apart /\ GroupKnown /\ [Next]_vars => GroupKnown'
<1> SUFFICES ASSUME Typed, Apart, GroupKnown, [Next]_vars,
                    NEW g \in Groups, g \notin mixed'
             PROVE  /\ \A q \in Procs : /\ Removing(q, g)'
                                        /\ Changing(q, g)' => Halfway(q, g)'
                    /\ (\A q \in Procs : ~Changing(q, g)') => \A u \in Users : Agree(g, u)'
  BY DEF GroupKnown
<1>a. \A q \in Procs : req[q].pc = "write" /\ Changing(q, g) => req[q].file = g
  BY DEF Changing, SavePCs
<1>1. ASSUME NEW p \in Procs, UserStep(p) \/ GroupStep(p) \/ DeleteStep(p)
      PROVE  /\ \A q \in Procs : Removing(q, g)' /\ (Changing(q, g)' => Halfway(q, g)')
             /\ (\A q \in Procs : ~Changing(q, g)') => \A u \in Users : Agree(g, u)'
  <2>a. /\ up /\ g \notin mixed /\ Busy(p) /\ \A q \in Procs \ {p} : req'[q] = req[q]
    BY <1>1, StepShape, RestStep, Running DEF Advanced, Typed
  <2>b. /\ \A q \in Procs : Removing(q, g) /\ (Changing(q, g) => Halfway(q, g))
        /\ (\A q \in Procs : ~Changing(q, g)) => \A u \in Users : Agree(g, u)
    BY <2>a DEF GroupKnown
  <2>1. CASE g \in About(req[p])
    <3>1. ASSUME NEW q \in Procs \ {p}, Busy(q) PROVE g \notin About(req[q])
      BY <2>a, <2>1, <3>1 DEF Apart, Shared
    <3>2. ASSUME NEW q \in Procs \ {p} PROVE ~Changing(q, g) /\ ~Changing(q, g)' /\ Removing(q, g)'
      <4>1. ~Changing(q, g)
        BY <3>1, WorksOn
      <4>2. ~(req[q].pc = "remove" /\ req[q].name = g)
        BY <3>1 DEF About, Busy
      <4> QED
        BY <2>a, <4>1, <4>2 DEF Changing, Removing
    <3>3. Sound(p, g)
      BY <2>b, <3>2 DEF Sound
    <3>4. Sound(p, g)'
      BY <1>1, <2>1, <3>3, SoundStep
    <3> QED
      BY <3>2, <3>4 DEF Sound
  <2>2. CASE g \notin About(req[p])
    <3>1. Same(g) /\ \A q \in linked : q # p /\ req[q].file = g => q \in linked'
      BY <1>1, <2>2, Elsewhere
    <3>2. ASSUME NEW q \in Procs \ {p}
          PROVE  /\ Removing(q, g)' /\ (Changing(q, g)' <=> Changing(q, g))
                 /\ Changing(q, g)' => Halfway(q, g)'
      BY <1>a, <2>a, <2>b, <3>1, Bystander
    <3>3. ~Changing(p, g) /\ ~Changing(p, g)' /\ Removing(p, g)'
      <4>1. ~Changing(p, g)
        BY <2>2, WorksOn
      <4>2. Busy(p)' => SameRequest(req'[p], req[p]) /\ WellFormed(req'[p])
        <5>1. Advanced(p)
          BY <1>1, StepShape DEF Typed
        <5>2. Busy(p)' => req'[p] # Idle
          BY DEF Busy, Idle
        <5> QED
          BY <5>1, <5>2 DEF Advanced
      <4>3. ~Changing(p, g)'
        BY <2>2, <4>2 DEF Changing, WellFormed, Saving, SameRequest, About, SavePCs, Busy
      <4>4. ~(req'[p].pc = "remove" /\ req'[p].name = g)
        BY <2>2, <4>2 DEF About, Busy, SameRequest
      <4> QED
        BY <4>1, <4>3, <4>4 DEF Removing
    <3>4. \A u \in Users : Agree(g, u)' <=> Agree(g, u)
      BY <3>1, SameAgree
    <3> QED
      BY <2>b, <3>2, <3>3, <3>4
  <2> QED
    BY <2>1, <2>2
<1>2. ASSUME NEW p \in Procs, NEW op \in Ops, NEW name \in Names,
             NEW user \in Users \cup {Nobody}, NEW key \in Keys \cup {NoName},
             Begin(p, op, name, user, key)
      PROVE  /\ \A q \in Procs : Removing(q, g)' /\ (Changing(q, g)' => Halfway(q, g)')
             /\ (\A q \in Procs : ~Changing(q, g)') => \A u \in Users : Agree(g, u)'
  <2>1. UNCHANGED <<files, linked, member, up>>
    BY <1>2 DEF Begin, disk
  <2>2. /\ ~Busy(p) /\ mixed \subseteq mixed'
        /\ req'[p].pc \in {"find", "stat", "check", "read", "get"}
        /\ \A q \in Procs \ {p} :
                /\ req'[q].pc = req[q].pc /\ req'[q].op = req[q].op /\ req'[q].name = req[q].name
                /\ req'[q].user = req[q].user
                /\ req'[q].file = req[q].file /\ req'[q].data = req[q].data
    BY <1>2, BeginStep DEF Typed
  <2>3. /\ \A q \in Procs : Removing(q, g) /\ (Changing(q, g) => Halfway(q, g))
        /\ (\A q \in Procs : ~Changing(q, g)) => \A u \in Users : Agree(g, u)
    BY <2>1, <2>2 DEF GroupKnown
  <2>4. ~Changing(p, g) /\ ~Changing(p, g)' /\ Removing(p, g)'
    BY <2>2 DEF Changing, Removing, SavePCs, Busy
  <2>5. Members(g)' = Members(g) /\ \A u \in Users : Agree(g, u)' <=> Agree(g, u)
    BY <2>1 DEF Members, Readable, Agree
  <2>6. ASSUME NEW q \in Procs \ {p}
        PROVE  /\ Removing(q, g)' /\ (Changing(q, g)' <=> Changing(q, g))
               /\ Changing(q, g)' => Halfway(q, g)'
    <3>1. Removing(q, g)' /\ (Changing(q, g)' <=> Changing(q, g))
      BY <2>1, <2>2, <2>3 DEF Removing, Changing
    <3>2. Halfway(q, g) => Halfway(q, g)'
      BY <2>1, <2>2, <2>5 DEF Halfway, Mover
    <3> QED
      BY <2>3, <3>1, <3>2
  <2> QED
    BY <2>3, <2>4, <2>5, <2>6
<1>3. CASE Crash
  <2>1. g \notin mixed /\ \A q \in Procs : Busy(q) => g \notin About(req[q])
    BY <1>3 DEF Crash
  <2>2. \A q \in Procs : ~Changing(q, g)
    BY <2>1, WorksOn DEF Changing, SavePCs, Busy
  <2>3. \A u \in Users : Agree(g, u)
    BY <2>1, <2>2 DEF GroupKnown
  <2>4. (\A q \in Procs : req'[q] = Idle) /\ UNCHANGED <<files, member>>
    BY <1>3 DEF Crash
  <2>5. \A u \in Users : Agree(g, u)'
    BY <2>3, <2>4 DEF Agree, Members, Readable
  <2> QED
    BY <2>4, <2>5 DEF Idle, Removing, Changing, SavePCs
<1>4. CASE Start \/ StartFail
  <2>1. /\ \A q \in Procs : req'[q] = req[q] /\ req[q].pc = "idle"
        /\ UNCHANGED files
    BY <1>4 DEF Start, StartFail, Apart, Down, Busy
  <2>2. CASE RebuildGroups
    <3>1. \A u \in Users : Agree(g, u)'
      BY <2>1, <2>2 DEF RebuildGroups, Agree, Members, Readable
    <3> QED
      BY <2>1, <3>1 DEF Removing, Changing, SavePCs
  <2>3. CASE UNCHANGED <<member, mixed>>
    <3>1. \A u \in Users : Agree(g, u)
      BY <2>1, <2>3 DEF GroupKnown, Changing, SavePCs
    <3>2. \A u \in Users : Agree(g, u)'
      BY <2>1, <2>3, <3>1 DEF Agree, Members, Readable
    <3> QED
      BY <2>1, <3>2 DEF Removing, Changing, SavePCs
  <2> QED
    BY <1>4, <2>2, <2>3 DEF Start, StartFail
<1>5. CASE UNCHANGED vars
  BY <1>5 DEF vars, GroupKnown, Removing, Changing, Halfway, Agree, Members, Readable
<1> QED
  BY <1>1, <1>2, <1>3, <1>4, <1>5 DEF Next

\* What is inductive of groups.
Memberships == Typed /\ Apart /\ GroupKnown

\* The invariant of groups holds at first,
LEMMA MembershipsInit == Init => Memberships
<1> SUFFICES ASSUME Init PROVE Memberships
  OBVIOUS
<1>1. Typed /\ Apart
  BY AccountsInit DEF Accounts
<1>2. GroupKnown
  <2>1. /\ \A p \in Procs : req[p].pc = "idle"
        /\ \A g \in Groups : files[g] = None
        /\ \A u \in Users : member[u] = {}
    BY DEF Init, Idle, Names
  <2>2. \A g \in Groups, u \in Users : Agree(g, u)
    BY <2>1, Kinds DEF Agree, Members, Readable
  <2> QED
    BY <2>1, <2>2 DEF GroupKnown, Removing, Changing, SavePCs
<1> QED
  BY <1>1, <1>2 DEF Memberships

\* every step keeps it,
LEMMA MembershipsStep == Memberships /\ [Next]_vars => Memberships'
  BY TypeStep, ApartStep, GroupKnownStep DEF Memberships, Typed

\* and what it says of a group without requests is that the index agrees.
LEMMA MembershipsAgree == Memberships => MembersAgree
<1> SUFFICES ASSUME Memberships, NEW g \in Groups, up, g \notin mixed, Calm(g), NEW u \in Users
             PROVE  (g \in member[u]) = (u \in Members(g))
  BY DEF MembersAgree
<1>1. \A p \in Procs : ~Changing(p, g)
  BY WorksOn DEF Calm, Memberships
<1>2. Agree(g, u)
  BY <1>1 DEF Memberships, GroupKnown
<1> QED
  BY <1>2 DEF Agree

\* The index of group members, which alone decides whose policies a group
\* gives (AddMember, RemoveMember, DeleteGroup and DeleteUser of the services,
\* reconcileIndexes at the start), agrees with the files of the groups.
THEOREM MembersCorrect == Spec => []MembersAgree
  BY MembershipsInit, MembershipsStep, MembershipsAgree, PTL DEF Spec
=============================================================================
