------------------------------ MODULE IAMStore ------------------------------
(***************************************************************************)
(* Users, groups and service accounts: JSON files, each written in place,  *)
(* and two indexes in bbolt, each updated in a transaction of its own,     *)
(*                                                                         *)
(*   files   iam/users/<uuid>, iam/groups/<name>, iam/service-accounts/<key> *)
(*   holder  access key -> UUID of its user (a user's name is its key, and *)
(*           the index of names says the same as that of keys)             *)
(*   member  UUID -> names of the groups of the user                       *)
(*                                                                         *)
(* as the services user, group and serviceaccount use them.  No lock spans *)
(* a request; a restart reconciles the indexes with the files.             *)
(***************************************************************************)
EXTENDS Naturals

CONSTANTS
    Procs,      \* request goroutines that may be active at once
    Users,      \* UUIDs of users
    Keys,       \* access keys
    Groups,     \* group names
    NoName,     \* the empty group name
    Nobody,     \* no UUID
    Ops,        \* the operations the environment may request
    MaxRequests,    \* bound: how many requests arrive
    MaxFaults       \* bound: how often a write or a transaction fails, or the process dies

UserOps    == {"create", "enable", "disable", "attach", "delete"}
GroupOps   == {"addgroup", "delgroup", "join", "leave"}
AccountOps == {"addaccount", "setaccount", "delaccount"}
AllOps     == UserOps \cup GroupOps \cup AccountOps

ASSUME DisjointAssumption ==
    /\ Users \cap Keys = {} /\ Users \cap Groups = {} /\ Keys \cap Groups = {}
    /\ Nobody \notin Users /\ NoName \notin Groups \cup Users \cup Keys
ASSUME OpsAssumption == Ops \subseteq AllOps /\ MaxRequests \in Nat /\ MaxFaults \in Nat

VARIABLES
    files,      \* file -> what it holds
    linked,     \* goroutines that have the file now at its path open
    holder,     \* the index of access keys
    member,     \* the index of group members
    req,        \* goroutine -> its request
    up,         \* is the process running?
    calls,      \* requests still to come
    faults,     \* faults still to come
    told,       \* what the answers so far tell of each user and account (history)
    mixed       \* keys and groups whose requests have overlapped, failed or died (history)

vars == <<files, linked, holder, member, req, up, calls, faults, told, mixed>>

-----------------------------------------------------------------------------
(* Values *)

Names == Users \cup Groups \cup Keys

\* No file, one that was truncated and not yet written, and one that two
\* requests wrote over each other.
None    == [kind |-> "none"]
Empty   == [kind |-> "empty"]
Garbled == [kind |-> "garbled"]

UserFile(key, on) == [kind |-> "user", key |-> key, on |-> on]
GroupFile(users)  == [kind |-> "group", users |-> users]
Account(on)       == [kind |-> "account", on |-> on]

Contents == {None, Empty, Garbled}
              \cup {UserFile(k, on) : k \in Keys, on \in BOOLEAN}
              \cup {GroupFile(s) : s \in SUBSET Users}
              \cup {Account(on) : on \in BOOLEAN}

Readable(name) == files[name].kind \notin {"none", "empty", "garbled"}

Members(name) == IF Readable(name) THEN files[name].users ELSE {}

SavePCs == {"truncate", "write"}
PCs == {"idle", "find", "stat", "claim", "get", "groups", "load",
        "remove", "unclaim", "check", "read", "index", "unindex"} \cup SavePCs

Request ==
    [pc : PCs, op : AllOps,
     name : Names \cup {NoName},    \* the user, group or account it is about
     user : Users \cup {Nobody},\* join, leave: who; create, delete: the same as name
     key : Keys \cup {NoName},  \* user requests: the user's access key
     file : Names \cup {NoName}, data : Contents,   \* what to save, or was read
     groups : SUBSET (Groups \cup {NoName}),    \* delete: groups still to leave
     alone : BOOLEAN]           \* has no request about the same been in progress?

Idle == [pc |-> "idle", op |-> "create", name |-> NoName,
         user |-> Nobody, key |-> NoName, file |-> NoName, data |-> None,
         groups |-> {}, alone |-> FALSE]

\* What the answers tell of a user or account; new: a UUID not yet given.
Lives == {"new", "none", "on", "off", "unknown"}

Busy(p) == req[p].pc # "idle"

-----------------------------------------------------------------------------
(* Helpers *)

At(p, pc) == up /\ req[p].pc = pc

Become(p, r) == req' = [req EXCEPT ![p] = r]

Goto(p, pc) == Become(p, [req[p] EXCEPT !.pc = pc])

\* What the success of r, which ran alone, tells of its user or account.
Told(r) ==
    CASE r.op \in {"create", "enable", "addaccount"} -> "on"
      [] r.op \in {"disable", "setaccount"}          -> "off"
      [] r.op = "attach" -> IF r.data.on THEN "on" ELSE "off"
      [] OTHER           -> "none"

\* The answer to the request of p, which ends it.  A refusal changed nothing.
Answer(p, out) ==
    LET r == req[p]
        tells == CASE out = "refused" -> IF r.op = "create" THEN "new" ELSE told[r.name]
                   [] out = "ok" /\ r.alone -> Told(r)
                   [] OTHER -> "unknown"
    IN /\ Become(p, Idle)
       /\ told' = IF r.op \in GroupOps THEN told ELSE [told EXCEPT ![r.name] = tells]

disk == <<files, linked, holder, member, up>>
stores == <<disk, calls, faults>>

Fault == faults > 0 /\ faults' = faults - 1

\* p is to write data to the file name next.
Save(p, r, name, data) ==
    Become(p, [r EXCEPT !.pc = "truncate", !.file = name, !.data = data])

\* What a request works on.
About(r) == {r.name} \cup (IF r.op = "delete" THEN Groups ELSE {})

\* The index entry of a user who joins a group: the first one comes with an
\* empty name before it.
Joined(names, g) == IF names = {} THEN {NoName, g} ELSE names \cup {g}

Left(g, users) == [u \in Users |-> IF u \in users THEN member[u] \ {g} ELSE member[u]]

-----------------------------------------------------------------------------
(* Requests *)

Init ==
    /\ files = [n \in Names |-> None]
    /\ linked = {}
    /\ holder = [k \in Keys |-> Nobody]
    /\ member = [u \in Users |-> {}]
    /\ req = [p \in Procs |-> Idle]
    /\ up = TRUE /\ calls = MaxRequests /\ faults = MaxFaults
    /\ told = [n \in Users \cup Keys |-> IF n \in Users THEN "new" ELSE "none"]
    /\ mixed = {}

FirstPC(op) ==
    CASE op \in {"create", "addaccount"} -> "find"
      [] op = "addgroup"                 -> "stat"
      [] op = "join"                     -> "check"
      [] op = "leave"                    -> "read"
      [] OTHER                           -> "get"

\* A request that the services may be given.
Sensible(op, name, user, key) ==
    /\ name \in CASE op \in UserOps -> Users [] op \in GroupOps -> Groups
                  [] op \in AccountOps -> Keys
    /\ IF op \in UserOps THEN user = name
       ELSE IF op \in {"join", "leave"} THEN user \in Users ELSE user = Nobody
    /\ (key \in Keys) = (op = "create")
    /\ op = "create" => told[name] = "new"

\* A request arrives; uuid.New gives a user a UUID that no user had.
Begin(p, op, name, user, key) ==
    LET r == [Idle EXCEPT !.pc = FirstPC(op), !.op = op, !.name = name,
                          !.user = user, !.key = key]
        Others == {q \in Procs : Busy(q) /\ About(req[q]) \cap About(r) # {}}
    IN /\ up /\ ~Busy(p)
       /\ Sensible(op, name, user, key)
       /\ req' = [q \in Procs |->
                    IF q = p THEN [r EXCEPT !.alone = (Others = {})]
                    ELSE [req[q] EXCEPT !.alone = @ /\ q \notin Others]]
       /\ told' = IF op = "create" THEN [told EXCEPT ![name] = "unknown"] ELSE told
       /\ mixed' = mixed \cup (Groups \cap
                      UNION {About(req[q]) \cap About(r) : q \in Others})
       /\ calls > 0 /\ calls' = calls - 1
       /\ UNCHANGED <<disk, faults>>

\* user.Create, serviceaccount.Create: is the key in use?  A user may take the
\* key of an account, but no account that of a user.
Find(p) ==
    LET r == req[p]
        key == IF r.op = "create" THEN r.key ELSE r.name
    IN /\ At(p, "find")
       /\ IF \/ holder[key] # Nobody /\ Readable(holder[key])
             \/ r.op = "addaccount" /\ Readable(key)
          THEN Answer(p, "refused")
          ELSE Goto(p, IF r.op = "create" THEN "claim" ELSE "stat") /\ UNCHANGED told
       /\ UNCHANGED <<stores, mixed>>

\* CreateGroup, CreateServiceAccount: Stat finds a broken file too.
StatFile(p) ==
    LET r == req[p]
    IN /\ At(p, "stat")
       /\ IF files[r.name] # None THEN Answer(p, "refused")
          ELSE /\ Save(p, r, r.name,
                       IF r.op = "addgroup" THEN GroupFile({}) ELSE Account(TRUE))
               /\ UNCHANGED told
       /\ UNCHANGED <<stores, mixed>>

\* The Get with which the services begin a change; AttachPolicy answers at
\* once if the policy is attached already.
Get(p) ==
    LET r == req[p]
        old == files[r.name]
        status == CASE r.op = "enable" -> TRUE [] r.op = "disable" -> FALSE
                    [] OTHER -> old.on
    IN /\ At(p, "get")
       /\ CASE ~Readable(r.name) -> Answer(p, "refused")
            [] Readable(r.name) /\ r.op \in {"enable", "disable", "attach"} ->
                 /\ Become(p, [r EXCEPT !.pc = "claim", !.key = old.key,
                                        !.data = UserFile(old.key, status)])
                 /\ UNCHANGED told
            [] Readable(r.name) /\ r.op = "setaccount" ->
                 Save(p, r, r.name, Account(FALSE)) /\ UNCHANGED told
            [] OTHER ->
                 /\ Goto(p, CASE r.op = "delete"   -> "groups"
                              [] r.op = "delgroup" -> "load"
                              [] OTHER             -> "remove")
                 /\ UNCHANGED told
       /\ UNCHANGED <<stores, mixed>>

AttachedAlready(p) ==
    LET r == req[p]
    IN /\ At(p, "claim") /\ r.op = "attach"
       /\ Answer(p, "ok")
       /\ UNCHANGED <<stores, mixed>>

\* A faulty variant: the key is taken from whoever has it.
ClaimAnyway(p) ==
    LET r == req[p]
    IN /\ At(p, "claim")
       /\ holder' = [holder EXCEPT ![r.key] = r.name]
       /\ Save(p, r, r.name,
               IF r.op = "create" THEN UserFile(r.key, TRUE) ELSE r.data)
       /\ UNCHANGED <<files, linked, member, up, calls, faults, told, mixed>>

\* The transaction of CreateOrUpdateUser.
Claim(p) ==
    LET r == req[p]
    IN /\ At(p, "claim")
       /\ IF holder[r.key] \notin {Nobody, r.name}
          THEN Answer(p, "refused") /\ UNCHANGED holder
          ELSE /\ holder' = [holder EXCEPT ![r.key] = r.name]
               /\ Save(p, r, r.name,
                       IF r.op = "create" THEN UserFile(r.key, TRUE) ELSE r.data)
               /\ UNCHANGED told
       /\ UNCHANGED <<files, linked, member, up, calls, faults, mixed>>

-----------------------------------------------------------------------------
(* MarshalToFile: Create truncates the file, Write fills it. *)

Truncate(p) ==
    LET name == req[p].file
    IN /\ At(p, "truncate")
       /\ files' = [files EXCEPT ![name] = Empty]
       /\ linked' = linked \cup {p}
       /\ Goto(p, "write")
       /\ UNCHANGED <<holder, member, up, calls, faults, told, mixed>>

\* Over what another request wrote meanwhile, the result may be garbled; a
\* file that was removed meanwhile stays removed.
Written(p) ==
    LET name == req[p].file
    IN /\ linked' = linked \ {p}
       /\ IF p \notin linked THEN UNCHANGED files
          ELSE \E data \in {req[p].data} \cup (IF files[name] = Empty THEN {} ELSE {Garbled}) :
                 files' = [files EXCEPT ![name] = data]

Write(p) ==
    LET r == req[p]
    IN /\ At(p, "write")
       /\ Written(p)
       /\ CASE r.op = "join" -> Goto(p, "index") /\ UNCHANGED told
            [] r.op \in {"leave", "delete"} -> Goto(p, "unindex") /\ UNCHANGED told
            [] OTHER -> Answer(p, "ok")
       /\ UNCHANGED <<holder, member, up, calls, faults, mixed>>

\* A faulty variant: the file stays open.
SaveFailOpen(p) ==
    LET r == req[p]
    IN /\ Fault /\ up /\ r.pc \in SavePCs
       /\ IF r.op = "delete" THEN Goto(p, "groups") /\ UNCHANGED told
          ELSE Answer(p, "failed")
       /\ mixed' = IF r.file \in Groups THEN mixed \cup {r.file} ELSE mixed
       /\ UNCHANGED <<disk, calls>>

\* The file cannot be created, or not be written.  DeleteUser goes on with
\* the next group.
SaveFail(p) ==
    LET r == req[p]
    IN /\ Fault /\ up /\ r.pc \in SavePCs
       /\ linked' = linked \ {p}
       /\ IF r.op = "delete" THEN Goto(p, "groups") /\ UNCHANGED told
          ELSE Answer(p, "failed")
       /\ mixed' = IF r.file \in Groups THEN mixed \cup {r.file} ELSE mixed
       /\ UNCHANGED <<files, holder, member, up, calls>>

-----------------------------------------------------------------------------
(* Group membership *)

\* AddMember: the user must exist ...
CheckUser(p) ==
    LET r == req[p]
    IN /\ At(p, "check")
       /\ IF Readable(r.user) THEN Goto(p, "read") /\ UNCHANGED told
          ELSE Answer(p, "refused")
       /\ UNCHANGED <<stores, mixed>>

\* ... and so must the group.
ReadGroup(p) ==
    LET r == req[p]
        users == files[r.name].users
    IN /\ At(p, "read")
       /\ CASE ~Readable(r.name) -> Answer(p, "refused")
            [] Readable(r.name) /\ r.op = "join" /\ r.user \in users -> Answer(p, "ok")
            [] OTHER ->
                 /\ Save(p, r, r.name,
                         GroupFile(IF r.op = "join" THEN users \cup {r.user}
                                   ELSE users \ {r.user}))
                 /\ UNCHANGED told
       /\ UNCHANGED <<stores, mixed>>

AddToIndex(p) ==
    LET r == req[p]
    IN /\ At(p, "index")
       /\ member' = [member EXCEPT ![r.user] = Joined(@, r.name)]
       /\ Answer(p, "ok")
       /\ UNCHANGED <<files, linked, holder, up, calls, faults, mixed>>

\* A faulty variant: the members of a deleted group keep its name.
RemoveOneFromIndex(p) ==
    LET r == req[p]
    IN /\ At(p, "unindex")
       /\ CASE r.op = "leave" -> member' = Left(r.name, {r.user}) /\ Answer(p, "ok")
            [] r.op = "delgroup" -> UNCHANGED member /\ Answer(p, "ok")
            [] OTHER -> /\ member' = Left(r.file, {r.name})
                        /\ Goto(p, "groups") /\ UNCHANGED told
       /\ UNCHANGED <<files, linked, holder, up, calls, faults, mixed>>

\* After a member left, a user left a group to be deleted, or a group went.
RemoveFromIndex(p) ==
    LET r == req[p]
    IN /\ At(p, "unindex")
       /\ CASE r.op = "leave" -> member' = Left(r.name, {r.user}) /\ Answer(p, "ok")
            [] r.op = "delgroup" -> /\ member' = Left(r.name, r.data.users)
                                    /\ Answer(p, "ok")
            [] OTHER -> /\ member' = Left(r.file, {r.name})
                        /\ Goto(p, "groups") /\ UNCHANGED told
       /\ UNCHANGED <<files, linked, holder, up, calls, faults, mixed>>

\* The transaction fails; the request succeeds all the same.
IndexFail(p) ==
    LET r == req[p]
    IN /\ Fault /\ up /\ r.pc \in {"index", "unindex"}
       /\ IF r.op = "delete" THEN Goto(p, "groups") /\ UNCHANGED told
          ELSE Answer(p, "ok")
       /\ mixed' = mixed \cup {IF r.op = "delete" THEN r.file ELSE r.name}
       /\ UNCHANGED <<disk, calls>>

-----------------------------------------------------------------------------
(* user.Delete, DeleteUser, DeleteGroup, DeleteServiceAccount *)

\* The groups of the user, read once, are left one by one; an entry without
\* a group is skipped.
FindGroups(p) ==
    LET r == req[p]
    IN /\ At(p, "groups") /\ r.data = None
       /\ Become(p, [r EXCEPT !.groups = member[r.name], !.data = Empty])
       /\ UNCHANGED <<stores, told, mixed>>

LeaveGroup(p) ==
    LET r == req[p]
    IN /\ At(p, "groups") /\ r.data # None
       /\ IF r.groups = {} THEN Goto(p, "load")
          ELSE \E g \in r.groups :
                 LET rest == [r EXCEPT !.groups = @ \ {g}]
                 IN IF g \in Groups /\ Readable(g)
                    THEN Save(p, rest, g, GroupFile(files[g].users \ {r.name}))
                    ELSE Become(p, rest)
       /\ UNCHANGED <<stores, told, mixed>>

\* The record is read once more, for what is to go from the index.
Load(p) ==
    LET r == req[p]
    IN /\ At(p, "load")
       /\ Become(p, [r EXCEPT !.pc = "remove", !.data = files[r.name]])
       /\ UNCHANGED <<stores, told, mixed>>

Remove(p) ==
    LET r == req[p]
        name == r.name
    IN /\ At(p, "remove")
       /\ files' = [files EXCEPT ![name] = None]
       /\ linked' = {q \in linked : req[q].file # name}
       /\ CASE r.data.kind = "user"  -> Goto(p, "unclaim") /\ UNCHANGED told
            [] r.data.kind = "group" -> Goto(p, "unindex") /\ UNCHANGED told
            [] OTHER                 -> Answer(p, "ok")
       /\ UNCHANGED <<holder, member, up, calls, faults, mixed>>

RemoveFail(p) ==
    LET r == req[p]
    IN /\ Fault /\ At(p, "remove") /\ files[r.name] # None
       /\ Answer(p, "failed")
       /\ mixed' = IF r.name \in Groups THEN mixed \cup {r.name} ELSE mixed
       /\ UNCHANGED <<disk, calls>>

\* Whoever holds the key now.
Unclaim(p) ==
    LET r == req[p]
        key == r.data.key
    IN /\ At(p, "unclaim")
       /\ holder' = [holder EXCEPT ![key] = Nobody]
       /\ Answer(p, "ok")
       /\ mixed' = IF r.alone THEN mixed ELSE mixed \cup {key}
       /\ UNCHANGED <<files, linked, member, up, calls, faults>>

UnclaimFail(p) ==
    /\ Fault /\ At(p, "unclaim")
    /\ Answer(p, "ok")
    /\ UNCHANGED <<disk, calls, mixed>>

-----------------------------------------------------------------------------
(* The process *)

Crash ==
    /\ Fault /\ up
    /\ up' = FALSE
    /\ req' = [p \in Procs |-> Idle]
    /\ linked' = {}
    /\ told' = [n \in DOMAIN told |->
                  IF \E p \in Procs : Busy(p) /\ req[p].name = n
                  THEN "unknown" ELSE told[n]]
    /\ mixed' = mixed \cup {g \in Groups : \E p \in Procs : Busy(p) /\ g \in About(req[p])}
    /\ UNCHANGED <<files, holder, member, calls>>

\* reconcileIndexes: an entry whose user has no file goes, every readable
\* user gets the entry of its key, and the group index is built anew.
Reconciled(key) ==
    LET Claimants == {u \in Users : Readable(u) /\ files[u].key = key}
    IN IF Claimants # {} THEN Claimants
       ELSE IF holder[key] # Nobody /\ files[holder[key]] # None THEN {holder[key]}
       ELSE {Nobody}

ReconcileUsers ==
    holder' \in {h \in [Keys -> Users \cup {Nobody}] :
                   \A k \in Keys : h[k] \in Reconciled(k)}

RebuildGroups ==
    /\ member' = [u \in Users |-> {g \in Groups : u \in Members(g)}]
    /\ mixed' = mixed \ Groups

Start ==
    /\ ~up /\ up' = TRUE
    /\ ReconcileUsers /\ RebuildGroups
    /\ UNCHANGED <<files, linked, req, calls, faults, told>>

\* One of the two transactions fails, or both, or the groups cannot be listed:
\* that is logged, the process serves, and the index is what it was.
StartFail ==
    /\ Fault /\ ~up /\ up' = TRUE
    /\ \/ ReconcileUsers /\ UNCHANGED <<member, mixed>>
       \/ UNCHANGED holder /\ RebuildGroups
       \/ UNCHANGED <<holder, member, mixed>>
    /\ UNCHANGED <<files, linked, req, calls, told>>

-----------------------------------------------------------------------------
(* Specification *)

UserStep(p) ==
    \/ Find(p) \/ StatFile(p) \/ Get(p) \/ AttachedAlready(p) \/ Claim(p)
    \/ Truncate(p) \/ Write(p) \/ SaveFail(p)

GroupStep(p) ==
    \/ CheckUser(p) \/ ReadGroup(p) \/ AddToIndex(p) \/ RemoveFromIndex(p)
    \/ IndexFail(p)

DeleteStep(p) ==
    \/ FindGroups(p) \/ LeaveGroup(p) \/ Load(p) \/ Remove(p) \/ RemoveFail(p)
    \/ Unclaim(p) \/ UnclaimFail(p)

Next ==
    \/ \E p \in Procs :
         \/ \E op \in Ops, name \in Names, user \in Users \cup {Nobody},
               key \in Keys \cup {NoName} : Begin(p, op, name, user, key)
         \/ UserStep(p) \/ GroupStep(p) \/ DeleteStep(p)
    \/ Crash
    \/ Start \/ StartFail

Spec == Init /\ [][Next]_vars

-----------------------------------------------------------------------------
(* Properties *)

\* Every variable has its type, and a goroutine whose file is at its path is
\* about to write it (MarshalToFile).
TypeOK ==
    /\ files \in [Names -> Contents]
    /\ linked \subseteq {p \in Procs : req[p].pc = "write"}
    /\ holder \in [Keys -> Users \cup {Nobody}]
    /\ member \in [Users -> SUBSET (Groups \cup {NoName})]
    /\ req \in [Procs -> Request]
    /\ up \in BOOLEAN /\ calls \in 0..MaxRequests /\ faults \in 0..MaxFaults
    /\ told \in [Users \cup Keys -> Lives]
    /\ mixed \subseteq Groups \cup Keys

Calm(name) == \A p \in Procs : Busy(p) => name \notin About(req[p])

\* What the answers tell of users and accounts is so, across the failures and
\* restarts of everything else: a file has the status of the last answer, and
\* the key of a user signs in this user and no other.  Excepted are users and
\* accounts whose last requests overlapped, failed or died (told is unknown
\* then), and keys that a deletion freed while another request about the
\* deleted user was in progress.
ToldUser(u) ==
    CASE told[u] \in {"on", "off"} ->
           /\ files[u].kind = "user" /\ files[u].on = (told[u] = "on")
           /\ files[u].key \notin mixed => holder[files[u].key] = u
      [] told[u] \in {"none", "new"} -> files[u] = None
      [] OTHER -> TRUE

ToldAccount(k) ==
    CASE told[k] = "on"   -> files[k] = Account(TRUE)
      [] told[k] = "off"  -> files[k] = Account(FALSE)
      [] told[k] = "none" -> files[k] = None
      [] OTHER -> TRUE

AnswersHold ==
    up => /\ \A u \in Users : Calm(u) => ToldUser(u)
          /\ \A k \in Keys : Calm(k) => ToldAccount(k)

\* The index of group members, which alone decides whose policies a group
\* gives, agrees with the files of the groups when no change of a group is in
\* progress, unless changes of the group overlapped, failed or died with the
\* process and no start has rebuilt the index since: until then a join may give
\* nothing, and one who left may keep what the group gives.
MembersAgree ==
    \A g \in Groups :
      (up /\ g \notin mixed /\ Calm(g)) =>
        \A u \in Users : (g \in member[u]) = (u \in Members(g))
=============================================================================
