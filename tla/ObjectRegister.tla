-------------------------- MODULE ObjectRegister ---------------------------
(***************************************************************************)
(* What the object path promises about the bytes of an object: a register  *)
(* per key on which every operation takes effect atomically, at one        *)
(* instant between its request and its response.  A failed operation has   *)
(* no effect, with one exception that the code makes: a PUT that has its   *)
(* body in place but cannot save its custom metadata fails, and either     *)
(* takes that body away again (Erase) or, when the filesystem refuses      *)
(* this too, leaves it there to be read (Keep).                            *)
(***************************************************************************)
CONSTANTS Procs, Keys, Bodies, Absent

VARIABLES
    val,        \* key -> body stored under it, or Absent
    client      \* goroutine -> the operation it serves

vars == <<val, client>>

At(p, st, ops) == client[p].st = st /\ client[p].op \in ops

\* The operation goes on with its stage and its body updated.
Update(p, st, body) ==
    client' = [client EXCEPT
        ![p] = [st |-> st, op |-> client[p].op, key |-> client[p].key, body |-> body]]

Move(p, to) == Update(p, to, client[p].body)

Store(k, b) == val' = [val EXCEPT ![k] = b]

NoRequest == [st |-> "idle"]

Init ==
    /\ val = [k \in Keys |-> Absent]
    /\ client = [p \in Procs |-> NoRequest]

Invoke(p) ==
    /\ client[p] = NoRequest
    /\ \E op \in {"put", "get", "delete"}, k \in Keys, b \in Bodies \cup {Absent} :
        /\ (b # Absent) <=> (op = "put")
        /\ client' = [client EXCEPT
               ![p] = [st |-> "pending", op |-> op, key |-> k, body |-> b]]
    /\ UNCHANGED val

Write(p) ==
    /\ At(p, "pending", {"put"})
    /\ Move(p, "effective")
    /\ Store(client[p].key, client[p].body)

Remove(p) ==
    /\ At(p, "pending", {"delete"})
    /\ Move(p, "effective")
    /\ Store(client[p].key, Absent)

Read(p) ==
    /\ At(p, "pending", {"get"})
    /\ Update(p, "effective", val[client[p].key])
    /\ UNCHANGED val

Fail(p) ==
    /\ At(p, "pending", {"put", "get", "delete"})
    /\ Move(p, "failed")
    /\ UNCHANGED val

Erase(p) ==
    /\ At(p, "effective", {"put"})
    /\ val[client[p].key] \in {client[p].body, Absent}
    /\ Move(p, "failed")
    /\ Store(client[p].key, Absent)

Keep(p) ==
    /\ At(p, "effective", {"put"})
    /\ Move(p, "failed")
    /\ UNCHANGED val

Return(p) ==
    /\ client[p].st \in {"effective", "failed"}
    /\ client' = [client EXCEPT ![p] = NoRequest]
    /\ UNCHANGED val

(* The process dies: what was effective stays, the rest is forgotten. *)
Crash ==
    /\ client' = [p \in Procs |-> NoRequest]
    /\ UNCHANGED val

Next ==
    \/ \E p \in Procs :
         \/ Invoke(p) \/ Write(p) \/ Remove(p) \/ Read(p)
         \/ Fail(p) \/ Erase(p) \/ Keep(p) \/ Return(p)
    \/ Crash

Spec == Init /\ [][Next]_vars
=============================================================================
