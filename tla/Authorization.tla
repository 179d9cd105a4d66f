---------------------------- MODULE Authorization ----------------------------
(***************************************************************************)
(* One request on its way through authentication and authorization, read   *)
(* by read, while administrators change what it reads.                     *)
(*                                                                         *)
(* conf holds everything that AuthMiddleware and AuthorizationMiddleware   *)
(* consult: one entry for each file, cached document or credential, which  *)
(* is what one write replaces.  No lock spans two reads of a request.      *)
(***************************************************************************)
EXTENDS PolicyEngine, FiniteSets

CONSTANTS
    PolicyNames, Groups, Objects,
    Bucket,         \* the token of the one bucket
    AdminId, AdminName,     \* the administrator's UUID and user name
    Contexts,       \* values of the condition keys in a request
    Possible,       \* what each entry of conf may contain
    Start,          \* the configuration before the first request
    MaxOvertakes    \* bound: changes while a request is under way

\* No such user, account or group.
Absent == [key |-> Nobody, active |-> FALSE, attached |-> << >>]

\* The entries of conf, by their kind.
Entries == DOMAIN Possible

ASSUME StartAssumption ==
    DOMAIN Start = Entries /\ \A x \in Entries : Start[x] \in Possible[x]

\* The credentials of the administrator, the bucket's policy and owner, every
\* group and every policy are always there, if only as inactive or empty.
ASSUME EntriesAssumption ==
    /\ {<<"root">>, <<"bucketPolicy">>, <<"bucketOwner">>} \subseteq Entries
    /\ \A o \in Objects : <<"objectOwner", o>> \in Entries
    /\ \A g \in Groups : <<"group", g>> \in Entries
    /\ \A p \in PolicyNames : <<"policy", p>> \in Entries

\* What is attached names policies; the index holds a group of a user once
\* (groupIndexAdd); an account's key is that of its file, and an account
\* that is not there is Absent.
ASSUME PossibleAssumption ==
    \A x \in Entries : \A v \in Possible[x] :
      /\ x[1] = "root" => v \in Keys
      /\ x[1] = "user" => v.attached \in Seq(PolicyNames)
      /\ x[1] = "account" => x[2] \in Keys /\ (v.key = Nobody => v = Absent)
      /\ x[1] = "groups" => /\ v \in Seq(Groups)
                            /\ \A i, j \in DOMAIN v : v[i] = v[j] => i = j
      /\ x[1] = "group" => v.attached \in Seq(PolicyNames)

\* One change may overtake a request: with two, a mixed answer is to be
\* expected of any code that takes no snapshot.
ASSUME OvertakesAssumption == MaxOvertakes \in {0, 1}
ASSUME AdministratorAssumption == AdminId # Nobody

VARIABLES
    conf,   \* the configuration
    old,    \* conf when the request began
    left,   \* how many more changes may overtake the request
    req     \* the request

vars == <<conf, old, left, req>>

-----------------------------------------------------------------------------
(* What a request reads *)

Root(c)           == c[<<"root">>]
UserRecord(c, id) == c[<<"user", id>>]
Account(c, key)   == IF <<"account", key>> \in Entries
                     THEN c[<<"account", key>>] ELSE Absent

UsersOf(c, key) ==
    {id \in Ids : <<"user", id>> \in Entries /\ UserRecord(c, id).key = key}

\* The identity GetUserForAccessKey finds: the administrator, a user, or a
\* service account, which lends its UUID and name and has no policies.
Identity(id, name, attached) == [id |-> id, name |-> name, attached |-> attached]
Refused == Identity(Nobody, Nobody, << >>)
Administrator == Identity(AdminId, AdminName, << >>)

UserIdentity(c, key) ==
    LET id == CHOOSE i \in UsersOf(c, key) : TRUE
        user == UserRecord(c, id)
    IN IF user.active THEN Identity(id, user.name, user.attached) ELSE Refused

AccountIdentity(c, key) ==
    LET sa == Account(c, key)
    IN IF sa.active THEN Identity(sa.id, sa.name, << >>) ELSE Refused

\* The fields of an account that withSAContext hands on.
NoAccount == [sa |-> FALSE, override |-> FALSE, embedded |-> {}, parent |-> Nobody]

AccountInfo(c, key) ==
    LET sa == Account(c, key)
    IN IF sa.key = Nobody \/ key = Root(c) THEN NoAccount
       ELSE [sa |-> TRUE, override |-> sa.override, embedded |-> sa.embedded,
             parent |-> sa.parent]

\* Whose policies count: the user's own, or those of the account's parent.
PolicyHolder(user, info) == IF info.sa THEN info.parent ELSE user.id

HasUser(c, id) == <<"user", id>> \in Entries /\ UserRecord(c, id).key # Nobody

ParentPolicies(c, id) == UserRecord(c, id).attached

GroupsOf(c, id) ==
    IF <<"groups", id>> \in Entries THEN c[<<"groups", id>>] ELSE << >>

GroupPolicies(c, g) ==
    LET group == c[<<"group", g>>]
    IN IF group.active THEN group.attached ELSE << >>

PolicyDocument(c, name) == c[<<"policy", name>>]

\* The question for the engine, before the owners are known.
Ask(key, user, info, admin, check, context) ==
    [who |-> [key |-> key, id |-> user.id, name |-> user.name, admin |-> admin,
              override |-> info.override, embedded |-> info.embedded],
     action |-> <<check.permission>>, resource |-> <<Bucket, check.object>>,
     context |-> context, bucketOwner |-> Nobody,
     objectOwner |-> Nobody]

-----------------------------------------------------------------------------
(* The answer to a check if nothing changes meanwhile *)

\* own, and then lists, one after the other.
Gather(own, lists) ==
    LET gather[n \in 0..Len(lists)] ==
          IF n = 0 THEN own ELSE gather[n - 1] \o lists[n]
    IN gather[Len(lists)]

Attached(c, user, info) ==
    LET holder == PolicyHolder(user, info)
        own    == IF info.sa THEN ParentPolicies(c, holder) ELSE user.attached
        groups == GroupsOf(c, holder)
    IN IF info.sa /\ ~HasUser(c, holder) THEN << >>
       ELSE Gather(own, [i \in 1..Len(groups) |-> GroupPolicies(c, groups[i])])

Requester(c, key) ==
    IF key = Nobody THEN Refused
    ELSE IF key = Root(c) THEN Administrator
    ELSE IF UsersOf(c, key) # {} THEN UserIdentity(c, key)
    ELSE AccountIdentity(c, key)

\* The question with everything in it, and the documents that count.
Asked(c, key, check, context) ==
    [Ask(key, Requester(c, key), AccountInfo(c, key), key = Root(c), check, context)
        EXCEPT !.bucketOwner = c[<<"bucketOwner">>],
               !.objectOwner = c[<<"objectOwner", check.object>>]]

Consulted(c, key) ==
    LET names == Attached(c, Requester(c, key), AccountInfo(c, key))
    IN [i \in DOMAIN names |-> PolicyDocument(c, names[i])]

Answer(c, key, check, context) ==
    /\ key = Nobody \/ Requester(c, key).id # Nobody
    /\ Evaluate(c[<<"bucketPolicy">>], Consulted(c, key),
                Asked(c, key, check, context)) = "Allow"

-----------------------------------------------------------------------------
(* The request *)

Checks == [permission : {"GetObject", "PutObject"}, object : Objects]

\* GetObject and HeadObject ask about one object, CopyObject about two.
Operations ==
    LET Ask1(action, o) == <<[permission |-> RequiredPermissions(action)[1], object |-> o]>>
        Ask2(s, d) ==
          [i \in 1..2 |-> [permission |-> RequiredPermissions("CopyObject")[i],
                           object |-> <<s, d>>[i]]]
    IN {Ask1(a, o) : a \in {"HeadObject", "PutObject"}, o \in Objects}
         \cup {Ask2(s, d) : s \in Objects, d \in Objects}

NoQuestion == Ask(Nobody, Refused, NoAccount, FALSE,
                  [permission |-> "GetObject", object |-> Nobody], << >>)

Idle == [pc |-> "idle", key |-> Nobody, context |-> << >>, checks |-> << >>,
         at |-> 1, user |-> Refused, info |-> NoAccount, admin |-> FALSE,
         q |-> NoQuestion, groups |-> << >>, names |-> << >>, allowed |-> FALSE]

Init ==
    /\ conf = Start /\ old = Start /\ left = 0
    /\ req = Idle

\* A request arrives, with or without credentials; its signature is good.  A
\* copy names its source: without the header it is denied before any policy
\* is read, and is left out here.
Begin(key, operation, context) ==
    /\ req.pc = "idle"
    /\ req' = [Idle EXCEPT !.pc = IF key = Nobody THEN "classify" ELSE "user",
                           !.key = key, !.checks = operation,
                           !.context = context]
    /\ old' = conf /\ left' = MaxOvertakes
    /\ UNCHANGED conf

\* The client has its answer.
Reply ==
    /\ req.pc = "done"
    /\ req' = Idle /\ old' = conf /\ left' = 0
    /\ UNCHANGED conf

At(pc) == req.pc = pc /\ UNCHANGED <<conf, old, left>>

Refuse == req' = [req EXCEPT !.pc = "done", !.allowed = FALSE]

Admit(user) ==
    IF user.id = Nobody THEN Refuse
    ELSE req' = [req EXCEPT !.pc = "context", !.user = user]

\* GetUserForAccessKey: an administrator's key, then the users, ...
LookUpUser ==
    /\ At("user")
    /\ IF req.key = Root(conf) THEN Admit(Administrator)
       ELSE IF UsersOf(conf, req.key) # {} THEN Admit(UserIdentity(conf, req.key))
       ELSE req' = [req EXCEPT !.pc = "account"]

\* ... then the service accounts.
LookUpAccount ==
    /\ At("account")
    /\ Admit(AccountIdentity(conf, req.key))

\* withSAContext reads the account a second time.
AddContext ==
    /\ At("context")
    /\ req' = [req EXCEPT !.pc = "classify", !.info = AccountInfo(conf, req.key)]

\* The administrator needs no policy.
Classify ==
    /\ At("classify")
    /\ IF req.key = Root(conf)
       THEN req' = [req EXCEPT !.pc = "done", !.admin = TRUE, !.allowed = TRUE]
       ELSE req' = [req EXCEPT !.pc = "bucketOwner"]

Check == req.checks[req.at]

\* fetchOwnership, for the check that is next.
FetchBucketOwner ==
    /\ At("bucketOwner")
    /\ req' = [req EXCEPT !.pc = "objectOwner",
                 !.q = [Ask(req.key, req.user, req.info, req.admin, Check, req.context)
                          EXCEPT !.bucketOwner = conf[<<"bucketOwner">>]]]

FetchObjectOwner ==
    /\ At("objectOwner")
    /\ req' = [req EXCEPT !.pc = "bucketPolicy",
                 !.q.objectOwner = conf[<<"objectOwner", Check.object>>]]

\* A faulty variant: every check that is allowed is followed by another.
DecideOnward(decision) ==
    IF decision = "Allow"
    THEN req' = [req EXCEPT !.pc = "bucketOwner", !.at = @ + 1]
    ELSE req' = [req EXCEPT !.pc = "done", !.allowed = FALSE]

\* The end of Evaluate: the next check, or the answer.
Decide(decision) ==
    IF decision = "Allow" /\ req.at < Len(req.checks)
    THEN req' = [req EXCEPT !.pc = "bucketOwner", !.at = @ + 1]
    ELSE req' = [req EXCEPT !.pc = "done", !.allowed = decision = "Allow"]

\* A bucket policy that decides is final; so is it for an anonymous request,
\* and the embedded policy for an account in override mode.
ConsultBucketPolicy ==
    LET bucket == CheckBucketPolicy(conf[<<"bucketPolicy">>], req.q)
    IN /\ At("bucketPolicy")
       /\ IF bucket # "Deny" \/ req.key = Nobody THEN Decide(bucket)
          ELSE IF req.info.override
               THEN Decide(EvaluatePolicy(req.info.embedded, req.q))
          ELSE req' = [req EXCEPT !.pc = "names"]

\* A faulty variant: the policies of a user are read again, like those of a parent.
ResolveNamesAgain ==
    LET holder == PolicyHolder(req.user, req.info)
    IN /\ At("names")
       /\ IF ~HasUser(conf, holder)
          THEN req' = [req EXCEPT !.pc = "policy", !.names = << >>]
          ELSE req' = [req EXCEPT !.pc = "groups",
                                 !.names = ParentPolicies(conf, holder)]

\* resolveEffectivePolicyNames: the policies of the user, as authentication
\* saw them, or those the parent of the account has now ...
ResolveNames ==
    LET holder == PolicyHolder(req.user, req.info)
    IN /\ At("names")
       /\ IF req.info.sa /\ ~HasUser(conf, holder)
          THEN req' = [req EXCEPT !.pc = "policy", !.names = << >>]
          ELSE req' = [req EXCEPT !.pc = "groups",
                         !.names = IF req.info.sa THEN ParentPolicies(conf, holder)
                                   ELSE req.user.attached]

\* ... and those of the active groups in the index,
ResolveGroups ==
    /\ At("groups")
    /\ req' = [req EXCEPT !.pc = "group",
                 !.groups = GroupsOf(conf, PolicyHolder(req.user, req.info))]

\* group by group.
ResolveGroup ==
    /\ At("group")
    /\ IF req.groups = << >> THEN req' = [req EXCEPT !.pc = "policy"]
       ELSE req' = [req EXCEPT !.groups = Tail(@),
                      !.names = @ \o GroupPolicies(conf, Head(req.groups))]

\* evaluateNamedPolicies; when no policy decides, ownership does.
ConsultPolicy ==
    /\ At("policy")
    /\ IF req.names = << >>
       THEN Decide(IF CheckOwnership(req.q) THEN "Allow" ELSE "Deny")
       ELSE LET decision ==
                  EvaluatePolicy(PolicyDocument(conf, Head(req.names)), req.q)
            IN IF decision # "Deny" THEN Decide(decision)
               ELSE req' = [req EXCEPT !.names = Tail(@)]

\* An administrator changes one thing.
Change(x, v) ==
    /\ v # conf[x]
    /\ req.pc = "idle" \/ (req.pc # "done" /\ left > 0)
    /\ conf' = [conf EXCEPT ![x] = v]
    /\ IF req.pc = "idle" THEN old' = conf' /\ UNCHANGED left
       ELSE left' = left - 1 /\ UNCHANGED old
    /\ UNCHANGED req

Step ==
    \/ LookUpUser \/ LookUpAccount \/ AddContext \/ Classify
    \/ FetchBucketOwner \/ FetchObjectOwner \/ ConsultBucketPolicy
    \/ ResolveNames \/ ResolveGroups \/ ResolveGroup \/ ConsultPolicy

Next ==
    \/ \E key \in Keys \cup {Nobody}, op \in Operations, context \in Contexts :
         Begin(key, op, context)
    \/ Step
    \/ Reply
    \/ \E x \in Entries : \E v \in Possible[x] : Change(x, v)

Spec == Init /\ [][Next]_vars

-----------------------------------------------------------------------------
(* Properties *)

Pcs == {"idle", "user", "account", "context", "classify", "bucketOwner",
        "objectOwner", "bucketPolicy", "names", "groups", "group", "policy",
        "done"}

\* Every variable has its type, and a request of two checks is never past its
\* second.
TypeOK ==
    /\ DOMAIN conf = Entries /\ \A x \in Entries : conf[x] \in Possible[x]
    /\ DOMAIN old = Entries /\ \A x \in Entries : old[x] \in Possible[x]
    /\ left \in 0..MaxOvertakes
    /\ req.pc \in Pcs
    /\ req.key \in Keys \cup {Nobody}
    /\ req.at \in 1..2
    /\ req.pc \notin {"idle", "done"} => req.at <= Len(req.checks)

\* The check was answered as in one configuration between the arrival of the
\* request and its answer.
Sometime(check, allowed) ==
    \E c \in {old, conf} : Answer(c, req.key, check, req.context) = allowed

\* Nothing befell the requester's own key: the administrator's credentials and
\* the requester's account are as they were, and no key is that of a user and
\* of an account, which user.Create does not rule out.
OwnKeyStable ==
    /\ Root(old) = Root(conf)
    /\ Account(old, req.key) = Account(conf, req.key)
    /\ \A c \in {old, conf} :
         UsersOf(c, req.key) = {} \/ Account(c, req.key).key = Nobody

\* The reads of one request are not atomic, yet a request that one change
\* overtakes gets, for each object it is about, the answer of the moment
\* before the change or after it: it never combines the policies, groups,
\* owners and keys of the two into a permission that nobody gave.  The
\* exception is a change to what the requester's own key stands for, which
\* two steps read independently.
AnswerOfOneMoment ==
    (req.pc = "done" /\ OwnKeyStable) =>
      IF req.allowed
      THEN \A i \in DOMAIN req.checks : Sometime(req.checks[i], TRUE)
      ELSE \E i \in DOMAIN req.checks : Sometime(req.checks[i], FALSE)

\* Does a statement of the document with this effect apply?
Says(effect, doc, q) == \E s \in doc : s.effect = effect /\ StatementApplies(s, q)

Grants(doc, q) == Says("Allow", doc, q) /\ ~Says("Deny", doc, q)

\* What speaks for a request or against it, whatever the order in which the
\* engine asks: the bucket policy, and of a requester with a key the embedded
\* policy of an account in override mode, or else the attached policies.
InForce(c, key, q) ==
    {c[<<"bucketPolicy">>]} \cup
      IF key = Nobody THEN {}
      ELSE IF q.who.override THEN {q.who.embedded}
      ELSE {Consulted(c, key)[i] : i \in DOMAIN Consulted(c, key)}

Authenticated(key, q) == key = Nobody \/ q.who.id # Nobody

Owns(key, q) ==
    key # Nobody /\ ~q.who.override /\ q.who.id \in {q.bucketOwner, q.objectOwner}

\* There is a reason to allow: a document grants it, or an owner asks whom no
\* document denies; and the bucket policy does not deny it.
MayAllow(c, check) ==
    LET q    == Asked(c, req.key, check, req.context)
        docs == InForce(c, req.key, q)
    IN \/ req.key = Root(c)
       \/ /\ Authenticated(req.key, q)
          /\ ~Says("Deny", c[<<"bucketPolicy">>], q)
          /\ \/ \E doc \in docs : Grants(doc, q)
             \/ Owns(req.key, q) /\ \A doc \in docs : ~Says("Deny", doc, q)

\* There is a reason to allow and nothing against it.
MustAllow(c, check) ==
    LET q    == Asked(c, req.key, check, req.context)
        docs == InForce(c, req.key, q)
    IN \/ req.key = Root(c)
       \/ /\ Authenticated(req.key, q)
          /\ \A doc \in docs : ~Says("Deny", doc, q)
          /\ Owns(req.key, q) \/ \E doc \in docs : Says("Allow", doc, q)

\* No request is allowed that no document grants and no ownership carries, or
\* that the bucket policy denies; and none is denied that is granted and that
\* nothing in force denies, neither by a lookup of an account or a group, nor
\* between the two checks of a copy.  Where one attached policy grants and
\* another denies, either answer passes here: see DenyWins.
AllowedForReason ==
    (req.pc = "done" /\ OwnKeyStable) =>
      IF req.allowed
      THEN \A i \in DOMAIN req.checks :
             \E c \in {old, conf} : MayAllow(c, req.checks[i])
      ELSE \E i \in DOMAIN req.checks :
             \E c \in {old, conf} : ~MustAllow(c, req.checks[i])

\* What types.go says of an explicit deny ("highest precedence, always wins")
\* and Evaluate of one in an IAM policy ("beats everything"): nobody but the
\* administrator is allowed what any document in force denies.  The code does
\* not keep it: an Allow of the bucket policy comes before the attached
\* policies are read, and an Allow of one of those before the later ones.
DenyWins ==
    (req.pc = "done" /\ OwnKeyStable /\ req.allowed) =>
      \A i \in DOMAIN req.checks : \E c \in {old, conf} :
        LET q == Asked(c, req.key, req.checks[i], req.context)
        IN \/ req.key = Root(c)
           \/ \A doc \in InForce(c, req.key, q) : ~Says("Deny", doc, q)
=============================================================================
