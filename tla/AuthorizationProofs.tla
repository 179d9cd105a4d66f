------------------------- MODULE AuthorizationProofs -------------------------
(***************************************************************************)
(* A request that one change overtakes is answered as at one moment, and   *)
(* for a reason, whatever the configuration, the policies and the change.  *)
(***************************************************************************)
EXTENDS Authorization, WellFoundedInduction, SequenceTheorems, TLAPS

-----------------------------------------------------------------------------
(* The invariant *)

Fields == {"pc", "key", "context", "checks", "at", "user", "info", "admin", "q",
           "groups", "names", "allowed"}

\* What is not read from conf: the bound on the checks of a request, and that
\* only Classify finds an administrator.
Shape ==
    /\ DOMAIN req = Fields
    /\ req.pc \in {"user", "account", "context"} => req.key # Nobody
    /\ req.pc = "idle" \/ req.checks \in Operations
    /\ req.pc \notin {"idle", "done"} => req.admin = FALSE

\* d is c but for entry x.
But(c, d, x) == \A y \in Entries \ {x} : c[y] = d[y]

\* The configurations of a request differ in one entry, once it is overtaken.
Moments ==
    /\ req.pc = "idle" \/ left = 1 => conf = old
    /\ \E x \in Entries : But(old, conf, x)

\* What the request has learned is so in configuration c.
Identified(c, r) ==
    /\ r.user = Requester(c, r.key)
    /\ r.key = Nobody \/ r.user.id # Nobody

Informed(c, r) == Identified(c, r) /\ r.info = AccountInfo(c, r.key)

Unprivileged(c, r) == Informed(c, r) /\ r.key # Root(c)

CheckOf(r) == r.checks[r.at]

HalfAsked(c, r) ==
    [Ask(r.key, r.user, r.info, FALSE, CheckOf(r), r.context)
       EXCEPT !.bucketOwner = c[<<"bucketOwner">>]]

InQuestion(c, r) ==
    Unprivileged(c, r) /\ r.q = Asked(c, r.key, CheckOf(r), r.context)

Undecided(c, r) ==
    /\ InQuestion(c, r)
    /\ CheckBucketPolicy(c[<<"bucketPolicy">>], r.q) = "Deny"
    /\ r.key # Nobody /\ ~r.info.override

Holder(r) == PolicyHolder(r.user, r.info)

Resolving(c, r) == Undecided(c, r) /\ (r.info.sa => HasUser(c, Holder(r)))

Own(c, r) == IF r.info.sa THEN ParentPolicies(c, Holder(r)) ELSE r.user.attached

Lists(c, groups) == [i \in 1..Len(groups) |-> GroupPolicies(c, groups[i])]

Opinion(c, name, q) == EvaluatePolicy(PolicyDocument(c, name), q)

\* k of the list are behind the request.
Behind(list, k, rest) == k \in 0..Len(list) /\ rest = SubSeq(list, k + 1, Len(list))

Gathered(c, r) ==
    LET groups == GroupsOf(c, Holder(r))
    IN \E k \in 0..Len(groups) :
         /\ Behind(groups, k, r.groups)
         /\ r.names = Gather(Own(c, r), SubSeq(Lists(c, groups), 1, k))

NamesOf(c, r) == Attached(c, r.user, r.info)

\* Those behind had no opinion.
Passed(c, r) ==
    \E k \in 0..Len(NamesOf(c, r)) :
      /\ Behind(NamesOf(c, r), k, r.names)
      /\ \A i \in 1..k : Opinion(c, NamesOf(c, r)[i], r.q) = "Deny"

Tracks(c, r) ==
    /\ r.pc = "account" => UsersOf(c, r.key) = {} /\ r.key # Root(c)
    /\ r.pc = "context" => Identified(c, r)
    /\ r.pc = "classify" => Informed(c, r)
    /\ r.pc = "bucketOwner" => Unprivileged(c, r)
    /\ r.pc = "objectOwner" => Unprivileged(c, r) /\ r.q = HalfAsked(c, r)
    /\ r.pc = "bucketPolicy" => InQuestion(c, r)
    /\ r.pc = "names" => Undecided(c, r)
    /\ r.pc = "groups" => Resolving(c, r) /\ r.names = Own(c, r)
    /\ r.pc = "group" => Resolving(c, r) /\ Gathered(c, r)
    /\ r.pc = "policy" => Undecided(c, r) /\ Passed(c, r)

\* What the request has still to read is so in d as well as in c.
Same(c, d, kinds) == \A y \in Entries : y[1] \in kinds => c[y] = d[y]

BeforeOwner   == {"user", "account", "context", "classify", "bucketOwner"}
BeforeObject  == BeforeOwner \cup {"objectOwner"}
BeforeBucket  == BeforeObject \cup {"bucketPolicy"}
BeforeNames   == BeforeBucket \cup {"names"}
BeforeGroups  == BeforeNames \cup {"groups"}
BeforePolicy  == BeforeGroups \cup {"group"}

Ahead(c, d, r) ==
    /\ r.pc # "user"
    /\ r.pc \in BeforeOwner => Same(c, d, {"bucketOwner"})
    /\ r.pc \in BeforeObject => Same(c, d, {"objectOwner"})
    /\ r.pc \in BeforeBucket => Same(c, d, {"bucketPolicy"})
    /\ r.pc \in BeforeNames /\ AccountInfo(c, r.key).sa => Same(c, d, {"user"})
    /\ r.pc \in BeforeGroups => Same(c, d, {"groups", "group"})
    /\ r.pc = "group" =>
         \A i \in DOMAIN r.groups :
           GroupPolicies(c, r.groups[i]) = GroupPolicies(d, r.groups[i])
    /\ r.pc \in BeforePolicy => Same(c, d, {"policy"})

\* A policy that is attached twice may change between its two readings.
Reread(c, d, r, p) ==
    /\ Opinion(d, p, r.q) # "Deny"
    /\ Opinion(c, p, r.q) = "Deny"
    /\ \E i \in 1..(Len(NamesOf(c, r)) - Len(r.names)) : NamesOf(c, r)[i] = p
    /\ But(c, d, <<"policy", p>>)

Follows(c, d, r) ==
    /\ Tracks(c, r)
    /\ \/ c = d
       \/ r.pc # "policy" /\ Ahead(c, d, r)
       \/ /\ r.pc = "policy"
          /\ \A p \in PolicyNames : \/ PolicyDocument(c, p) = PolicyDocument(d, p)
                                    \/ Reread(c, d, r, p)

\* OwnKeyStable, of any two configurations.
Stable(c, d, key) ==
    /\ Root(c) = Root(d) /\ Account(c, key) = Account(d, key)
    /\ \A e \in {c, d} : UsersOf(e, key) = {} \/ Account(e, key).key = Nobody

Allows(c, r, i) == Answer(c, r.key, r.checks[i], r.context)

\* The checks so far, and the one in progress; then the answer.
Answered(o, d, r) ==
    (r.pc # "idle" /\ Stable(o, d, r.key)) =>
      IF r.pc = "done"
      THEN IF r.allowed
           THEN \A i \in DOMAIN r.checks : \E c \in {o, d} : Allows(c, r, i)
           ELSE \E i \in DOMAIN r.checks : \E c \in {o, d} : ~Allows(c, r, i)
      ELSE /\ \A i \in 1..(r.at - 1) : \E c \in {o, d} : Allows(c, r, i)
           /\ \E c \in {o, d} : Follows(c, d, r)

OneMoment == Answered(old, conf, req)

IInv == TypeOK /\ Shape /\ Moments /\ OneMoment

-----------------------------------------------------------------------------
(* Natural numbers, and what Gather computes *)

\* A set of numbers that is not empty has a least element.
LEMMA Least ==
    ASSUME NEW S, S \subseteq Nat, S # {}
    PROVE  \E m \in S : \A n \in S : m <= n
<1>1. PICK m \in S : \A n \in S : ~(<<n, m>> \in OpToRel(<, Nat))
  BY NatLessThanWellFounded, WFMin
<1>2. ASSUME NEW n \in S PROVE m <= n
  <2>1. n \in Nat /\ m \in Nat
    OBVIOUS
  <2>2. ~(n < m)
    BY <1>1, <2>1 DEF OpToRel
  <2> QED
    BY <2>1, <2>2
<1> QED
  BY <1>2

\* Induction, of a set instead of a predicate.
LEMMA Induct ==
    ASSUME NEW S, 0 \in S, \A n \in Nat : n \in S => n + 1 \in S
    PROVE  Nat \subseteq S
<1>1. SUFFICES ASSUME Nat \ S # {} PROVE FALSE
  OBVIOUS
<1>2. PICK m \in Nat \ S : \A n \in Nat \ S : m <= n
  BY <1>1, Least
<1>3. m # 0 /\ m - 1 \in Nat /\ m - 1 \in S
  BY <1>2
<1> QED
  BY <1>2, <1>3

\* Concatenation, under a name that hides it from the solver.
Join(a, b) == a \o b

\* The function behind Gather.
Gathering(own, lists) ==
    LET gather[n \in 0..Len(lists)] ==
          IF n = 0 THEN own ELSE gather[n - 1] \o lists[n]
    IN gather

\* The recursive definition has a solution: it is that of the shorter list,
\* and one more value.
LEMMA GatheringUnfolds ==
    ASSUME NEW own, NEW T, NEW lists \in Seq(T)
    PROVE  /\ Gathering(own, lists)[0] = own
           /\ \A n \in 0..Len(lists) - 1 : Gathering(own, lists)[n + 1] =
                Join(Gathering(own, lists)[n], lists[n + 1])
<1> DEFINE Def(f, k) == f = [n \in 0..k |-> IF n = 0 THEN own ELSE f[n - 1] \o lists[n]]
           S == {k \in Nat : \E f : Def(f, k)}
<1>1. 0 \in S
  <2>1. Def([n \in 0..0 |-> own], 0)
    OBVIOUS
  <2> QED
    BY <2>1
<1>2. ASSUME NEW k \in Nat, k \in S PROVE k + 1 \in S
  <2>1. PICK f : Def(f, k)
    BY <1>2
  <2> DEFINE g == [n \in 0..(k+1) |-> IF n = k + 1 THEN f[k] \o lists[k+1] ELSE f[n]]
  <2>2. \A n \in 0..k : g[n] = f[n] /\ f[n] = IF n = 0 THEN own ELSE f[n-1] \o lists[n]
    BY <2>1, SMTT(60)
  <2>3. g[k+1] = g[k] \o lists[k+1]
    BY <2>2
  <2>4. \A n \in 0..(k+1) : g[n] = IF n = 0 THEN own ELSE g[n-1] \o lists[n]
    <3>1. ASSUME NEW n \in 0..k PROVE g[n] = IF n = 0 THEN own ELSE g[n-1] \o lists[n]
      <4>1. n # 0 => n - 1 \in 0..k
        OBVIOUS
      <4> HIDE DEF g
      <4> QED
        BY <2>2, <4>1
    <3>2. g[k+1] = IF k+1 = 0 THEN own ELSE g[k+1-1] \o lists[k+1]
      <4> HIDE DEF g
      <4>1. k + 1 # 0 /\ k+1-1 = k
        OBVIOUS
      <4> QED
        BY <2>3, <4>1
    <3>3. 0..(k+1) = 0..k \cup {k+1}
      OBVIOUS
    <3> HIDE DEF g
    <3> QED
      BY <3>1, <3>2, <3>3
  <2>5. Def(g, k+1)
    <3>1. g = [n \in 0..(k+1) |-> g[n]]
      OBVIOUS
    <3> HIDE DEF g
    <3> QED
      BY <2>4, <3>1
  <2> HIDE DEF Def
  <2> QED
    BY <2>5
<1>3. Len(lists) \in S
  <2>1. Len(lists) \in Nat
    OBVIOUS
  <2> HIDE DEF S
  <2> QED
    BY <1>1, <1>2, <2>1, Induct
<1> DEFINE f == Gathering(own, lists)
<1>4. f = [n \in 0..Len(lists) |-> IF n = 0 THEN own ELSE Join(f[n - 1], lists[n])]
  BY <1>3 DEF Gathering, Join
<1> HIDE DEF f
<1>5. \A n \in 0..Len(lists) : f[n] = IF n = 0 THEN own ELSE Join(f[n - 1], lists[n])
  BY <1>4
<1>6. f[0] = own
  BY <1>5
<1>7. ASSUME NEW n \in 0..Len(lists) - 1 PROVE f[n + 1] = Join(f[n], lists[n + 1])
  <2>1. n + 1 \in 0..Len(lists) /\ n + 1 # 0 /\ n + 1 - 1 = n
    OBVIOUS
  <2> QED
    BY <1>5, <2>1
<1> QED
  BY <1>6, <1>7 DEF f

\* Nothing to gather.
LEMMA GatherNone ==
    ASSUME NEW own
    PROVE  Gather(own, << >>) = own
<1>1. << >> \in Seq({}) /\ Len(<< >>) = 0
  OBVIOUS
<1> DEFINE f == Gathering(own, << >>)
<1>3. f[0] = own
  BY <1>1, GatheringUnfolds, Zenon
<1> QED
  BY <1>1, <1>3 DEF f, Gather, Gathering

\* One list more.
LEMMA GatherOneMore ==
    ASSUME NEW own, NEW T, NEW lists \in Seq(T), NEW e \in T
    PROVE  Gather(own, Append(lists, e)) = Gather(own, lists) \o e
<1> DEFINE more == Append(lists, e)
           f == Gathering(own, lists)
           g == Gathering(own, more)
           N == Len(lists)
           S == {n \in Nat : n <= N => g[n] = f[n]}
<1>1. /\ more \in Seq(T) /\ N \in Nat /\ Len(more) = N + 1
      /\ more[N + 1] = e /\ \A n \in 1..N : more[n] = lists[n]
  OBVIOUS
<1>2. /\ f[0] = own /\ \A n \in 0..N - 1 : f[n + 1] = Join(f[n], lists[n + 1])
      /\ g[0] = own /\ \A n \in 0..Len(more) - 1 : g[n + 1] = Join(g[n], more[n + 1])
  <2> HIDE DEF more
  <2> QED
    BY <1>1, GatheringUnfolds
<1> HIDE DEF more, f, g, N
<1>3. 0 \in S
  <2>1. g[0] = own /\ f[0] = own
    BY <1>1, <1>2
  <2> QED
    BY <2>1
<1>4. ASSUME NEW n \in Nat, n \in S PROVE n + 1 \in S
  <2>1. CASE n + 1 <= N
    <3>1. g[n] = f[n]
      BY <1>1, <1>4, <2>1
    <3>2. n \in 0..N - 1 /\ n \in 0..Len(more) - 1
      BY <1>1, <2>1
    <3>3. more[n + 1] = lists[n + 1]
      BY <1>1, <2>1
    <3>4. f[n + 1] = Join(f[n], lists[n + 1])
      BY <1>2, <3>2
    <3>5. g[n + 1] = Join(g[n], more[n + 1])
      BY <1>2, <3>2
    <3> QED
      BY <3>1, <3>3, <3>4, <3>5
  <2> QED
    BY <2>1
<1>5. g[N] = f[N]
  <2> HIDE DEF S
  <2>1. Nat \subseteq S
    BY <1>3, <1>4, Induct
  <2> QED
    BY <1>1, <2>1 DEF S
<1>6. g[N + 1] = Join(g[N], e)
  <2>1. N \in 0..Len(more) - 1
    BY <1>1
  <2> QED
    BY <1>1, <1>2, <2>1
<1>7. Gather(own, lists) = f[N] /\ Gather(own, more) = g[Len(more)]
  BY DEF Gather, Gathering, f, g, N
<1> QED
  BY <1>1, <1>5, <1>6, <1>7 DEF more, Join

\* Lists of names make a list of names.
LEMMA GatherType ==
    ASSUME NEW P, NEW own \in Seq(P), NEW lists \in Seq(Seq(P))
    PROVE  Gather(own, lists) \in Seq(P)
<1> DEFINE f == Gathering(own, lists)
           N == Len(lists)
           S == {n \in Nat : n <= N => f[n] \in Seq(P)}
<1>1. f[0] = own /\ \A n \in 0..N - 1 : f[n + 1] = Join(f[n], lists[n + 1])
  BY GatheringUnfolds
<1>2. N \in Nat /\ \A n \in 1..N : lists[n] \in Seq(P)
  OBVIOUS
<1>7. Gather(own, lists) = f[N]
  BY DEF Gather, Gathering
<1> HIDE DEF f, N
<1>3. 0 \in S
  <2>1. f[0] = own
    BY <1>1, <1>2
  <2> QED
    BY <2>1
<1>4. ASSUME NEW n \in Nat, n \in S PROVE n + 1 \in S
  <2>1. CASE n + 1 <= N
    <3>1. f[n] \in Seq(P) /\ lists[n + 1] \in Seq(P)
      BY <1>2, <1>4, <2>1
    <3>2. n \in 0..N - 1
      BY <1>2, <2>1
    <3>4. f[n + 1] = Join(f[n], lists[n + 1])
      BY <1>1, <3>2
    <3>5. Join(f[n], lists[n + 1]) \in Seq(P)
      BY <3>1, ConcatProperties DEF Join
    <3> QED
      BY <3>4, <3>5
  <2> QED
    BY <2>1
<1>5. f[N] \in Seq(P)
  <2> HIDE DEF S
  <2>1. Nat \subseteq S
    BY <1>3, <1>4, Induct
  <2> QED
    BY <1>2, <2>1 DEF S
<1> QED
  BY <1>5, <1>7

-----------------------------------------------------------------------------
(* What the engine decides *)

\* A document decides by the effects of the statements that apply.
LEMMA PolicySays ==
    ASSUME NEW doc, NEW q
    PROVE  EvaluatePolicy(doc, q) = IF Says("Deny", doc, q) THEN "ExplicitDeny"
                                    ELSE IF Says("Allow", doc, q) THEN "Allow" ELSE "Deny"
<1> DEFINE Effects == {s.effect : s \in {t \in doc : StatementApplies(t, q)}}
<1>1. ASSUME NEW e PROVE e \in Effects <=> Says(e, doc, q)
  BY DEF Says
<1>2. EvaluatePolicy(doc, q) = IF "Deny" \in Effects THEN "ExplicitDeny"
                               ELSE IF "Allow" \in Effects THEN "Allow" ELSE "Deny"
  BY DEF EvaluatePolicy
<1> QED
  BY <1>1, <1>2

\* The first document with an opinion decides.
LEMMA NamedFirst ==
    ASSUME NEW q, NEW n \in Nat, NEW docs, DOMAIN docs = 1..n,
           NEW j \in 1..n, EvaluatePolicy(docs[j], q) # "Deny",
           \A i \in 1..n : i < j => EvaluatePolicy(docs[i], q) = "Deny"
    PROVE  EvaluateNamed(docs, q) = EvaluatePolicy(docs[j], q)
<1> DEFINE First(i) == /\ EvaluatePolicy(docs[i], q) # "Deny"
                       /\ \A k \in DOMAIN docs :
                            k < i => EvaluatePolicy(docs[k], q) = "Deny"
           first == CHOOSE i \in DOMAIN docs : First(i)
<1>1. first \in 1..n /\ First(first)
  <2>1. j \in DOMAIN docs /\ First(j)
    OBVIOUS
  <2> HIDE DEF First
  <2> QED
    BY <2>1
<1>2. first = j
  <2> HIDE DEF first
  <2>1. ~(first < j) /\ ~(j < first)
    BY <1>1
  <2> QED
    BY <1>1, <2>1
<1>3. EvaluateNamed(docs, q) = EvaluatePolicy(docs[first], q)
  <2>1. ~(\A i \in DOMAIN docs : EvaluatePolicy(docs[i], q) = "Deny")
    OBVIOUS
  <2> QED
    BY <2>1 DEF EvaluateNamed
<1> QED
  BY <1>2, <1>3

\* Without a first one there is none.
LEMMA NamedSome ==
    ASSUME NEW q, NEW n \in Nat, NEW docs, DOMAIN docs = 1..n
    PROVE  \/ /\ \A i \in 1..n : EvaluatePolicy(docs[i], q) = "Deny"
              /\ EvaluateNamed(docs, q) = "Deny"
           \/ \E j \in 1..n : /\ EvaluatePolicy(docs[j], q) # "Deny"
                              /\ \A i \in 1..n : i < j => EvaluatePolicy(docs[i], q) = "Deny"
                              /\ EvaluateNamed(docs, q) = EvaluatePolicy(docs[j], q)
<1>1. CASE \A i \in 1..n : EvaluatePolicy(docs[i], q) = "Deny"
  BY <1>1 DEF EvaluateNamed
<1>2. CASE ~(\A i \in 1..n : EvaluatePolicy(docs[i], q) = "Deny")
  <2> DEFINE S == {i \in 1..n : EvaluatePolicy(docs[i], q) # "Deny"}
  <2>1. S \subseteq Nat /\ S # {}
    BY <1>2
  <2>2. PICK j \in S : \A i \in S : j <= i
    <3> HIDE DEF S
    <3> QED
      BY <2>1, Least
  <2>3. /\ j \in 1..n /\ EvaluatePolicy(docs[j], q) # "Deny"
        /\ \A i \in 1..n : i < j => EvaluatePolicy(docs[i], q) = "Deny"
    BY <2>2
  <2>4. EvaluateNamed(docs, q) = EvaluatePolicy(docs[j], q)
    BY <2>3, NamedFirst
  <2> QED
    BY <2>3, <2>4
<1> QED
  BY <1>1, <1>2

\* The question that is asked in configuration c.
LEMMA AskedFields ==
    ASSUME NEW c, NEW key, NEW check, NEW context
    PROVE  LET q == Asked(c, key, check, context)
           IN /\ q.resource # ServiceLevel
              /\ q.who.key = key /\ q.who.id = Requester(c, key).id
              /\ q.who.admin = (key = Root(c))
              /\ q.who.override = AccountInfo(c, key).override
              /\ q.who.embedded = AccountInfo(c, key).embedded
              /\ q.bucketOwner = c[<<"bucketOwner">>]
              /\ q.objectOwner = c[<<"objectOwner", check.object>>]
BY DEF Asked, Ask, ServiceLevel

\* The answer, by cases.
LEMMA AnswerIs ==
    ASSUME NEW c, NEW key, NEW check, NEW context
    PROVE  LET q == Asked(c, key, check, context)
               bucket == EvaluatePolicy(c[<<"bucketPolicy">>], q)
               named == EvaluateNamed(Consulted(c, key), q)
           IN Answer(c, key, check, context) <=>
                /\ key = Nobody \/ Requester(c, key).id # Nobody
                /\ IF key = Root(c) THEN TRUE
                   ELSE IF bucket # "Deny" \/ key = Nobody THEN bucket = "Allow"
                   ELSE IF AccountInfo(c, key).override
                   THEN EvaluatePolicy(AccountInfo(c, key).embedded, q) = "Allow"
                   ELSE IF named # "Deny" THEN named = "Allow"
                   ELSE CheckOwnership(q)
<1> DEFINE q == Asked(c, key, check, context)
<1>1. /\ q.resource # ServiceLevel
      /\ q.who.key = key /\ q.who.id = Requester(c, key).id
      /\ q.who.admin = (key = Root(c))
      /\ q.who.override = AccountInfo(c, key).override
      /\ q.who.embedded = AccountInfo(c, key).embedded
  BY DEF Asked, Ask, ServiceLevel
<1> HIDE DEF q
<1> QED
  BY <1>1 DEF Answer, Evaluate, CheckBucketPolicy, q

-----------------------------------------------------------------------------
(* What a request reads *)

IsConfig(c) == DOMAIN c = Entries /\ \A x \in Entries : c[x] \in Possible[x]

\* The administrator has a key.
LEMMA RootKey ==
    ASSUME NEW c, IsConfig(c)
    PROVE  Root(c) \in Keys /\ Root(c) # Nobody
<1>1. <<"root">> \in Entries /\ <<"root">>[1] = "root"
  BY EntriesAssumption
<1>2. c[<<"root">>] \in Keys
  BY <1>1, PossibleAssumption DEF IsConfig
<1> QED
  BY <1>2, DistinctAssumption DEF Root

\* A client without credentials is nobody's account.
LEMMA AnonymousAccount ==
    ASSUME NEW c
    PROVE  Account(c, Nobody).key = Nobody
<1>1. CASE <<"account", Nobody>> \in Entries
  <2>1. Start[<<"account", Nobody>>] \in Possible[<<"account", Nobody>>]
    BY <1>1, StartAssumption
  <2>2. <<"account", Nobody>>[1] = "account" /\ <<"account", Nobody>>[2] = Nobody
    OBVIOUS
  <2>3. Nobody \in Keys
    BY <1>1, <2>1, <2>2, PossibleAssumption
  <2> QED
    BY <2>3, DistinctAssumption
<1> QED
  BY <1>1 DEF Account, Absent

\* Which groups a user is in, and what a group gives.
LEMMA GroupReads ==
    ASSUME NEW c, IsConfig(c), NEW id
    PROVE  /\ GroupsOf(c, id) \in Seq(Groups)
           /\ \A i, j \in DOMAIN GroupsOf(c, id) :
                GroupsOf(c, id)[i] = GroupsOf(c, id)[j] => i = j
           /\ \A g \in Groups : GroupPolicies(c, g) \in Seq(PolicyNames)
<1>1. ASSUME NEW g \in Groups PROVE GroupPolicies(c, g) \in Seq(PolicyNames)
  <2>1. <<"group", g>> \in Entries /\ <<"group", g>>[1] = "group"
    BY EntriesAssumption
  <2>2. c[<<"group", g>>].attached \in Seq(PolicyNames)
    BY <2>1, PossibleAssumption DEF IsConfig
  <2>3. << >> \in Seq(PolicyNames)
    OBVIOUS
  <2> QED
    BY <2>2, <2>3 DEF GroupPolicies
<1>2. CASE <<"groups", id>> \in Entries
  <2>1. <<"groups", id>>[1] = "groups"
    OBVIOUS
  <2>2. c[<<"groups", id>>] \in Possible[<<"groups", id>>]
    BY <1>2 DEF IsConfig
  <2> QED
    BY <1>1, <1>2, <2>1, <2>2, PossibleAssumption DEF GroupsOf
<1>3. CASE <<"groups", id>> \notin Entries
  <2>1. GroupsOf(c, id) = << >> /\ << >> \in Seq(Groups) /\ DOMAIN << >> = {}
    BY <1>3 DEF GroupsOf
  <2> QED
    BY <1>1, <2>1
<1> QED
  BY <1>2, <1>3

\* A user record names policies.
LEMMA UserReads ==
    ASSUME NEW c, IsConfig(c), NEW id, <<"user", id>> \in Entries
    PROVE  UserRecord(c, id).attached \in Seq(PolicyNames)
<1>1. <<"user", id>>[1] = "user"
  OBVIOUS
<1> QED
  BY <1>1, PossibleAssumption DEF IsConfig, UserRecord

\* So does whoever is identified.
LEMMA RequesterReads ==
    ASSUME NEW c, IsConfig(c), NEW key
    PROVE  Requester(c, key).attached \in Seq(PolicyNames)
<1>1. << >> \in Seq(PolicyNames)
  OBVIOUS
<1>2. Refused.attached = << >> /\ Administrator.attached = << >>
  BY DEF Refused, Administrator, Identity
<1>3. AccountIdentity(c, key).attached = << >>
  BY <1>2 DEF AccountIdentity, Identity
<1>4. ASSUME UsersOf(c, key) # {} PROVE UserIdentity(c, key).attached \in Seq(PolicyNames)
  <2> DEFINE id == CHOOSE i \in UsersOf(c, key) : TRUE
  <2>1. id \in UsersOf(c, key)
    BY <1>4
  <2>2. <<"user", id>> \in Entries
    BY <2>1 DEF UsersOf
  <2>3. UserRecord(c, id).attached \in Seq(PolicyNames)
    BY <2>2, UserReads
  <2> QED
    BY <1>1, <1>2, <2>3 DEF UserIdentity, Identity
<1> QED
  BY <1>1, <1>2, <1>3, <1>4 DEF Requester

\* The lists of policy names that the groups give.
LEMMA ListsType ==
    ASSUME NEW c, IsConfig(c), NEW groups \in Seq(Groups)
    PROVE  /\ Lists(c, groups) \in Seq(Seq(PolicyNames))
           /\ Len(Lists(c, groups)) = Len(groups)
           /\ \A i \in 1..Len(groups) : Lists(c, groups)[i] = GroupPolicies(c, groups[i])
<1>1. \A i \in 1..Len(groups) : GroupPolicies(c, groups[i]) \in Seq(PolicyNames)
  <2>1. \A i \in 1..Len(groups) : groups[i] \in Groups
    OBVIOUS
  <2> QED
    BY <2>1, GroupReads
<1>2. Len(groups) \in Nat
  OBVIOUS
<1>3. Lists(c, groups) \in Seq(Seq(PolicyNames))
  BY <1>1, <1>2, IsASeq DEF Lists
<1>4. Len(Lists(c, groups)) = Len(groups)
  BY <1>2, <1>3, LenProperties DEF Lists
<1> QED
  BY <1>3, <1>4 DEF Lists

\* What is attached to a requester names policies.
LEMMA AttachedType ==
    ASSUME NEW c, IsConfig(c), NEW user, NEW info, user.attached \in Seq(PolicyNames)
    PROVE  Attached(c, user, info) \in Seq(PolicyNames)
<1> DEFINE holder == PolicyHolder(user, info)
           own == IF info.sa THEN ParentPolicies(c, holder) ELSE user.attached
           groups == GroupsOf(c, holder)
<1>1. CASE info.sa /\ ~HasUser(c, holder)
  <2>1. << >> \in Seq(PolicyNames)
    OBVIOUS
  <2> QED
    BY <1>1, <2>1 DEF Attached
<1>2. CASE ~(info.sa /\ ~HasUser(c, holder))
  <2>1. own \in Seq(PolicyNames)
    BY <1>2, UserReads DEF HasUser, ParentPolicies
  <2>2. Lists(c, groups) \in Seq(Seq(PolicyNames))
    BY GroupReads, ListsType
  <2>3. Attached(c, user, info) = Gather(own, Lists(c, groups))
    BY <1>2 DEF Attached, Lists
  <2> HIDE DEF own, groups
  <2> QED
    BY <2>1, <2>2, <2>3, GatherType
<1> QED
  BY <1>1, <1>2

\* The documents that count, for the names that are attached.
LEMMA ConsultedIs ==
    ASSUME NEW c, IsConfig(c), NEW key
    PROVE  LET names == Attached(c, Requester(c, key), AccountInfo(c, key))
           IN /\ names \in Seq(PolicyNames) /\ Len(names) \in Nat
              /\ DOMAIN Consulted(c, key) = 1..Len(names)
              /\ \A i \in 1..Len(names) : Consulted(c, key)[i] = PolicyDocument(c, names[i])
<1> DEFINE names == Attached(c, Requester(c, key), AccountInfo(c, key))
<1>1. names \in Seq(PolicyNames)
  BY RequesterReads, AttachedType
<1> HIDE DEF names
<1>2. Len(names) \in Nat /\ DOMAIN names = 1..Len(names)
  BY <1>1
<1>3. Consulted(c, key) = [i \in DOMAIN names |-> PolicyDocument(c, names[i])]
  BY DEF Consulted, names
<1> QED
  BY <1>1, <1>2, <1>3 DEF names

-----------------------------------------------------------------------------
(* Every answer has its reason *)

\* The documents of a list allow when one grants and none before it denies;
\* when none has an opinion they decide nothing.
LEMMA NamedGrants ==
    ASSUME NEW q, NEW n \in Nat, NEW docs, DOMAIN docs = 1..n
    PROVE  LET Undenied(m) == \A i \in 1..m : ~Says("Deny", docs[i], q)
           IN /\ EvaluateNamed(docs, q) = "Allow" <=>
                   \E i \in 1..n : Grants(docs[i], q) /\ Undenied(i)
              /\ EvaluateNamed(docs, q) = "Deny" => Undenied(n)
              /\ (EvaluateNamed(docs, q) # "Deny" /\ Undenied(n)) =>
                   EvaluateNamed(docs, q) = "Allow"
<1> DEFINE Undenied(m) == \A i \in 1..m : ~Says("Deny", docs[i], q)
<1>1. \A i \in 1..n :
        /\ EvaluatePolicy(docs[i], q) = "Allow" <=> Grants(docs[i], q)
        /\ EvaluatePolicy(docs[i], q) = "Deny" =>
             ~Says("Deny", docs[i], q) /\ ~Grants(docs[i], q)
        /\ EvaluatePolicy(docs[i], q) # "Deny" /\ ~Says("Deny", docs[i], q) =>
             EvaluatePolicy(docs[i], q) = "Allow"
  BY PolicySays DEF Grants
<1>2. CASE /\ \A i \in 1..n : EvaluatePolicy(docs[i], q) = "Deny"
           /\ EvaluateNamed(docs, q) = "Deny"
  BY <1>1, <1>2
<1>3. ASSUME NEW j \in 1..n, EvaluatePolicy(docs[j], q) # "Deny",
             \A i \in 1..n : i < j => EvaluatePolicy(docs[i], q) = "Deny",
             EvaluateNamed(docs, q) = EvaluatePolicy(docs[j], q)
      PROVE  /\ EvaluateNamed(docs, q) = "Allow" <=>
                   \E i \in 1..n : Grants(docs[i], q) /\ Undenied(i)
             /\ EvaluateNamed(docs, q) # "Deny"
             /\ Undenied(n) => EvaluateNamed(docs, q) = "Allow"
  <2>1. ASSUME EvaluateNamed(docs, q) = "Allow" PROVE Grants(docs[j], q) /\ Undenied(j)
    <3>1. Grants(docs[j], q)
      BY <1>1, <1>3, <2>1
    <3>2. ASSUME NEW i \in 1..j PROVE ~Says("Deny", docs[i], q)
      <4>1. i \in 1..n /\ (i = j \/ i < j)
        OBVIOUS
      <4> QED
        BY <1>1, <1>3, <3>1, <4>1 DEF Grants
    <3> QED
      BY <3>1, <3>2
  <2>2. ASSUME NEW i \in 1..n, Grants(docs[i], q), Undenied(i)
        PROVE  EvaluateNamed(docs, q) = "Allow"
    <3>1. j <= i
      BY <1>1, <1>3, <2>2
    <3>2. ~Says("Deny", docs[j], q)
      BY <2>2, <3>1
    <3> QED
      BY <1>1, <1>3, <3>2
  <2>3. Undenied(n) => EvaluateNamed(docs, q) = "Allow"
    BY <1>1, <1>3
  <2> HIDE DEF Undenied
  <2> QED
    BY <1>3, <2>1, <2>2, <2>3
<1> HIDE DEF Undenied
<1>4. /\ EvaluateNamed(docs, q) = "Allow" <=>
           \E i \in 1..n : Grants(docs[i], q) /\ Undenied(i)
      /\ EvaluateNamed(docs, q) = "Deny" => Undenied(n)
      /\ (EvaluateNamed(docs, q) # "Deny" /\ Undenied(n)) =>
           EvaluateNamed(docs, q) = "Allow"
  <2>1. CASE EvaluateNamed(docs, q) = "Deny"
    <3>1. \A i \in 1..n : EvaluatePolicy(docs[i], q) = "Deny"
      BY <1>3, <2>1, NamedSome
    <3>2. Undenied(n) /\ \A i \in 1..n : ~Grants(docs[i], q)
      BY <1>1, <3>1 DEF Undenied
    <3> QED
      BY <2>1, <3>2
  <2>2. CASE EvaluateNamed(docs, q) # "Deny"
    <3>1. PICK j \in 1..n : /\ EvaluatePolicy(docs[j], q) # "Deny"
                            /\ \A i \in 1..n : i < j => EvaluatePolicy(docs[i], q) = "Deny"
                            /\ EvaluateNamed(docs, q) = EvaluatePolicy(docs[j], q)
      BY <2>2, NamedSome
    <3> QED
      BY <1>3, <2>2, <3>1
  <2> QED
    BY <2>1, <2>2
<1> QED
  BY <1>4 DEF Undenied

\* The answer as the engine's order of evaluation gives it, in terms of
\* statements: no Deny of the bucket policy applies, and the bucket policy,
\* the account's embedded policy or an attached one grants it before any other
\* denies it, or the requester owns the object or its bucket and none denies it.
Justified(c, check) ==
    LET q      == Asked(c, req.key, check, req.context)
        bucket == c[<<"bucketPolicy">>]
        docs   == Consulted(c, req.key)
        Undenied(n) == \A i \in 1..n : ~Says("Deny", docs[i], q)
    IN \/ req.key = Root(c)
       \/ /\ ~Says("Deny", bucket, q)
          /\ req.key = Nobody \/ q.who.id # Nobody
          /\ \/ Says("Allow", bucket, q)
             \/ q.who.override /\ Grants(q.who.embedded, q)
             \/ /\ ~q.who.override /\ req.key # Nobody
                /\ \/ \E i \in DOMAIN docs : Grants(docs[i], q) /\ Undenied(i)
                   \/ Undenied(Len(docs)) /\ q.who.id \in {q.bucketOwner, q.objectOwner}

\* In every configuration the engine's order of evaluation comes to what the
\* statements say.
THEOREM AnswerJustified ==
    ASSUME NEW c, IsConfig(c), NEW check
    PROVE  Answer(c, req.key, check, req.context) <=> Justified(c, check)
<1> DEFINE key == req.key
           q == Asked(c, key, check, req.context)
           docs == Consulted(c, key)
           named == EvaluateNamed(docs, q)
           bucket == c[<<"bucketPolicy">>]
           info == AccountInfo(c, key)
           n == Len(Attached(c, Requester(c, key), info))
           Undenied(m) == \A i \in 1..m : ~Says("Deny", docs[i], q)
<1>1. /\ q.who.id = Requester(c, key).id
      /\ q.who.override <=> info.override
      /\ q.who.embedded = info.embedded
  BY DEF Asked, Ask
<1>2. Answer(c, key, check, req.context) <=>
        /\ key = Nobody \/ q.who.id # Nobody
        /\ IF key = Root(c) THEN TRUE
           ELSE IF EvaluatePolicy(bucket, q) # "Deny" \/ key = Nobody
           THEN EvaluatePolicy(bucket, q) = "Allow"
           ELSE IF info.override THEN EvaluatePolicy(info.embedded, q) = "Allow"
           ELSE IF named # "Deny" THEN named = "Allow"
           ELSE CheckOwnership(q)
  <2> HIDE DEF q, named, bucket, info
  <2> QED
    BY <1>1, AnswerIs DEF q, named, bucket, info
<1>3. n \in Nat /\ DOMAIN docs = 1..n /\ Len(docs) = n
  <2>1. n \in Nat /\ DOMAIN docs = 1..n /\ docs = [i \in 1..n |-> docs[i]]
    BY ConsultedIs DEF Consulted
  <2> HIDE DEF n, docs
  <2> QED
    BY <2>1
<1>4. Justified(c, check) <=>
        \/ key = Root(c)
        \/ /\ ~Says("Deny", bucket, q)
           /\ key = Nobody \/ q.who.id # Nobody
           /\ \/ Says("Allow", bucket, q)
              \/ info.override /\ Grants(info.embedded, q)
              \/ /\ ~info.override /\ key # Nobody
                 /\ \/ \E i \in 1..n : Grants(docs[i], q) /\ Undenied(i)
                    \/ Undenied(n) /\ q.who.id \in {q.bucketOwner, q.objectOwner}
  <2> HIDE DEF q, docs, info, n
  <2> QED
    BY <1>1, <1>3 DEF Justified, q, docs
<1>5. /\ EvaluatePolicy(bucket, q) = IF Says("Deny", bucket, q) THEN "ExplicitDeny"
                                     ELSE IF Says("Allow", bucket, q) THEN "Allow" ELSE "Deny"
      /\ EvaluatePolicy(info.embedded, q) = "Allow" <=> Grants(info.embedded, q)
  BY PolicySays DEF Grants
<1>6. key = Nobody => ~info.override
  BY AnonymousAccount DEF AccountInfo, NoAccount
<1>7. key = Root(c) => key # Nobody /\ q.who.id # Nobody
  <2>1. Root(c) # Nobody
    BY RootKey
  <2>2. key = Root(c) => Requester(c, key) = Administrator
    BY <2>1 DEF Requester
  <2> QED
    BY <1>1, <2>1, <2>2, AdministratorAssumption DEF Administrator, Identity
<1>8. /\ named = "Allow" <=> \E i \in 1..n : Grants(docs[i], q) /\ Undenied(i)
      /\ named = "Deny" => Undenied(n)
      /\ (named # "Deny" /\ Undenied(n)) => named = "Allow"
  <2> HIDE DEF q, docs, n
  <2> QED
    BY <1>3, NamedGrants
<1>9. CheckOwnership(q) <=> q.who.id # Nobody /\ q.who.id \in {q.bucketOwner, q.objectOwner}
  BY DEF CheckOwnership
<1> HIDE DEF key, q, docs, named, bucket, info, n, Undenied
<1> DEFINE Granted == \E i \in 1..n : Grants(docs[i], q) /\ Undenied(i)
           Owner == q.who.id \in {q.bucketOwner, q.objectOwner}
<1> HIDE DEF Granted, Owner
<1>10. Answer(c, key, check, req.context) <=> Justified(c, check)
  <2>1. CASE key = Root(c)
    BY <1>2, <1>4, <1>7, <2>1
  <2>2. CASE key # Root(c) /\ (EvaluatePolicy(bucket, q) # "Deny" \/ key = Nobody)
    BY <1>2, <1>4, <1>5, <1>6, <2>2
  <2>3. CASE key # Root(c) /\ EvaluatePolicy(bucket, q) = "Deny" /\ key # Nobody
    BY <1>2, <1>4, <1>5, <1>8, <1>9, <2>3
  <2> QED
    BY <2>1, <2>2, <2>3
<1> QED
  BY <1>10 DEF key

\* The order decides between an Allow and a Deny of different documents, and
\* nothing else: an answer lies between what must be allowed and what may be.
LEMMA AnswerBetween ==
    ASSUME NEW c, IsConfig(c), NEW check
    PROVE  /\ Answer(c, req.key, check, req.context) => MayAllow(c, check)
           /\ MustAllow(c, check) => Answer(c, req.key, check, req.context)
<1> DEFINE key == req.key
           q == Asked(c, key, check, req.context)
           docs == Consulted(c, key)
           n == Len(Attached(c, Requester(c, key), AccountInfo(c, key)))
           bucket == c[<<"bucketPolicy">>]
           force == InForce(c, key, q)
           Undenied(m) == \A i \in 1..m : ~Says("Deny", docs[i], q)
           Clear == \A doc \in force : ~Says("Deny", doc, q)
           Owner == q.who.id \in {q.bucketOwner, q.objectOwner}
<1>1. n \in Nat /\ DOMAIN docs = 1..n /\ Len(docs) = n
  <2>1. n \in Nat /\ DOMAIN docs = 1..n /\ docs = [i \in 1..n |-> docs[i]]
    BY ConsultedIs DEF Consulted
  <2> HIDE DEF n, docs
  <2> QED
    BY <2>1
<1>2. key = Nobody => ~q.who.override
  BY AnonymousAccount DEF AccountInfo, NoAccount, Asked, Ask
<1>3. /\ bucket \in force
      /\ key = Nobody => force = {bucket}
      /\ (key # Nobody /\ q.who.override) => force = {bucket, q.who.embedded}
      /\ (key # Nobody /\ ~q.who.override) => force = {bucket} \cup {docs[i] : i \in DOMAIN docs}
  BY DEF InForce
<1>4. Justified(c, check) <=>
        \/ key = Root(c)
        \/ /\ ~Says("Deny", bucket, q)
           /\ Authenticated(key, q)
           /\ \/ Says("Allow", bucket, q)
              \/ q.who.override /\ Grants(q.who.embedded, q)
              \/ /\ ~q.who.override /\ key # Nobody
                 /\ \/ \E i \in 1..n : Grants(docs[i], q) /\ Undenied(i)
                    \/ Undenied(n) /\ Owner
  <2> HIDE DEF q, docs, n
  <2> QED
    BY <1>1 DEF Justified, Authenticated, q, docs
<1>5. MayAllow(c, check) <=>
        \/ key = Root(c)
        \/ /\ Authenticated(key, q)
           /\ ~Says("Deny", bucket, q)
           /\ (\E doc \in force : Grants(doc, q)) \/ (Owns(key, q) /\ Clear)
  BY DEF MayAllow
<1>6. MustAllow(c, check) <=>
        \/ key = Root(c)
        \/ /\ Authenticated(key, q)
           /\ Clear
           /\ Owns(key, q) \/ \E doc \in force : Says("Allow", doc, q)
  BY DEF MustAllow
<1>7. Owns(key, q) <=> key # Nobody /\ ~q.who.override /\ Owner
  BY DEF Owns
<1>8. Answer(c, key, check, req.context) <=> Justified(c, check)
  BY AnswerJustified
<1> HIDE DEF key, q, docs, n, bucket, force, Owner
<1>9. ASSUME Justified(c, check) PROVE MayAllow(c, check)
  <2> SUFFICES ASSUME key # Root(c) PROVE MayAllow(c, check)
    BY <1>5
  <2>1. ~Says("Deny", bucket, q) /\ Authenticated(key, q)
    BY <1>4, <1>9
  <2>2. CASE Says("Allow", bucket, q)
    BY <1>3, <1>5, <2>1, <2>2 DEF Grants
  <2>3. CASE q.who.override /\ Grants(q.who.embedded, q)
    BY <1>2, <1>3, <1>5, <2>1, <2>3
  <2>4. ASSUME NEW i \in 1..n, Grants(docs[i], q), ~q.who.override, key # Nobody
        PROVE  MayAllow(c, check)
    BY <1>1, <1>3, <1>5, <2>1, <2>4
  <2>5. CASE ~q.who.override /\ key # Nobody /\ Undenied(n) /\ Owner
    <3>1. Clear
      BY <1>1, <1>3, <2>1, <2>5
    <3> QED
      BY <1>5, <1>7, <2>1, <2>5, <3>1
  <2> QED
    BY <1>4, <1>9, <2>2, <2>3, <2>4, <2>5
<1>10. ASSUME MustAllow(c, check) PROVE Justified(c, check)
  <2> SUFFICES ASSUME key # Root(c) PROVE Justified(c, check)
    BY <1>4
  <2>1. Authenticated(key, q) /\ Clear /\ ~Says("Deny", bucket, q)
    BY <1>3, <1>6, <1>10
  <2>2. ASSUME ~q.who.override, key # Nobody PROVE Undenied(n)
    BY <1>1, <1>3, <2>1, <2>2
  <2>3. CASE Owns(key, q)
    BY <1>4, <1>7, <2>1, <2>2, <2>3
  <2>4. ASSUME NEW doc \in force, Says("Allow", doc, q) PROVE Justified(c, check)
    <3>1. CASE doc = bucket
      BY <1>4, <2>1, <2>4, <3>1
    <3>2. CASE key # Nobody /\ q.who.override /\ doc = q.who.embedded
      BY <1>4, <2>1, <2>4, <3>2 DEF Grants
    <3>3. ASSUME key # Nobody, ~q.who.override, NEW i \in 1..n, doc = docs[i]
          PROVE  Justified(c, check)
      <4>1. Undenied(n)
        BY <2>2, <3>3
      <4>2. Grants(docs[i], q) /\ Undenied(i)
        BY <1>1, <2>1, <2>4, <3>3, <4>1 DEF Grants
      <4> QED
        BY <1>4, <2>1, <3>3, <4>2
    <3> QED
      BY <1>1, <1>3, <2>4, <3>1, <3>2, <3>3
  <2> QED
    BY <1>6, <1>10, <2>3, <2>4
<1> QED
  BY <1>8, <1>9, <1>10 DEF key

-----------------------------------------------------------------------------
(* Type correctness *)

\* An operation is about one object or two.
LEMMA OperationLength ==
    ASSUME NEW op \in Operations
    PROVE  Len(op) \in 1..2
<1> DEFINE Ask1(action, o) == <<[permission |-> RequiredPermissions(action)[1], object |-> o]>>
           Ask2(s, d) == [i \in 1..2 |-> [permission |-> RequiredPermissions("CopyObject")[i],
                                          object |-> <<s, d>>[i]]]
           One == {Ask1(a, o) : a \in {"HeadObject", "PutObject"}, o \in Objects}
           Two == {Ask2(s, d) : s \in Objects, d \in Objects}
<1>1. Operations = One \cup Two
  BY DEF Operations
<1>2. ASSUME op \in One PROVE Len(op) \in 1..2
  BY <1>2
<1>3. ASSUME op \in Two PROVE Len(op) \in 1..2
  <2>1. PICK s \in Objects, d \in Objects : op = Ask2(s, d)
    BY <1>3
  <2>2. op = << op[1], op[2] >>
    BY <2>1
  <2> HIDE DEF Ask2
  <2> QED
    BY <2>2
<1> HIDE DEF One, Two
<1> QED
  BY <1>1, <1>2, <1>3

\* A request that is none.
LEMMA IdleFields ==
    /\ DOMAIN Idle = Fields /\ Idle.pc = "idle" /\ Idle.key = Nobody /\ Idle.at = 1
    /\ Idle.admin = FALSE /\ Idle.user = Refused /\ Idle.info = NoAccount
BY DEF Idle, Fields

\* What Begin makes of an idle request.
LEMMA Begun ==
    ASSUME NEW key, NEW op, NEW context, Begin(key, op, context)
    PROVE  /\ DOMAIN req' = Fields /\ req'.key = key /\ req'.checks = op
           /\ req'.pc = IF key = Nobody THEN "classify" ELSE "user"
           /\ req'.context = context /\ req'.at = 1 /\ req'.admin = FALSE
           /\ req'.user = Refused /\ req'.info = NoAccount
           /\ conf' = conf /\ old' = conf /\ left' = MaxOvertakes
BY DEF Begin, Idle, Fields

\* The ends of a check: the next one, or the answer.
LEMMA Decided ==
    ASSUME DOMAIN req = Fields, NEW decision, Decide(decision)
    PROVE  /\ DOMAIN req' = Fields /\ req'.key = req.key /\ req'.checks = req.checks
           /\ req'.context = req.context /\ req'.user = req.user /\ req'.info = req.info
           /\ req'.admin = req.admin
           /\ \/ /\ decision = "Allow" /\ req.at < Len(req.checks)
                 /\ req'.pc = "bucketOwner" /\ req'.at = req.at + 1
              \/ /\ ~(decision = "Allow" /\ req.at < Len(req.checks))
                 /\ req'.pc = "done" /\ req'.at = req.at
                 /\ req'.allowed <=> decision = "Allow"
<1>1. CASE decision = "Allow" /\ req.at < Len(req.checks)
  BY <1>1 DEF Decide, Fields
<1>2. CASE ~(decision = "Allow" /\ req.at < Len(req.checks))
  BY <1>2 DEF Decide, Fields
<1> QED
  BY <1>1, <1>2

\* A step keeps what the request is about.
Onward ==
    /\ conf' = conf /\ old' = old /\ left' = left
    /\ DOMAIN req' = Fields /\ req'.key = req.key /\ req'.checks = req.checks
    /\ req'.context = req.context
    /\ req'.pc \in Pcs \ {"idle"} /\ req.pc \notin {"idle", "done"}
    /\ req'.pc \in {"user", "account", "context"} => req.key # Nobody
    /\ req'.pc # "done" => req'.admin = req.admin
    /\ \/ req'.at = req.at
       \/ req'.at = req.at + 1 /\ req.at < Len(req.checks)

\* So does the end of a check.
LEMMA DecidedOnward ==
    ASSUME DOMAIN req = Fields, NEW decision, Decide(decision),
           req.pc \in Pcs \ {"idle", "done"}, UNCHANGED <<conf, old, left>>
    PROVE  Onward
<1>1. req'.pc \in {"bucketOwner", "done"}
  BY Decided
<1>2. \/ req'.at = req.at
      \/ req'.at = req.at + 1 /\ req.at < Len(req.checks)
  BY Decided
<1> QED
  BY <1>1, <1>2, Decided DEF Onward, Pcs

\* And so does every step.
LEMMA StepOnward ==
    ASSUME Shape, req.pc \in Pcs, Step
    PROVE  Onward
<1>a. DOMAIN req = Fields /\ (req.pc \in {"user", "account", "context"} => req.key # Nobody)
  BY DEF Shape
<1>1. CASE LookUpUser
  <2>1. CASE Admit(Administrator)
    BY <1>a, <1>1, <2>1 DEF LookUpUser, At, Admit, Refuse, Fields, Onward, Pcs
  <2>2. CASE Admit(UserIdentity(conf, req.key))
    BY <1>a, <1>1, <2>2 DEF LookUpUser, At, Admit, Refuse, Fields, Onward, Pcs
  <2>3. CASE req' = [req EXCEPT !.pc = "account"]
    BY <1>a, <1>1, <2>3 DEF LookUpUser, At, Fields, Onward, Pcs
  <2> QED
    BY <1>1, <2>1, <2>2, <2>3 DEF LookUpUser
<1>2. CASE LookUpAccount
  BY <1>a, <1>2 DEF LookUpAccount, At, Admit, Refuse, Fields, Onward, Pcs
<1>3. CASE AddContext
  BY <1>a, <1>3 DEF AddContext, At, Fields, Onward, Pcs
<1>4. CASE Classify
  BY <1>a, <1>4 DEF Classify, At, Fields, Onward, Pcs
<1>5. CASE FetchBucketOwner
  BY <1>a, <1>5 DEF FetchBucketOwner, At, Fields, Onward, Pcs
<1>6. CASE FetchObjectOwner
  BY <1>a, <1>6 DEF FetchObjectOwner, At, Fields, Onward, Pcs
<1>7. CASE ConsultBucketPolicy
  <2> DEFINE bucket == CheckBucketPolicy(conf[<<"bucketPolicy">>], req.q)
  <2>1. CASE Decide(bucket)
    BY <1>a, <1>7, <2>1, DecidedOnward DEF ConsultBucketPolicy, At, Pcs
  <2>2. CASE Decide(EvaluatePolicy(req.info.embedded, req.q))
    BY <1>a, <1>7, <2>2, DecidedOnward DEF ConsultBucketPolicy, At, Pcs
  <2>3. CASE req' = [req EXCEPT !.pc = "names"]
    BY <1>a, <1>7, <2>3 DEF ConsultBucketPolicy, At, Fields, Onward, Pcs
  <2> QED
    BY <1>7, <2>1, <2>2, <2>3 DEF ConsultBucketPolicy
<1>8. CASE ResolveNames
  <2>1. CASE req' = [req EXCEPT !.pc = "policy", !.names = << >>]
    BY <1>a, <1>8, <2>1 DEF ResolveNames, At, Fields, Onward, Pcs
  <2>2. CASE req' = [req EXCEPT !.pc = "groups",
                     !.names = IF req.info.sa
                               THEN ParentPolicies(conf, PolicyHolder(req.user, req.info))
                               ELSE req.user.attached]
    BY <1>a, <1>8, <2>2 DEF ResolveNames, At, Fields, Onward, Pcs
  <2> QED
    BY <1>8, <2>1, <2>2 DEF ResolveNames
<1>9. CASE ResolveGroups
  BY <1>a, <1>9 DEF ResolveGroups, At, Fields, Onward, Pcs
<1>10. CASE ResolveGroup
  <2>1. CASE req' = [req EXCEPT !.pc = "policy"]
    BY <1>a, <1>10, <2>1 DEF ResolveGroup, At, Fields, Onward, Pcs
  <2>2. CASE req' = [req EXCEPT !.groups = Tail(@),
                                !.names = @ \o GroupPolicies(conf, Head(req.groups))]
    BY <1>a, <1>10, <2>2 DEF ResolveGroup, At, Fields, Onward, Pcs
  <2> QED
    BY <1>10, <2>1, <2>2 DEF ResolveGroup
<1>11. CASE ConsultPolicy
  <2>1. CASE \E d : Decide(d)
    BY <1>a, <1>11, <2>1, DecidedOnward DEF ConsultPolicy, At, Pcs
  <2>2. CASE req' = [req EXCEPT !.names = Tail(@)]
    BY <1>a, <1>11, <2>2 DEF ConsultPolicy, At, Fields, Onward, Pcs
  <2> QED
    BY <1>11, <2>1, <2>2 DEF ConsultPolicy
<1> QED
  BY <1>1, <1>2, <1>3, <1>4, <1>5, <1>6, <1>7, <1>8, <1>9, <1>10, <1>11 DEF Step

\* The first request is none, and the configuration that of the start.
LEMMA InitTyped == Init => TypeOK /\ Shape
<1> SUFFICES ASSUME Init PROVE TypeOK /\ Shape
  OBVIOUS
<1>1. req.pc = "idle" /\ req.key = Nobody /\ req.at = 1 /\ DOMAIN req = Fields
  BY IdleFields DEF Init
<1>2. 0 \in 0..MaxOvertakes
  BY OvertakesAssumption
<1> QED
  BY <1>1, <1>2, StartAssumption DEF Init, TypeOK, Shape, Pcs

\* Every step keeps the types.
LEMMA NextTyped == TypeOK /\ Shape /\ [Next]_vars => (TypeOK /\ Shape)'
<1> SUFFICES ASSUME TypeOK, Shape, [Next]_vars PROVE TypeOK' /\ Shape'
  OBVIOUS
<1>1. ASSUME NEW key \in Keys \cup {Nobody}, NEW op \in Operations, NEW context,
             Begin(key, op, context)
      PROVE  TypeOK' /\ Shape'
  <2>1. Len(op) \in 1..2 /\ MaxOvertakes \in 0..MaxOvertakes
    BY OperationLength, OvertakesAssumption
  <2>2. /\ DOMAIN req' = Fields /\ req'.key = key /\ req'.checks = op /\ req'.at = 1
        /\ req'.pc = IF key = Nobody THEN "classify" ELSE "user"
        /\ req'.admin = FALSE /\ conf' = conf /\ old' = conf /\ left' = MaxOvertakes
    BY <1>1, Begun
  <2>3. req'.pc \in Pcs \ {"idle", "done"} /\ (req'.pc \in {"user", "account", "context"} => key # Nobody)
    BY <2>2 DEF Pcs
  <2>4. Shape'
    BY <2>2, <2>3 DEF Shape
  <2>5. 1 \in 1..2 /\ 1 <= Len(op)
    BY <2>1
  <2> QED
    BY <2>1, <2>2, <2>3, <2>4, <2>5 DEF TypeOK
<1>2. CASE Step
  <2>1. Onward
    BY <1>2, StepOnward DEF TypeOK
  <2>2. req.checks \in Operations /\ Len(req.checks) \in 1..2
    BY <2>1, OperationLength DEF Onward, Shape
  <2>3. req'.at \in 1..2 /\ req'.at <= Len(req.checks)
    <3>1. req.at \in 1..2 /\ req.at <= Len(req.checks)
      BY <2>1 DEF Onward, TypeOK
    <3>2. \/ req'.at = req.at
          \/ req'.at = req.at + 1 /\ req.at < Len(req.checks)
      BY <2>1 DEF Onward
    <3>3. \A a, n \in 1..2 : a < n => a + 1 \in 1..2 /\ a + 1 <= n
      OBVIOUS
    <3> QED
      BY <2>2, <3>1, <3>2, <3>3
  <2>4. TypeOK'
    BY <2>1, <2>3 DEF Onward, TypeOK
  <2> QED
    BY <2>1, <2>2, <2>4 DEF Onward, Shape
<1>3. CASE Reply
  <2>1. req'.pc = "idle" /\ req'.key = Nobody /\ req'.at = 1 /\ DOMAIN req' = Fields
    BY <1>3, IdleFields DEF Reply
  <2>2. 0 \in 0..MaxOvertakes
    BY OvertakesAssumption
  <2> QED
    BY <1>3, <2>1, <2>2 DEF Reply, TypeOK, Shape, Pcs
<1>4. ASSUME NEW x \in Entries, NEW v \in Possible[x], Change(x, v)
      PROVE  TypeOK' /\ Shape'
  <2>1. DOMAIN conf' = Entries /\ \A y \in Entries : conf'[y] \in Possible[y]
    BY <1>4 DEF Change, TypeOK
  <2>2. left' \in 0..MaxOvertakes
    BY <1>4, OvertakesAssumption DEF Change, TypeOK
  <2>3. DOMAIN old' = Entries /\ \A y \in Entries : old'[y] \in Possible[y]
    BY <1>4, <2>1 DEF Change, TypeOK
  <2> QED
    BY <1>4, <2>1, <2>2, <2>3 DEF Change, TypeOK, Shape
<1>5. CASE UNCHANGED vars
  BY <1>5 DEF vars, TypeOK, Shape
<1> QED
  BY <1>1, <1>2, <1>3, <1>4, <1>5 DEF Next

\* Configurations and requests have their types, and a request with two checks
\* is never past its second (Decide, evaluateMultiResourceAction).
THEOREM TypeCorrect == Spec => []TypeOK
<1>1. TypeOK /\ Shape => TypeOK
  OBVIOUS
<1> QED
  BY InitTyped, NextTyped, <1>1, PTL DEF Spec

-----------------------------------------------------------------------------
(* A change, and what depends on it *)

\* The entries of one kind are read the same unless one of them changes.
LEMMA KindSame ==
    ASSUME NEW c, NEW d, NEW x, But(c, d, x), NEW kinds, x[1] \notin kinds
    PROVE  Same(c, d, kinds)
BY DEF But, Same

\* Fewer kinds.
LEMMA SameFewer ==
    ASSUME NEW c, NEW d, NEW kinds, NEW fewer \in SUBSET kinds, Same(c, d, kinds)
    PROVE  Same(c, d, fewer)
BY DEF Same

\* What a kind is for.
LEMMA SameReads ==
    ASSUME NEW c, NEW d
    PROVE  /\ Same(c, d, {"bucketOwner"}) => c[<<"bucketOwner">>] = d[<<"bucketOwner">>]
           /\ Same(c, d, {"bucketPolicy"}) => c[<<"bucketPolicy">>] = d[<<"bucketPolicy">>]
           /\ Same(c, d, {"objectOwner"}) =>
                \A o \in Objects : c[<<"objectOwner", o>>] = d[<<"objectOwner", o>>]
           /\ Same(c, d, {"policy"}) =>
                \A p \in PolicyNames : PolicyDocument(c, p) = PolicyDocument(d, p)
           /\ Same(c, d, {"groups"}) => \A id : GroupsOf(c, id) = GroupsOf(d, id)
           /\ Same(c, d, {"group"}) =>
                \A g \in Groups : GroupPolicies(c, g) = GroupPolicies(d, g)
           /\ Same(c, d, {"user"}) =>
                \A id : <<"user", id>> \in Entries => UserRecord(c, id) = UserRecord(d, id)
<1>1. /\ <<"bucketOwner">>[1] = "bucketOwner" /\ <<"bucketPolicy">>[1] = "bucketPolicy"
      /\ <<"bucketOwner">> \in Entries /\ <<"bucketPolicy">> \in Entries
  BY EntriesAssumption
<1>2. \A o \in Objects : <<"objectOwner", o>>[1] = "objectOwner" /\ <<"objectOwner", o>> \in Entries
  BY EntriesAssumption
<1>3. \A p \in PolicyNames : <<"policy", p>>[1] = "policy" /\ <<"policy", p>> \in Entries
  BY EntriesAssumption
<1>4. \A g \in Groups : <<"group", g>>[1] = "group" /\ <<"group", g>> \in Entries
  BY EntriesAssumption
<1>5. \A id : <<"groups", id>>[1] = "groups" /\ <<"user", id>>[1] = "user"
  OBVIOUS
<1>6. Same(c, d, {"groups"}) => \A id : GroupsOf(c, id) = GroupsOf(d, id)
  BY <1>5 DEF Same, GroupsOf
<1>7. Same(c, d, {"group"}) => \A g \in Groups : GroupPolicies(c, g) = GroupPolicies(d, g)
  <2>1. Same(c, d, {"group"}) => \A g \in Groups : c[<<"group", g>>] = d[<<"group", g>>]
    BY <1>4 DEF Same
  <2> QED
    BY <2>1 DEF GroupPolicies
<1>8. Same(c, d, {"user"}) =>
        \A id : <<"user", id>> \in Entries => UserRecord(c, id) = UserRecord(d, id)
  BY <1>5 DEF Same, UserRecord
<1>9. Same(c, d, {"policy"}) =>
        \A p \in PolicyNames : PolicyDocument(c, p) = PolicyDocument(d, p)
  BY <1>3 DEF Same, PolicyDocument
<1>10. Same(c, d, {"objectOwner"}) =>
         \A o \in Objects : c[<<"objectOwner", o>>] = d[<<"objectOwner", o>>]
  BY <1>2 DEF Same
<1>11. /\ Same(c, d, {"bucketOwner"}) => c[<<"bucketOwner">>] = d[<<"bucketOwner">>]
       /\ Same(c, d, {"bucketPolicy"}) => c[<<"bucketPolicy">>] = d[<<"bucketPolicy">>]
  BY <1>1 DEF Same
<1> QED
  BY <1>6, <1>7, <1>8, <1>9, <1>10, <1>11

\* The users with a key are found in their records.
LEMMA UsersSame ==
    ASSUME NEW c, NEW d, Same(c, d, {"user"}), NEW key
    PROVE  UsersOf(c, key) = UsersOf(d, key)
BY SameReads DEF UsersOf

\* What authentication finds lies in users, the key's account and the root key.
LEMMA RequesterSame ==
    ASSUME NEW c, NEW d, NEW key, Stable(c, d, key), Same(c, d, {"user"})
    PROVE  Requester(c, key) = Requester(d, key)
<1>1. UsersOf(c, key) = UsersOf(d, key)
  BY UsersSame
<1>2. AccountIdentity(c, key) = AccountIdentity(d, key) /\ Root(c) = Root(d)
  BY DEF Stable, AccountIdentity
<1>3. ASSUME UsersOf(c, key) # {} PROVE UserIdentity(c, key) = UserIdentity(d, key)
  <2> DEFINE id == CHOOSE i \in UsersOf(c, key) : TRUE
  <2>1. id \in UsersOf(c, key)
    BY <1>3
  <2>2. UserRecord(c, id) = UserRecord(d, id)
    BY <2>1, SameReads DEF UsersOf
  <2> QED
    BY <1>1, <2>2 DEF UserIdentity
<1> QED
  BY <1>1, <1>2, <1>3 DEF Requester

\* The account's fields depend on the account and the root key.
LEMMA InfoSame ==
    ASSUME NEW c, NEW d, NEW key, Stable(c, d, key)
    PROVE  AccountInfo(c, key) = AccountInfo(d, key)
BY DEF Stable, AccountInfo

\* An account is identified without its users.
LEMMA LentSame ==
    ASSUME NEW c, NEW d, NEW key, Stable(c, d, key), AccountInfo(c, key).sa
    PROVE  /\ Requester(c, key) = Requester(d, key)
           /\ UsersOf(c, key) = {} /\ UsersOf(d, key) = {}
<1>1. Account(c, key).key # Nobody
  BY DEF AccountInfo, NoAccount
<1>2. UsersOf(c, key) = {} /\ UsersOf(d, key) = {}
  BY <1>1 DEF Stable
<1>3. AccountIdentity(c, key) = AccountIdentity(d, key) /\ Root(c) = Root(d)
  BY DEF Stable, AccountIdentity
<1> QED
  BY <1>2, <1>3 DEF Requester

\* What is attached depends on the groups, and for an account on its parent.
LEMMA AttachedSame ==
    ASSUME NEW c, IsConfig(c), NEW d, Same(c, d, {"groups"}), Same(c, d, {"group"}),
           NEW user, NEW info, info.sa => Same(c, d, {"user"})
    PROVE  Attached(c, user, info) = Attached(d, user, info)
<1> DEFINE holder == PolicyHolder(user, info)
           groups == GroupsOf(c, holder)
<1>1. groups = GroupsOf(d, holder) /\ groups \in Seq(Groups)
  BY SameReads, GroupReads
<1>2. \A i \in 1..Len(groups) : groups[i] \in Groups
  <2> HIDE DEF groups
  <2> QED
    BY <1>1
<1>3. \A i \in 1..Len(groups) : GroupPolicies(c, groups[i]) = GroupPolicies(d, groups[i])
  BY <1>2, SameReads
<1>4. Lists(c, groups) = Lists(d, groups)
  <2> HIDE DEF groups
  <2> QED
    BY <1>3 DEF Lists
<1>5. info.sa => (HasUser(c, holder) <=> HasUser(d, holder))
  BY SameReads DEF HasUser
<1>6. (info.sa /\ HasUser(c, holder)) => ParentPolicies(c, holder) = ParentPolicies(d, holder)
  BY SameReads DEF HasUser, ParentPolicies
<1>7. \A e \in {c, d} : Attached(e, user, info) =
        IF info.sa /\ ~HasUser(e, holder) THEN << >>
        ELSE Gather(IF info.sa THEN ParentPolicies(e, holder) ELSE user.attached,
                    Lists(e, GroupsOf(e, holder)))
  BY DEF Attached, Lists
<1> HIDE DEF holder, groups
<1>8. CASE info.sa /\ ~HasUser(c, holder)
  BY <1>5, <1>7, <1>8
<1>9. CASE info.sa /\ HasUser(c, holder)
  BY <1>1, <1>4, <1>5, <1>6, <1>7, <1>9 DEF groups
<1>10. CASE ~info.sa
  BY <1>1, <1>4, <1>7, <1>10 DEF groups
<1> QED
  BY <1>8, <1>9, <1>10

-----------------------------------------------------------------------------
(* A change overtakes the request *)

\* What a request asks about exists.
LEMMA CheckIsCheck ==
    ASSUME NEW op \in Operations, NEW i \in 1..Len(op)
    PROVE  op[i].object \in Objects
<1> DEFINE Ask1(action, o) == <<[permission |-> RequiredPermissions(action)[1], object |-> o]>>
           Ask2(s, d) == [k \in 1..2 |-> [permission |-> RequiredPermissions("CopyObject")[k],
                                          object |-> <<s, d>>[k]]]
           One == {Ask1(a, o) : a \in {"HeadObject", "PutObject"}, o \in Objects}
           Two == {Ask2(s, d) : s \in Objects, d \in Objects}
<1>1. Operations = One \cup Two
  BY DEF Operations
<1>2. ASSUME op \in One PROVE op[i].object \in Objects
  <2>1. PICK a \in {"HeadObject", "PutObject"}, o \in Objects : op = Ask1(a, o)
    BY <1>2
  <2> QED
    BY <2>1
<1>3. ASSUME op \in Two PROVE op[i].object \in Objects
  <2> HIDE DEF Ask2
  <2>1. PICK s \in Objects, d \in Objects : op = Ask2(s, d)
    BY <1>3
  <2>2. op = << op[1], op[2] >> /\ op[1].object = s /\ op[2].object = d
    BY <2>1 DEF Ask2
  <2>3. Len(op) = 2
    BY <2>2
  <2>4. i = 1 \/ i = 2
    BY <2>3
  <2> QED
    BY <2>2, <2>4
<1> HIDE DEF One, Two
<1> QED
  BY <1>1, <1>2, <1>3

\* A request under way, of checks that exist.
UnderWay(r) ==
    /\ r.pc \in Pcs \ {"idle", "done"}
    /\ r.checks \in Operations /\ r.at \in 1..Len(r.checks)

\* When what a request has read is the same, it tracks the one as well as the
\* other.
LEMMA TracksSame ==
    ASSUME NEW c, NEW d, NEW r, UnderWay(r), Tracks(c, r), Stable(c, d, r.key),
           Requester(c, r.key) = Requester(d, r.key) \/ r.pc \in {"user", "account"},
           r.pc = "account" => UsersOf(d, r.key) = {},
           r.pc \notin BeforeOwner => Same(c, d, {"bucketOwner"}),
           r.pc \notin BeforeObject => Same(c, d, {"objectOwner"}),
           r.pc \notin BeforeBucket => Same(c, d, {"bucketPolicy"}),
           r.pc \notin BeforeNames => Same(c, d, {"user"}),
           r.pc = "group" /\ Gathered(c, r) => Gathered(d, r),
           r.pc = "policy" /\ Passed(c, r) => Passed(d, r)
    PROVE  Tracks(d, r)
<1>1. Root(c) = Root(d) /\ AccountInfo(c, r.key) = AccountInfo(d, r.key)
  BY InfoSame DEF Stable
<1>2. CheckOf(r).object \in Objects
  BY CheckIsCheck DEF UnderWay, CheckOf
<1>3. CASE r.pc = "user"
  BY <1>3 DEF Tracks
<1>4. CASE r.pc = "account"
  BY <1>1, <1>4 DEF Tracks
<1>5. CASE r.pc \notin {"user", "account"}
  <2>1. Requester(c, r.key) = Requester(d, r.key)
    BY <1>5
  <2>2. /\ Identified(c, r) => Identified(d, r)
        /\ Informed(c, r) => Informed(d, r)
        /\ Unprivileged(c, r) => Unprivileged(d, r)
    BY <1>1, <2>1 DEF Identified, Informed, Unprivileged
  <2>3. r.pc \notin BeforeOwner => HalfAsked(c, r) = HalfAsked(d, r)
    BY SameReads DEF HalfAsked
  <2>4. r.pc \notin BeforeObject /\ InQuestion(c, r) => InQuestion(d, r)
    <3>1. CASE r.pc \notin BeforeObject
      <4>1. /\ c[<<"bucketOwner">>] = d[<<"bucketOwner">>]
            /\ c[<<"objectOwner", CheckOf(r).object>>] = d[<<"objectOwner", CheckOf(r).object>>]
        BY <1>2, <3>1, SameReads DEF BeforeObject, BeforeOwner
      <4>2. Asked(c, r.key, CheckOf(r), r.context) = Asked(d, r.key, CheckOf(r), r.context)
        BY <1>1, <2>1, <4>1 DEF Asked
      <4> QED
        BY <2>2, <4>2 DEF InQuestion
    <3> QED
      BY <3>1
  <2>5. r.pc \notin BeforeBucket /\ Undecided(c, r) => Undecided(d, r)
    <3>1. CASE r.pc \notin BeforeBucket
      <4>1. c[<<"bucketPolicy">>] = d[<<"bucketPolicy">>] /\ r.pc \notin BeforeObject
        BY <3>1, SameReads DEF BeforeBucket
      <4> QED
        BY <2>4, <4>1 DEF Undecided
    <3> QED
      BY <3>1
  <2>6. r.pc \notin BeforeNames /\ Resolving(c, r) => Resolving(d, r) /\ Own(c, r) = Own(d, r)
    <3>1. CASE r.pc \notin BeforeNames
      <4>1. r.pc \notin BeforeBucket
        BY <3>1 DEF BeforeNames
      <4>2. HasUser(c, Holder(r)) => /\ HasUser(d, Holder(r))
                                     /\ UserRecord(c, Holder(r)) = UserRecord(d, Holder(r))
        BY <3>1, SameReads DEF HasUser
      <4> QED
        BY <2>5, <4>1, <4>2 DEF Resolving, Own, ParentPolicies
    <3> QED
      BY <3>1
  <2>7. CASE r.pc \in {"context", "classify", "bucketOwner"}
    BY <2>2, <2>7 DEF Tracks
  <2>8. CASE r.pc = "objectOwner"
    BY <2>2, <2>3, <2>8 DEF Tracks, BeforeOwner
  <2>9. CASE r.pc = "bucketPolicy"
    BY <2>4, <2>9 DEF Tracks, BeforeOwner, BeforeObject
  <2>10. CASE r.pc = "names"
    BY <2>5, <2>10 DEF Tracks, BeforeOwner, BeforeObject, BeforeBucket
  <2>11. CASE r.pc = "groups"
    BY <2>6, <2>11 DEF Tracks, BeforeOwner, BeforeObject, BeforeBucket, BeforeNames
  <2>12. CASE r.pc = "group"
    BY <2>6, <2>12 DEF Tracks, BeforeOwner, BeforeObject, BeforeBucket, BeforeNames
  <2>13. CASE r.pc = "policy"
    BY <2>5, <2>13 DEF Tracks, BeforeOwner, BeforeObject, BeforeBucket, BeforeNames
  <2> QED
    BY <1>5, <2>7, <2>8, <2>9, <2>10, <2>11, <2>12, <2>13 DEF UnderWay, Pcs
<1> QED
  BY <1>3, <1>4, <1>5

\* The names gathered so far depend on the groups behind the request.
LEMMA GatheredSame ==
    ASSUME NEW c, IsConfig(c), NEW d, NEW r, GroupsOf(c, Holder(r)) = GroupsOf(d, Holder(r)),
           Own(c, r) = Own(d, r), NEW k \in 0..Len(GroupsOf(c, Holder(r))),
           Behind(GroupsOf(c, Holder(r)), k, r.groups),
           r.names = Gather(Own(c, r), SubSeq(Lists(c, GroupsOf(c, Holder(r))), 1, k)),
           \A i \in 1..k : GroupPolicies(c, GroupsOf(c, Holder(r))[i]) =
                           GroupPolicies(d, GroupsOf(c, Holder(r))[i])
    PROVE  Gathered(d, r)
<1> DEFINE G == GroupsOf(c, Holder(r))
<1>1. G \in Seq(Groups) /\ Len(G) \in Nat /\ k \in 0..Len(G)
  BY GroupReads
<1>2. SubSeq(Lists(c, G), 1, k) = SubSeq(Lists(d, G), 1, k)
  <2>1. \A e \in {c, d} : SubSeq(Lists(e, G), 1, k) = [i \in 1..k |-> GroupPolicies(e, G[i])]
    <3> HIDE DEF G
    <3>1. 1..k \subseteq 1..Len(G)
      BY <1>1
    <3> QED
      BY <3>1 DEF Lists
  <2> QED
    BY <2>1
<1> QED
  BY <1>2 DEF Gathered

\* Neither entry of a group that is still to be read, nor of one that is not
\* in the list, has been read.
LEMMA Unread ==
    ASSUME NEW S, NEW list \in Seq(S), \A i, j \in DOMAIN list : list[i] = list[j] => i = j,
           NEW k, NEW rest, Behind(list, k, rest), NEW j \in DOMAIN rest
    PROVE  \A i \in 1..k : list[i] # rest[j]
<1>1. /\ k \in 0..Len(list) /\ Len(list) \in Nat /\ rest = SubSeq(list, k + 1, Len(list))
      /\ DOMAIN list = 1..Len(list)
  BY DEF Behind
<1>2. j \in 1..(Len(list) - k) /\ rest[j] = list[k + j]
  BY <1>1
<1>3. k + j \in DOMAIN list /\ \A i \in 1..k : i \in DOMAIN list /\ i # k + j
  BY <1>1, <1>2
<1> QED
  BY <1>2, <1>3

\* A request goes on as before when what changed is not ahead of it.
LEMMA Untouched ==
    ASSUME NEW c, NEW d, NEW x, But(c, d, x), NEW r, UnderWay(r), r.pc # "user", Tracks(c, r),
           r.pc = "group" => \A i \in DOMAIN r.groups : r.groups[i] \in Groups,
           x[1] = "bucketOwner" => r.pc \notin BeforeOwner,
           x[1] = "objectOwner" => r.pc \notin BeforeObject,
           x[1] = "bucketPolicy" => r.pc \notin BeforeBucket,
           x[1] = "user" => ~(r.pc \in BeforeNames /\ AccountInfo(c, r.key).sa),
           x[1] = "groups" => r.pc \notin BeforeGroups,
           x[1] = "group" => r.pc \notin BeforeGroups,
           x[1] = "group" /\ r.pc = "group" =>
             \A i \in DOMAIN r.groups : x # <<"group", r.groups[i]>>,
           x[1] = "policy" => r.pc \notin BeforePolicy,
           x[1] = "policy" => \A p \in PolicyNames : x # <<"policy", p>>
    PROVE  Follows(c, d, r)
<1>1. CASE r.pc # "policy"
  <2>1. r.pc \in BeforeOwner => Same(c, d, {"bucketOwner"})
    BY KindSame
  <2>2. r.pc \in BeforeObject => Same(c, d, {"objectOwner"})
    BY KindSame
  <2>3. r.pc \in BeforeBucket => Same(c, d, {"bucketPolicy"})
    BY KindSame
  <2>4. r.pc \in BeforeNames /\ AccountInfo(c, r.key).sa => Same(c, d, {"user"})
    BY KindSame
  <2>5. r.pc \in BeforeGroups => Same(c, d, {"groups", "group"})
    BY KindSame
  <2>6. ASSUME r.pc = "group", NEW i \in DOMAIN r.groups
        PROVE  GroupPolicies(c, r.groups[i]) = GroupPolicies(d, r.groups[i])
    <3>1. <<"group", r.groups[i]>> \in Entries /\ <<"group", r.groups[i]>>[1] = "group"
      BY <2>6, EntriesAssumption
    <3>2. x # <<"group", r.groups[i]>>
      BY <2>6, <3>1
    <3> QED
      BY <3>1, <3>2 DEF But, GroupPolicies
  <2>7. r.pc \in BeforePolicy => Same(c, d, {"policy"})
    BY KindSame
  <2>8. Ahead(c, d, r)
    BY <2>1, <2>2, <2>3, <2>4, <2>5, <2>6, <2>7 DEF Ahead
  <2> QED
    BY <1>1, <2>8 DEF Follows
<1>2. CASE r.pc = "policy"
  <2>1. ASSUME NEW p \in PolicyNames PROVE PolicyDocument(c, p) = PolicyDocument(d, p)
    <3>1. <<"policy", p>> \in Entries /\ <<"policy", p>>[1] = "policy"
      BY EntriesAssumption
    <3>2. x # <<"policy", p>>
      BY <3>1
    <3> QED
      BY <3>1, <3>2 DEF But, PolicyDocument
  <2> QED
    BY <1>2, <2>1 DEF Follows
<1> QED
  BY <1>1, <1>2

\* A change of users.
LEMMA UserChanged ==
    ASSUME NEW c, NEW d, NEW x, But(c, d, x), NEW r, UnderWay(r), Tracks(c, r),
           Stable(c, d, r.key), x[1] = "user",
           r.pc = "group" => \A i \in DOMAIN r.groups : r.groups[i] \in Groups
    PROVE  Follows(c, d, r) \/ Follows(d, d, r)
<1>1. CASE r.pc = "user"
  BY <1>1 DEF Follows, Tracks
<1>2. CASE r.pc # "user" /\ ~(r.pc \in BeforeNames /\ AccountInfo(c, r.key).sa)
  BY <1>2, Untouched
<1>3. CASE r.pc # "user" /\ r.pc \in BeforeNames /\ AccountInfo(c, r.key).sa
  <2>1. Requester(c, r.key) = Requester(d, r.key) /\ UsersOf(d, r.key) = {}
    BY <1>3, LentSame
  <2>2. r.pc \notin {"group", "policy"}
    BY <1>3 DEF BeforeNames, BeforeBucket, BeforeObject, BeforeOwner
  <2>3. /\ Same(c, d, {"bucketOwner"}) /\ Same(c, d, {"objectOwner"})
        /\ Same(c, d, {"bucketPolicy"})
    BY KindSame
  <2>4. Tracks(d, r)
    BY <1>3, <2>1, <2>2, <2>3, TracksSame
  <2> QED
    BY <2>4 DEF Follows
<1> QED
  BY <1>1, <1>2, <1>3

\* A change of owners or of the bucket policy.
LEMMA BucketChanged ==
    ASSUME NEW c, NEW d, NEW x, But(c, d, x), NEW r, UnderWay(r), Tracks(c, r),
           Stable(c, d, r.key), x[1] \in {"bucketOwner", "objectOwner", "bucketPolicy"},
           r.pc = "group" => \A i \in DOMAIN r.groups : r.groups[i] \in Groups
    PROVE  Follows(c, d, r) \/ Follows(d, d, r)
<1>1. Same(c, d, {"user"})
  BY KindSame
<1>2. Requester(c, r.key) = Requester(d, r.key) /\ UsersOf(c, r.key) = UsersOf(d, r.key)
  BY <1>1, RequesterSame, UsersSame
<1>3. r.pc = "account" => UsersOf(d, r.key) = {}
  BY <1>2 DEF Tracks
<1>4. CASE r.pc = "user"
  BY <1>4 DEF Follows, Tracks
<1>5. CASE r.pc # "user" /\ x[1] = "bucketOwner" /\ r.pc \in BeforeOwner
  <2>1. /\ Same(c, d, {"objectOwner"}) /\ Same(c, d, {"bucketPolicy"})
        /\ r.pc \notin {"group", "policy"}
    BY <1>5, KindSame DEF BeforeOwner
  <2>2. Tracks(d, r)
    BY <1>1, <1>2, <1>3, <1>5, <2>1, TracksSame
  <2> QED
    BY <2>2 DEF Follows
<1>6. CASE r.pc # "user" /\ x[1] = "objectOwner" /\ r.pc \in BeforeObject
  <2>1. /\ Same(c, d, {"bucketOwner"}) /\ Same(c, d, {"bucketPolicy"})
        /\ r.pc \notin {"group", "policy"}
    BY <1>6, KindSame DEF BeforeObject, BeforeOwner
  <2>2. Tracks(d, r)
    BY <1>1, <1>2, <1>3, <1>6, <2>1, TracksSame
  <2> QED
    BY <2>2 DEF Follows
<1>7. CASE r.pc # "user" /\ x[1] = "bucketPolicy" /\ r.pc \in BeforeBucket
  <2>1. /\ Same(c, d, {"bucketOwner"}) /\ Same(c, d, {"objectOwner"})
        /\ r.pc \notin {"group", "policy"}
    BY <1>7, KindSame DEF BeforeBucket, BeforeObject, BeforeOwner
  <2>2. Tracks(d, r)
    BY <1>1, <1>2, <1>3, <1>7, <2>1, TracksSame
  <2> QED
    BY <2>2 DEF Follows
<1>8. CASE /\ r.pc # "user"
           /\ x[1] = "bucketOwner" => r.pc \notin BeforeOwner
           /\ x[1] = "objectOwner" => r.pc \notin BeforeObject
           /\ x[1] = "bucketPolicy" => r.pc \notin BeforeBucket
  BY <1>8, Untouched
<1> QED
  BY <1>4, <1>5, <1>6, <1>7, <1>8

\* A change of the index of groups or of a group.
LEMMA GroupChanged ==
    ASSUME NEW c, IsConfig(c), NEW d, NEW x, But(c, d, x), NEW r, UnderWay(r), Tracks(c, r),
           Stable(c, d, r.key), x[1] \in {"groups", "group"},
           r.pc = "group" => \A i \in DOMAIN r.groups : r.groups[i] \in Groups
    PROVE  Follows(c, d, r) \/ Follows(d, d, r)
<1>1. /\ Same(c, d, {"user"}) /\ Same(c, d, {"bucketOwner"}) /\ Same(c, d, {"objectOwner"})
      /\ Same(c, d, {"bucketPolicy"})
  BY KindSame
<1>2. Requester(c, r.key) = Requester(d, r.key) /\ UsersOf(c, r.key) = UsersOf(d, r.key)
  BY <1>1, RequesterSame, UsersSame
<1>3. r.pc = "account" => UsersOf(d, r.key) = {}
  BY <1>2 DEF Tracks
<1>4. CASE r.pc \in BeforeGroups
  <2>1. r.pc \notin {"group", "policy"}
    BY <1>4 DEF BeforeGroups, BeforeNames, BeforeBucket, BeforeObject, BeforeOwner
  <2>2. Tracks(d, r)
    BY <1>1, <1>2, <1>3, <1>4, <2>1, TracksSame
  <2> QED
    BY <2>2 DEF Follows
<1>5. CASE r.pc \notin BeforeGroups /\
           ~(x[1] = "group" /\ r.pc = "group" /\
               \E i \in DOMAIN r.groups : x = <<"group", r.groups[i]>>)
  <2>1. r.pc # "user"
    BY <1>5 DEF BeforeGroups, BeforeNames, BeforeBucket, BeforeObject, BeforeOwner
  <2> QED
    BY <1>5, <2>1, Untouched
<1>6. ASSUME r.pc = "group", x[1] = "group",
             NEW j \in DOMAIN r.groups, x = <<"group", r.groups[j]>>
      PROVE  Follows(d, d, r)
  <2> DEFINE G == GroupsOf(c, Holder(r))
  <2>1. /\ G \in Seq(Groups) /\ Len(G) \in Nat /\ DOMAIN G = 1..Len(G)
        /\ \A i, k \in DOMAIN G : G[i] = G[k] => i = k
    BY GroupReads
  <2>2. G = GroupsOf(d, Holder(r))
    BY <1>6, KindSame, SameReads
  <2>3. Resolving(c, r) /\ Gathered(c, r)
    BY <1>6 DEF Tracks
  <2>4. PICK k \in 0..Len(G) :
          /\ Behind(G, k, r.groups)
          /\ r.names = Gather(Own(c, r), SubSeq(Lists(c, G), 1, k))
    BY <2>3 DEF Gathered
  <2>5. \A i \in 1..k : G[i] # r.groups[j] /\ G[i] \in Groups
    <3> HIDE DEF G
    <3>1. \A i \in 1..k : G[i] # r.groups[j]
      BY <2>1, <2>4, Unread
    <3>2. \A i \in 1..k : G[i] \in Groups
      BY <2>1
    <3> QED
      BY <3>1, <3>2
  <2>6. ASSUME NEW i \in 1..k PROVE GroupPolicies(c, G[i]) = GroupPolicies(d, G[i])
    <3> HIDE DEF G
    <3>1. <<"group", G[i]>> \in Entries /\ <<"group", G[i]>> # x
      BY <1>6, <2>5, EntriesAssumption
    <3> QED
      BY <3>1 DEF But, GroupPolicies
  <2>7. Own(c, r) = Own(d, r)
    BY <1>1, <2>3, SameReads DEF Own, ParentPolicies, Resolving, HasUser
  <2>8. Gathered(d, r)
    BY <2>2, <2>4, <2>6, <2>7, GatheredSame
  <2>9. Tracks(d, r)
    BY <1>1, <1>2, <1>3, <1>6, <2>8, TracksSame
  <2> QED
    BY <2>9 DEF Follows
<1> QED
  BY <1>4, <1>5, <1>6

\* A change of a policy: of one that is still to be read, of one that was read
\* and had no opinion before or has none now, or of one that will be read again.
LEMMA PolicyChanged ==
    ASSUME NEW c, IsConfig(c), NEW d, NEW x, But(c, d, x), NEW r, UnderWay(r), Tracks(c, r),
           Stable(c, d, r.key), x[1] = "policy",
           r.pc = "group" => \A i \in DOMAIN r.groups : r.groups[i] \in Groups
    PROVE  Follows(c, d, r) \/ Follows(d, d, r)
<1>1. /\ Same(c, d, {"user"}) /\ Same(c, d, {"bucketOwner"}) /\ Same(c, d, {"objectOwner"})
      /\ Same(c, d, {"bucketPolicy"}) /\ Same(c, d, {"groups"}) /\ Same(c, d, {"group"})
  BY KindSame
<1>2. Requester(c, r.key) = Requester(d, r.key) /\ UsersOf(c, r.key) = UsersOf(d, r.key)
  BY <1>1, RequesterSame, UsersSame
<1>3. r.pc = "account" => UsersOf(d, r.key) = {}
  BY <1>2 DEF Tracks
<1>4. CASE r.pc \in BeforeGroups
  <2>1. r.pc \notin {"group", "policy"}
    BY <1>4 DEF BeforeGroups, BeforeNames, BeforeBucket, BeforeObject, BeforeOwner
  <2>2. Tracks(d, r)
    BY <1>1, <1>2, <1>3, <1>4, <2>1, TracksSame
  <2> QED
    BY <2>2 DEF Follows
<1>5. CASE r.pc = "group"
  <2> DEFINE G == GroupsOf(c, Holder(r))
  <2>1. G \in Seq(Groups) /\ Len(G) \in Nat /\ G = GroupsOf(d, Holder(r))
    BY <1>1, GroupReads, SameReads
  <2>3. Resolving(c, r) /\ Gathered(c, r)
    BY <1>5 DEF Tracks
  <2>4. PICK k \in 0..Len(G) :
          /\ Behind(G, k, r.groups)
          /\ r.names = Gather(Own(c, r), SubSeq(Lists(c, G), 1, k))
    BY <2>3 DEF Gathered
  <2>5. \A i \in 1..k : GroupPolicies(c, G[i]) = GroupPolicies(d, G[i])
    <3> HIDE DEF G
    <3>1. \A i \in 1..k : G[i] \in Groups
      BY <2>1
    <3> QED
      BY <1>1, <3>1, SameReads
  <2>7. Own(c, r) = Own(d, r)
    BY <1>1, <2>3, SameReads DEF Own, ParentPolicies, Resolving, HasUser
  <2>8. Gathered(d, r)
    BY <2>1, <2>4, <2>5, <2>7, GatheredSame
  <2>9. Tracks(d, r)
    BY <1>1, <1>2, <1>3, <1>5, <2>8, TracksSame
  <2> QED
    BY <2>9 DEF Follows
<1>6. CASE r.pc = "policy" /\ \A p \in PolicyNames : x # <<"policy", p>>
  <2>1. r.pc # "user" /\ r.pc \notin BeforePolicy
    BY <1>6 DEF BeforePolicy, BeforeGroups, BeforeNames, BeforeBucket, BeforeObject, BeforeOwner
  <2> QED
    BY <1>6, <2>1, Untouched
<1>7. ASSUME r.pc = "policy", NEW p \in PolicyNames, x = <<"policy", p>>
      PROVE  Follows(c, d, r) \/ Follows(d, d, r)
  <2> DEFINE N == NamesOf(c, r)
  <2>1. Undecided(c, r) /\ Passed(c, r)
    BY <1>7 DEF Tracks
  <2>2. N = NamesOf(d, r)
    BY <1>1, AttachedSame DEF NamesOf
  <2>3. N \in Seq(PolicyNames) /\ Len(N) \in Nat
    <3>1. r.user.attached \in Seq(PolicyNames)
      BY <2>1, RequesterReads DEF Undecided, InQuestion, Unprivileged, Informed, Identified
    <3>2. N \in Seq(PolicyNames)
      BY <3>1, AttachedType DEF NamesOf
    <3> HIDE DEF N
    <3> QED
      BY <3>2
  <2>4. PICK k \in 0..Len(N) : /\ Behind(N, k, r.names)
                               /\ \A i \in 1..k : Opinion(c, N[i], r.q) = "Deny"
    BY <2>1 DEF Passed
  <2>5. \A i \in 1..k : N[i] \in PolicyNames
    <3> HIDE DEF N
    <3> QED
      BY <2>3
  <2>6. ASSUME NEW o \in PolicyNames, o # p PROVE PolicyDocument(c, o) = PolicyDocument(d, o)
    <3>1. <<"policy", o>> \in Entries /\ <<"policy", o>> # x
      BY <1>7, <2>6, EntriesAssumption
    <3> QED
      BY <3>1 DEF But, PolicyDocument
  <2>7. CASE Opinion(d, p, r.q) = "Deny" \/ \A i \in 1..k : N[i] # p
    <3>1. \A i \in 1..k : Opinion(d, N[i], r.q) = "Deny"
      <4> HIDE DEF N
      <4> QED
        BY <2>4, <2>5, <2>6, <2>7 DEF Opinion
    <3>2. Passed(d, r)
      BY <2>2, <2>4, <3>1 DEF Passed
    <3>3. Tracks(d, r)
      BY <1>1, <1>2, <1>3, <1>7, <3>2, TracksSame
    <3> QED
      BY <3>3 DEF Follows
  <2>8. CASE Opinion(d, p, r.q) # "Deny" /\ \E i \in 1..k : N[i] = p
    <3>1. Len(N) - Len(r.names) = k
      <4> HIDE DEF N
      <4> QED
        BY <2>3, <2>4 DEF Behind
    <3>2. Opinion(c, p, r.q) = "Deny"
      BY <2>4, <2>8
    <3>3. Reread(c, d, r, p)
      BY <1>7, <2>8, <3>1, <3>2 DEF Reread
    <3> QED
      BY <1>7, <2>6, <3>3 DEF Follows
  <2> QED
    BY <2>7, <2>8
<1> QED
  BY <1>4, <1>5, <1>6, <1>7 DEF UnderWay, Pcs, BeforeGroups, BeforeNames, BeforeBucket,
     BeforeObject, BeforeOwner

\* Whatever changes, the request goes on as in the configuration before the
\* change or in the one after it.
LEMMA Overtaken ==
    ASSUME NEW c, IsConfig(c), NEW d, NEW x, But(c, d, x), NEW r, UnderWay(r), Tracks(c, r),
           Stable(c, d, r.key)
    PROVE  Follows(c, d, r) \/ Follows(d, d, r)
<1>1. ASSUME r.pc = "group" PROVE \A i \in DOMAIN r.groups : r.groups[i] \in Groups
  <2> DEFINE G == GroupsOf(c, Holder(r))
  <2>1. Gathered(c, r)
    BY <1>1 DEF Tracks
  <2>2. G \in Seq(Groups) /\ Len(G) \in Nat
    BY GroupReads
  <2>3. PICK k \in 0..Len(G) : r.groups = SubSeq(G, k + 1, Len(G))
    BY <2>1 DEF Gathered, Behind
  <2>4. r.groups \in Seq(Groups)
    <3> HIDE DEF G
    <3> QED
      BY <2>2, <2>3
  <2> QED
    BY <2>4
<1>2. CASE x[1] \notin {"user", "bucketOwner", "objectOwner", "bucketPolicy", "groups",
                        "group", "policy"}
  <2>1. CASE r.pc = "user"
    BY <2>1 DEF Follows, Tracks
  <2>2. CASE r.pc # "user"
    BY <1>1, <1>2, <2>2, Untouched
  <2> QED
    BY <2>1, <2>2
<1> QED
  BY <1>1, <1>2, UserChanged, BucketChanged, GroupChanged, PolicyChanged

-----------------------------------------------------------------------------
(* A step *)

\* The request goes on with its check.
Kept(c) == req'.pc # "done" /\ req'.at = req.at /\ Follows(c, conf, req')

\* The check is decided, as at one moment.
Turned(c) ==
    /\ Unprivileged(c, req)
    /\ \E decision : /\ Decide(decision)
                     /\ \E e \in {c, conf} : Allows(e, req, req.at) <=> decision = "Allow"

\* The request is answered, whatever its checks.
Ended(c) ==
    /\ req'.pc = "done"
    /\ \/ req'.allowed = TRUE /\ \A i \in DOMAIN req.checks : Allows(c, req, i)
       \/ req'.allowed = FALSE /\ ~Allows(c, req, req.at)

Outcome(c) == Kept(c) \/ Turned(c) \/ Ended(c)

\* What is known when a step begins.
Underway(c) ==
    /\ DOMAIN req = Fields /\ req.admin = FALSE /\ UnderWay(req)
    /\ IsConfig(c) /\ IsConfig(conf) /\ Stable(c, conf, req.key)
    /\ Follows(c, conf, req)
    /\ req.pc \in {"user", "account", "context"} => req.key # Nobody

\* An identity is admitted that a configuration gives, or refused.
LEMMA AdmitKept ==
    ASSUME NEW c, Underway(c), req.key # Nobody, NEW user, user = Requester(c, req.key),
           Admit(user), c = conf \/ (req.pc # "policy" /\ Ahead(c, conf, req)),
           c = conf \/ req.pc \in BeforeOwner
    PROVE  Outcome(c)
<1>1. CASE user.id = Nobody
  <2>1. req'.pc = "done" /\ req'.allowed = FALSE
    BY <1>1 DEF Admit, Refuse, Underway, Fields
  <2>2. ~Allows(c, req, req.at)
    BY <1>1, AnswerIs DEF Allows
  <2> QED
    BY <2>1, <2>2 DEF Outcome, Ended
<1>2. CASE user.id # Nobody
  <2>1. /\ req'.pc = "context" /\ req'.user = user /\ req'.key = req.key /\ req'.at = req.at
        /\ req'.groups = req.groups
    BY <1>2 DEF Admit, Underway, Fields
  <2>2. Tracks(c, req')
    BY <1>2, <2>1 DEF Tracks, Identified
  <2>3. c = conf \/ Ahead(c, conf, req')
    BY <2>1 DEF Ahead, BeforeOwner, BeforeObject, BeforeBucket, BeforeNames, BeforeGroups,
                BeforePolicy
  <2>4. Follows(c, conf, req')
    BY <2>1, <2>2, <2>3 DEF Follows
  <2> QED
    BY <2>1, <2>4 DEF Outcome, Kept
<1> QED
  BY <1>1, <1>2

\* GetUserForAccessKey, its first half.
LEMMA LookUpUserKept ==
    ASSUME NEW c, Underway(c), LookUpUser
    PROVE  Outcome(c)
<1>1. req.pc = "user" /\ req.key # Nobody /\ c = conf
  BY DEF Underway, LookUpUser, At, Follows, Ahead
<1>2. CASE req.key = Root(conf)
  <2>1. Requester(c, req.key) = Administrator /\ Admit(Administrator)
    BY <1>1, <1>2 DEF LookUpUser, Requester
  <2> QED
    BY <1>1, <2>1, AdmitKept
<1>3. CASE req.key # Root(conf) /\ UsersOf(conf, req.key) # {}
  <2>1. /\ Requester(c, req.key) = UserIdentity(conf, req.key)
        /\ Admit(UserIdentity(conf, req.key))
    BY <1>1, <1>3 DEF LookUpUser, Requester
  <2> QED
    BY <1>1, <2>1, AdmitKept
<1>4. CASE req.key # Root(conf) /\ UsersOf(conf, req.key) = {}
  <2>1. req'.pc = "account" /\ req'.key = req.key /\ req'.at = req.at
    BY <1>4 DEF LookUpUser, Underway, Fields
  <2>2. Tracks(c, req')
    BY <1>1, <1>4, <2>1 DEF Tracks
  <2> QED
    BY <1>1, <2>1, <2>2 DEF Follows, Outcome, Kept
<1> QED
  BY <1>2, <1>3, <1>4

\* GetUserForAccessKey, its second half.
LEMMA LookUpAccountKept ==
    ASSUME NEW c, Underway(c), LookUpAccount
    PROVE  Outcome(c)
<1>1. /\ req.pc = "account" /\ req.key # Nobody /\ UsersOf(c, req.key) = {}
      /\ req.key # Root(c)
  BY DEF Underway, LookUpAccount, At, Follows, Tracks
<1>2. AccountIdentity(conf, req.key) = AccountIdentity(c, req.key)
  BY DEF Underway, Stable, AccountIdentity
<1>3. AccountIdentity(conf, req.key) = Requester(c, req.key)
  BY <1>1, <1>2 DEF Requester
<1>4. Admit(AccountIdentity(conf, req.key))
  BY DEF LookUpAccount
<1>5. c = conf \/ (req.pc # "policy" /\ Ahead(c, conf, req))
  BY <1>1 DEF Underway, Follows
<1>6. req.pc \in BeforeOwner
  BY <1>1 DEF BeforeOwner
<1> QED
  BY <1>1, <1>3, <1>4, <1>5, <1>6, AdmitKept

\* withSAContext.
LEMMA AddContextKept ==
    ASSUME NEW c, Underway(c), AddContext
    PROVE  Outcome(c)
<1>1. req.pc = "context" /\ Identified(c, req) /\ (c = conf \/ Ahead(c, conf, req))
  BY DEF Underway, AddContext, At, Follows, Tracks
<1>2. /\ req'.pc = "classify" /\ req'.key = req.key /\ req'.user = req.user
      /\ req'.at = req.at /\ req'.info = AccountInfo(conf, req.key)
  BY DEF AddContext, Underway, Fields
<1>3. AccountInfo(conf, req.key) = AccountInfo(c, req.key)
  BY InfoSame DEF Underway
<1>4. Tracks(c, req')
  BY <1>1, <1>2, <1>3 DEF Tracks, Identified, Informed
<1>5. c = conf \/ Ahead(c, conf, req')
  BY <1>1, <1>2 DEF Ahead, BeforeOwner, BeforeObject, BeforeBucket, BeforeNames, BeforeGroups,
                    BeforePolicy
<1> QED
  BY <1>2, <1>4, <1>5 DEF Follows, Outcome, Kept

\* The administrator is allowed everything.
LEMMA ClassifyKept ==
    ASSUME NEW c, Underway(c), Classify
    PROVE  Outcome(c)
<1>1. /\ req.pc = "classify" /\ Informed(c, req) /\ (c = conf \/ Ahead(c, conf, req))
      /\ Root(c) = Root(conf)
  BY DEF Underway, Classify, At, Follows, Tracks, Stable
<1>2. CASE req.key = Root(conf)
  <2>1. req'.pc = "done" /\ req'.allowed = TRUE
    BY <1>2 DEF Classify, Underway, Fields
  <2>2. \A i \in DOMAIN req.checks : Allows(c, req, i)
    BY <1>1, <1>2, AnswerIs DEF Allows, Informed, Identified
  <2> QED
    BY <2>1, <2>2 DEF Outcome, Ended
<1>3. CASE req.key # Root(conf)
  <2>1. /\ req'.pc = "bucketOwner" /\ req'.key = req.key /\ req'.user = req.user
        /\ req'.at = req.at /\ req'.info = req.info
    BY <1>3 DEF Classify, Underway, Fields
  <2>2. Tracks(c, req')
    BY <1>1, <1>3, <2>1 DEF Tracks, Identified, Informed, Unprivileged
  <2>3. c = conf \/ Ahead(c, conf, req')
    BY <1>1, <2>1 DEF Ahead, BeforeOwner, BeforeObject, BeforeBucket, BeforeNames, BeforeGroups,
                      BeforePolicy
  <2> QED
    BY <2>1, <2>2, <2>3 DEF Follows, Outcome, Kept
<1> QED
  BY <1>2, <1>3

\* fetchOwnership.
LEMMA FetchBucketOwnerKept ==
    ASSUME NEW c, Underway(c), FetchBucketOwner
    PROVE  Outcome(c)
<1>1. req.pc = "bucketOwner" /\ Unprivileged(c, req) /\ (c = conf \/ Ahead(c, conf, req))
  BY DEF Underway, FetchBucketOwner, At, Follows, Tracks
<1>2. /\ req'.pc = "objectOwner" /\ req'.key = req.key /\ req'.user = req.user
      /\ req'.at = req.at /\ req'.info = req.info /\ req'.checks = req.checks
      /\ req'.context = req.context
      /\ req'.q = [Ask(req.key, req.user, req.info, req.admin, Check, req.context)
                     EXCEPT !.bucketOwner = conf[<<"bucketOwner">>]]
  BY DEF FetchBucketOwner, Underway, Fields
<1>3. c[<<"bucketOwner">>] = conf[<<"bucketOwner">>]
  BY <1>1, SameReads DEF Ahead, BeforeOwner
<1>4. req'.q = HalfAsked(c, req')
  BY <1>2, <1>3 DEF HalfAsked, CheckOf, Check, Underway
<1>5. Unprivileged(c, req')
  BY <1>1, <1>2 DEF Identified, Informed, Unprivileged
<1>6. Tracks(c, req')
  BY <1>2, <1>4, <1>5 DEF Tracks
<1>7. c = conf \/ Ahead(c, conf, req')
  BY <1>1, <1>2 DEF Ahead, BeforeOwner, BeforeObject, BeforeBucket, BeforeNames, BeforeGroups,
                    BeforePolicy
<1> QED
  BY <1>2, <1>6, <1>7 DEF Follows, Outcome, Kept

\* fetchOwnership, of the object.
LEMMA FetchObjectOwnerKept ==
    ASSUME NEW c, Underway(c), FetchObjectOwner
    PROVE  Outcome(c)
<1>1. /\ req.pc = "objectOwner" /\ Unprivileged(c, req) /\ req.q = HalfAsked(c, req)
      /\ c = conf \/ Ahead(c, conf, req)
  BY DEF Underway, FetchObjectOwner, At, Follows, Tracks
<1>2. /\ req'.pc = "bucketPolicy" /\ req'.key = req.key /\ req'.user = req.user
      /\ req'.at = req.at /\ req'.info = req.info /\ req'.checks = req.checks
      /\ req'.context = req.context
      /\ req'.q = [req.q EXCEPT !.objectOwner = conf[<<"objectOwner", Check.object>>]]
  BY DEF FetchObjectOwner, Underway, Fields
<1>3. CheckOf(req).object \in Objects /\ Check = CheckOf(req)
  BY CheckIsCheck DEF Underway, UnderWay, CheckOf, Check
<1>4. c[<<"objectOwner", Check.object>>] = conf[<<"objectOwner", Check.object>>]
  BY <1>1, <1>3, SameReads DEF Ahead, BeforeObject, BeforeOwner
<1>5. Unprivileged(c, req') /\ CheckOf(req') = CheckOf(req)
  BY <1>1, <1>2 DEF Identified, Informed, Unprivileged, CheckOf
<1>6. req'.q = Asked(c, req'.key, CheckOf(req'), req'.context)
  <2>1. /\ req.user = Requester(c, req.key) /\ req.info = AccountInfo(c, req.key)
        /\ (req.key = Root(c)) = FALSE
    BY <1>1 DEF Identified, Informed, Unprivileged
  <2>2. Asked(c, req.key, CheckOf(req), req.context) =
          [Ask(req.key, req.user, req.info, FALSE, CheckOf(req), req.context)
             EXCEPT !.bucketOwner = c[<<"bucketOwner">>],
                    !.objectOwner = c[<<"objectOwner", CheckOf(req).object>>]]
    BY <2>1 DEF Asked
  <2>3. req'.q = [HalfAsked(c, req) EXCEPT !.objectOwner = c[<<"objectOwner", CheckOf(req).object>>]]
    BY <1>1, <1>2, <1>3, <1>4
  <2>4. req'.q = Asked(c, req.key, CheckOf(req), req.context)
    BY <2>2, <2>3 DEF HalfAsked, Ask
  <2> QED
    BY <1>2, <1>5, <2>4
<1>7. Tracks(c, req')
  BY <1>2, <1>5, <1>6 DEF Tracks, InQuestion
<1>8. c = conf \/ Ahead(c, conf, req')
  BY <1>1, <1>2 DEF Ahead, BeforeOwner, BeforeObject, BeforeBucket, BeforeNames, BeforeGroups,
                    BeforePolicy
<1> QED
  BY <1>2, <1>7, <1>8 DEF Follows, Outcome, Kept

\* The bucket policy, and the embedded policy of an account.
LEMMA ConsultBucketPolicyKept ==
    ASSUME NEW c, Underway(c), ConsultBucketPolicy
    PROVE  Outcome(c)
<1> DEFINE bucket == CheckBucketPolicy(c[<<"bucketPolicy">>], req.q)
<1>1. /\ req.pc = "bucketPolicy" /\ InQuestion(c, req) /\ (c = conf \/ Ahead(c, conf, req))
  BY DEF Underway, ConsultBucketPolicy, At, Follows, Tracks
<1>2. c[<<"bucketPolicy">>] = conf[<<"bucketPolicy">>]
  BY <1>1, SameReads DEF Ahead, BeforeBucket
<1>3. /\ req.q = Asked(c, req.key, CheckOf(req), req.context)
      /\ req.info = AccountInfo(c, req.key) /\ req.key # Root(c)
      /\ req.key = Nobody \/ Requester(c, req.key).id # Nobody
  BY <1>1 DEF InQuestion, Unprivileged, Informed, Identified
<1>4. bucket = EvaluatePolicy(c[<<"bucketPolicy">>], req.q)
  <2>1. req.q.resource # ServiceLevel
    BY <1>3 DEF Asked, Ask, ServiceLevel
  <2> QED
    BY <2>1 DEF CheckBucketPolicy
<1> HIDE DEF bucket
<1>5. CASE bucket # "Deny" \/ req.key = Nobody
  <2>1. Decide(bucket)
    BY <1>2, <1>5 DEF ConsultBucketPolicy, bucket
  <2>2. Allows(c, req, req.at) <=> bucket = "Allow"
    BY <1>3, <1>4, <1>5, AnswerIs DEF Allows, CheckOf
  <2> QED
    BY <1>1, <2>1, <2>2 DEF Outcome, Turned, InQuestion
<1>6. CASE bucket = "Deny" /\ req.key # Nobody /\ req.info.override
  <2>1. Decide(EvaluatePolicy(req.info.embedded, req.q))
    BY <1>2, <1>6 DEF ConsultBucketPolicy, bucket
  <2>2. Allows(c, req, req.at) <=> EvaluatePolicy(req.info.embedded, req.q) = "Allow"
    BY <1>3, <1>4, <1>6, AnswerIs DEF Allows, CheckOf
  <2> QED
    BY <1>1, <2>1, <2>2 DEF Outcome, Turned, InQuestion
<1>7. CASE bucket = "Deny" /\ req.key # Nobody /\ ~req.info.override
  <2>1. /\ req'.pc = "names" /\ req'.key = req.key /\ req'.user = req.user
        /\ req'.at = req.at /\ req'.info = req.info /\ req'.checks = req.checks
        /\ req'.context = req.context /\ req'.q = req.q
    BY <1>2, <1>7 DEF ConsultBucketPolicy, bucket, Underway, Fields
  <2>2. Undecided(c, req')
    BY <1>1, <1>7, <2>1
       DEF bucket, Undecided, InQuestion, Unprivileged, Informed, Identified, CheckOf
  <2>3. Tracks(c, req')
    BY <2>1, <2>2 DEF Tracks
  <2>4. c = conf \/ Ahead(c, conf, req')
    BY <1>1, <2>1 DEF Ahead, BeforeOwner, BeforeObject, BeforeBucket, BeforeNames, BeforeGroups,
                      BeforePolicy
  <2> QED
    BY <2>1, <2>3, <2>4 DEF Follows, Outcome, Kept
<1> QED
  BY <1>5, <1>6, <1>7

\* What stays with the request while its policies are resolved.
LEMMA StillUndecided ==
    ASSUME NEW c, NEW r, NEW s, Undecided(c, r),
           s.key = r.key, s.user = r.user, s.info = r.info, s.checks = r.checks,
           s.at = r.at, s.context = r.context, s.q = r.q
    PROVE  /\ Undecided(c, s) /\ Holder(s) = Holder(r) /\ Own(c, s) = Own(c, r)
           /\ Resolving(c, r) => Resolving(c, s)
           /\ \A e : NamesOf(e, s) = NamesOf(e, r)
<1>1. Undecided(c, s)
  BY DEF Undecided, InQuestion, Unprivileged, Informed, Identified, CheckOf
<1>2. Holder(s) = Holder(r)
  BY DEF Holder
<1> QED
  BY <1>1, <1>2 DEF Own, Resolving, NamesOf

\* The names gathered at the end are those that are attached.
LEMMA ResolvedNames ==
    ASSUME NEW c, NEW r, Resolving(c, r)
    PROVE  NamesOf(c, r) = Gather(Own(c, r), Lists(c, GroupsOf(c, Holder(r))))
BY DEF Resolving, NamesOf, Attached, Own, Holder, Lists

\* The names of the user, or of the parent of the account.
LEMMA ResolveNamesKept ==
    ASSUME NEW c, Underway(c), ResolveNames
    PROVE  Outcome(c)
<1>1. req.pc = "names" /\ Undecided(c, req) /\ (c = conf \/ Ahead(c, conf, req))
  BY DEF Underway, ResolveNames, At, Follows, Tracks
<1>2. req.info = AccountInfo(c, req.key)
  BY <1>1 DEF Undecided, InQuestion, Unprivileged, Informed
<1>3. req.info.sa =>
        /\ HasUser(c, Holder(req)) <=> HasUser(conf, Holder(req))
        /\ HasUser(c, Holder(req)) =>
             ParentPolicies(c, Holder(req)) = ParentPolicies(conf, Holder(req))
  <2>1. ASSUME req.info.sa PROVE c = conf \/ Same(c, conf, {"user"})
    BY <1>1, <1>2, <2>1 DEF Ahead, BeforeNames
  <2> QED
    BY <2>1, SameReads DEF HasUser, ParentPolicies
<1>4. CASE req.info.sa /\ ~HasUser(conf, Holder(req))
  <2>1. /\ req'.pc = "policy" /\ req'.key = req.key /\ req'.user = req.user
        /\ req'.at = req.at /\ req'.info = req.info /\ req'.checks = req.checks
        /\ req'.context = req.context /\ req'.q = req.q /\ req'.names = << >>
    BY <1>4 DEF ResolveNames, Holder, Underway, Fields
  <2>2. Undecided(c, req') /\ NamesOf(c, req') = NamesOf(c, req)
    BY <1>1, <2>1, StillUndecided
  <2>3. NamesOf(c, req) = << >>
    BY <1>3, <1>4 DEF NamesOf, Attached, Holder
  <2>4. Passed(c, req')
    <3>1. Len(<< >>) = 0 /\ 0 \in 0..0 /\ SubSeq(<< >>, 1, 0) = << >> /\ 1..0 = {}
      OBVIOUS
    <3>2. Behind(<< >>, 0, << >>)
      BY <3>1 DEF Behind
    <3> QED
      BY <2>1, <2>2, <2>3, <3>1, <3>2 DEF Passed
  <2>5. Tracks(c, req')
    BY <2>1, <2>2, <2>4 DEF Tracks
  <2>6. c = conf \/ \A p \in PolicyNames : PolicyDocument(c, p) = PolicyDocument(conf, p)
    BY <1>1, SameReads DEF Ahead, BeforePolicy, BeforeGroups, BeforeNames
  <2> QED
    BY <2>1, <2>5, <2>6 DEF Follows, Outcome, Kept
<1>5. CASE ~(req.info.sa /\ ~HasUser(conf, Holder(req)))
  <2>1. /\ req'.pc = "groups" /\ req'.key = req.key /\ req'.user = req.user
        /\ req'.at = req.at /\ req'.info = req.info /\ req'.checks = req.checks
        /\ req'.context = req.context /\ req'.q = req.q
        /\ req'.names = IF req.info.sa THEN ParentPolicies(conf, Holder(req))
                        ELSE req.user.attached
    BY <1>5 DEF ResolveNames, Holder, Underway, Fields
  <2>2. Undecided(c, req') /\ Holder(req') = Holder(req)
    BY <1>1, <2>1, StillUndecided
  <2>3. Resolving(c, req')
    BY <1>3, <1>5, <2>1, <2>2 DEF Resolving
  <2>4. req'.names = Own(c, req')
    BY <1>3, <1>5, <2>1, <2>2 DEF Own
  <2>5. Tracks(c, req')
    BY <2>1, <2>3, <2>4 DEF Tracks
  <2>6. c = conf \/ Ahead(c, conf, req')
    BY <1>1, <2>1 DEF Ahead, BeforeOwner, BeforeObject, BeforeBucket, BeforeNames, BeforeGroups,
                      BeforePolicy
  <2> QED
    BY <2>1, <2>5, <2>6 DEF Follows, Outcome, Kept
<1> QED
  BY <1>4, <1>5

\* The groups in the index.
LEMMA ResolveGroupsKept ==
    ASSUME NEW c, Underway(c), ResolveGroups
    PROVE  Outcome(c)
<1> DEFINE G == GroupsOf(c, Holder(req))
<1>1. /\ req.pc = "groups" /\ Resolving(c, req) /\ req.names = Own(c, req)
      /\ c = conf \/ Ahead(c, conf, req)
  BY DEF Underway, ResolveGroups, At, Follows, Tracks
<1>2. c = conf \/ (Same(c, conf, {"groups"}) /\ Same(c, conf, {"group"}))
  BY <1>1, SameFewer DEF Ahead, BeforeGroups
<1>3. G = GroupsOf(conf, Holder(req)) /\ G \in Seq(Groups) /\ Len(G) \in Nat
  BY <1>2, SameReads, GroupReads DEF Underway
<1>4. /\ req'.pc = "group" /\ req'.key = req.key /\ req'.user = req.user
      /\ req'.at = req.at /\ req'.info = req.info /\ req'.checks = req.checks
      /\ req'.context = req.context /\ req'.q = req.q /\ req'.names = req.names
      /\ req'.groups = G
  BY <1>3 DEF ResolveGroups, Holder, Underway, Fields
<1>5. Resolving(c, req') /\ Holder(req') = Holder(req) /\ Own(c, req') = Own(c, req)
  BY <1>1, <1>4, StillUndecided DEF Resolving
<1>6. Gathered(c, req')
  <2>1. 0 \in 0..Len(G) /\ SubSeq(G, 1, Len(G)) = G
    <3> HIDE DEF G
    <3> QED
      BY <1>3
  <2>2. Behind(G, 0, G)
    BY <2>1 DEF Behind
  <2>3. SubSeq(Lists(c, G), 1, 0) = << >>
    <3> HIDE DEF G
    <3>1. Lists(c, G) \in Seq(Seq(PolicyNames))
      BY <1>3, ListsType DEF Underway
    <3> QED
      BY <3>1
  <2>4. req'.names = Gather(Own(c, req'), SubSeq(Lists(c, G), 1, 0))
    BY <1>1, <1>4, <1>5, <2>3, GatherNone
  <2> QED
    BY <1>4, <1>5, <2>1, <2>2, <2>4 DEF Gathered
<1>7. Tracks(c, req')
  BY <1>4, <1>5, <1>6 DEF Tracks
<1>8. c = conf \/ Ahead(c, conf, req')
  <2>1. \A i \in DOMAIN req'.groups : req'.groups[i] \in Groups
    <3> HIDE DEF G
    <3> QED
      BY <1>3, <1>4
  <2>2. c = conf \/ \A i \in DOMAIN req'.groups :
                      GroupPolicies(c, req'.groups[i]) = GroupPolicies(conf, req'.groups[i])
    BY <1>2, <2>1, SameReads
  <2> HIDE DEF G
  <2> QED
    BY <1>1, <1>4, <2>2 DEF Ahead, BeforeOwner, BeforeObject, BeforeBucket, BeforeNames,
                            BeforeGroups, BeforePolicy
<1> QED
  BY <1>4, <1>7, <1>8 DEF Follows, Outcome, Kept

\* One group after the other.
LEMMA ResolveGroupKept ==
    ASSUME NEW c, Underway(c), ResolveGroup
    PROVE  Outcome(c)
<1> DEFINE G == GroupsOf(c, Holder(req))
           L == Lists(c, G)
<1>1. /\ req.pc = "group" /\ Resolving(c, req) /\ Gathered(c, req)
      /\ c = conf \/ Ahead(c, conf, req)
  BY DEF Underway, ResolveGroup, At, Follows, Tracks
<1>2. /\ G \in Seq(Groups) /\ Len(G) \in Nat
      /\ L \in Seq(Seq(PolicyNames)) /\ Len(L) = Len(G)
      /\ \A i \in 1..Len(G) : L[i] = GroupPolicies(c, G[i])
  BY GroupReads, ListsType DEF Underway
<1>3. PICK k \in 0..Len(G) : /\ Behind(G, k, req.groups)
                             /\ req.names = Gather(Own(c, req), SubSeq(L, 1, k))
  BY <1>1 DEF Gathered
<1>4. req.groups = SubSeq(G, k + 1, Len(G)) /\ k \in 0..Len(G)
  BY <1>3 DEF Behind
<1>5. CASE req.groups = << >>
  <2>1. /\ req'.pc = "policy" /\ req'.key = req.key /\ req'.user = req.user
        /\ req'.at = req.at /\ req'.info = req.info /\ req'.checks = req.checks
        /\ req'.context = req.context /\ req'.q = req.q /\ req'.names = req.names
    BY <1>5 DEF ResolveGroup, Underway, Fields
  <2>2. Undecided(c, req') /\ NamesOf(c, req') = NamesOf(c, req)
    BY <1>1, <2>1, StillUndecided DEF Resolving
  <2>3. k = Len(G) /\ SubSeq(L, 1, k) = L
    <3> HIDE DEF G, L
    <3>1. k = Len(G)
      BY <1>2, <1>4, <1>5
    <3> QED
      BY <1>2, <3>1
  <2>4. req'.names = NamesOf(c, req)
    BY <1>1, <1>3, <2>1, <2>3, ResolvedNames
  <2>5. NamesOf(c, req) \in Seq(PolicyNames)
    <3>1. req.user.attached \in Seq(PolicyNames)
      BY <1>1, RequesterReads
         DEF Underway, Resolving, Undecided, InQuestion, Unprivileged, Informed, Identified
    <3> QED
      BY <3>1, AttachedType DEF NamesOf, Underway
  <2>6. Passed(c, req')
    <3> DEFINE N == NamesOf(c, req)
    <3>1. N \in Seq(PolicyNames)
      BY <2>5
    <3> HIDE DEF N
    <3>2. 0 \in 0..Len(N) /\ SubSeq(N, 0 + 1, Len(N)) = N /\ 1..0 = {}
      BY <3>1
    <3>3. Behind(N, 0, req'.names)
      BY <2>4, <3>2 DEF Behind, N
    <3> QED
      BY <2>2, <3>2, <3>3 DEF Passed, N
  <2>7. Tracks(c, req')
    BY <2>1, <2>2, <2>6 DEF Tracks
  <2>8. c = conf \/ \A p \in PolicyNames : PolicyDocument(c, p) = PolicyDocument(conf, p)
    BY <1>1, SameReads DEF Ahead, BeforePolicy
  <2> QED
    BY <2>1, <2>7, <2>8 DEF Follows, Outcome, Kept
<1>6. CASE req.groups # << >>
  <2> DEFINE g == GroupPolicies(conf, Head(req.groups))
  <2>1. /\ req'.pc = "group" /\ req'.key = req.key /\ req'.user = req.user
        /\ req'.at = req.at /\ req'.info = req.info /\ req'.checks = req.checks
        /\ req'.context = req.context /\ req'.q = req.q
        /\ req'.groups = Tail(req.groups) /\ req'.names = req.names \o g
    BY <1>1, <1>6 DEF ResolveGroup, Underway, Fields
  <2>2. Resolving(c, req') /\ Holder(req') = Holder(req) /\ Own(c, req') = Own(c, req)
    BY <1>1, <2>1, StillUndecided DEF Resolving
  <2>3. /\ k + 1 \in 0..Len(G) /\ k + 1 \in 1..Len(G) /\ Head(req.groups) = G[k + 1]
        /\ 1 \in DOMAIN req.groups /\ req.groups[1] = G[k + 1]
        /\ Tail(req.groups) = SubSeq(G, (k + 1) + 1, Len(G))
    <3> HIDE DEF G, L
    <3>1. k < Len(G)
      BY <1>2, <1>4, <1>6
    <3> QED
      BY <1>2, <1>4, <3>1
  <2>4. g = L[k + 1]
    <3>1. c = conf \/ GroupPolicies(c, req.groups[1]) = GroupPolicies(conf, req.groups[1])
      BY <1>1, <2>3 DEF Ahead
    <3> HIDE DEF G, L
    <3> QED
      BY <1>2, <2>3, <3>1 DEF L
  <2>5. SubSeq(L, 1, k + 1) = Append(SubSeq(L, 1, k), L[k + 1]) /\ L[k + 1] \in Seq(PolicyNames)
        /\ SubSeq(L, 1, k) \in Seq(Seq(PolicyNames))
    <3> HIDE DEF G, L
    <3>1. L[k + 1] \in Seq(PolicyNames) /\ SubSeq(L, 1, k) \in Seq(Seq(PolicyNames))
      BY <1>2, <1>3, <2>3
    <3>2. k + 1 \in 1..Len(L) + 1 /\ 1 \in 1..Len(L) + 1 /\ 1 <= k + 1 /\ k + 1 <= Len(L)
      BY <1>2, <1>3, <2>3
    <3>3. SubSeq(L, 1, k + 1) = Append(SubSeq(L, 1, k), L[k + 1])
      <4> DEFINE A == SubSeq(L, 1, k + 1)
                 B == Append(SubSeq(L, 1, k), L[k + 1])
      <4>1. A \in Seq(Seq(PolicyNames)) /\ Len(A) = k + 1
        BY <1>2, <1>3, <2>3
      <4>2. B \in Seq(Seq(PolicyNames)) /\ Len(B) = k + 1
        BY <1>2, <1>3, <2>3, <3>1
      <4>3. ASSUME NEW i \in 1..(k + 1) PROVE A[i] = B[i]
        BY <1>2, <1>3, <2>3, <3>1
      <4> HIDE DEF A, B
      <4> QED
        BY <1>3, <4>1, <4>2, <4>3, SeqEqual
    <3> QED
      BY <3>1, <3>3
  <2>6. req'.names = Gather(Own(c, req), SubSeq(L, 1, k + 1))
    <3> DEFINE S == SubSeq(L, 1, k)
               e == L[k + 1]
               own == Own(c, req)
    <3> HIDE DEF G, L, g
    <3>1. S \in Seq(Seq(PolicyNames)) /\ e \in Seq(PolicyNames)
      BY <2>5
    <3>2. Gather(own, Append(S, e)) = Gather(own, S) \o e
      <4> HIDE DEF S, e, own
      <4> QED
        BY <3>1, GatherOneMore
    <3>3. req'.names = Gather(own, S) \o e
      BY <1>3, <2>1, <2>4
    <3> QED
      BY <2>5, <3>2, <3>3
  <2>7. Behind(G, k + 1, req'.groups)
    BY <2>1, <2>3 DEF Behind
  <2>8. Gathered(c, req')
    BY <2>2, <2>3, <2>6, <2>7 DEF Gathered
  <2>9. Tracks(c, req')
    BY <2>1, <2>2, <2>8 DEF Tracks
  <2>10. c = conf \/ Ahead(c, conf, req')
    <3>1. \A i \in DOMAIN req'.groups :
            i + 1 \in DOMAIN req.groups /\ req'.groups[i] = req.groups[i + 1]
      <4> HIDE DEF G, L
      <4> QED
        BY <1>2, <1>4, <1>6, <2>1
    <3>2. c = conf \/ \A i \in DOMAIN req'.groups :
                        GroupPolicies(c, req'.groups[i]) = GroupPolicies(conf, req'.groups[i])
      BY <1>1, <3>1 DEF Ahead
    <3> HIDE DEF G, L, g
    <3> QED
      BY <1>1, <2>1, <3>2 DEF Ahead, BeforeOwner, BeforeObject, BeforeBucket, BeforeNames,
                              BeforeGroups, BeforePolicy
  <2> QED
    BY <2>1, <2>9, <2>10 DEF Follows, Outcome, Kept
<1> QED
  BY <1>5, <1>6

\* What a configuration answers when its bucket policy does not decide.
LEMMA UndecidedAnswer ==
    ASSUME NEW c, IsConfig(c), NEW r, Undecided(c, r)
    PROVE  LET N == NamesOf(c, r)
               docs == Consulted(c, r.key)
               named == EvaluateNamed(docs, r.q)
           IN /\ Allows(c, r, r.at) <=>
                   IF named # "Deny" THEN named = "Allow" ELSE CheckOwnership(r.q)
              /\ N \in Seq(PolicyNames) /\ Len(N) \in Nat /\ DOMAIN docs = 1..Len(N)
              /\ \A i \in 1..Len(N) : N[i] \in PolicyNames
              /\ \A i \in 1..Len(N) : EvaluatePolicy(docs[i], r.q) = Opinion(c, N[i], r.q)
<1> DEFINE N == NamesOf(c, r)
           docs == Consulted(c, r.key)
           named == EvaluateNamed(docs, r.q)
<1>1. /\ r.q = Asked(c, r.key, CheckOf(r), r.context)
      /\ r.info = AccountInfo(c, r.key) /\ r.user = Requester(c, r.key) /\ r.key # Root(c)
      /\ r.key # Nobody /\ Requester(c, r.key).id # Nobody /\ ~r.info.override
      /\ CheckBucketPolicy(c[<<"bucketPolicy">>], r.q) = "Deny"
  BY DEF Undecided, InQuestion, Unprivileged, Informed, Identified
<1>2. EvaluatePolicy(c[<<"bucketPolicy">>], r.q) = "Deny"
  <2>1. r.q.resource # ServiceLevel
    BY <1>1 DEF Asked, Ask, ServiceLevel
  <2> QED
    BY <1>1, <2>1 DEF CheckBucketPolicy
<1>3. Allows(c, r, r.at) <=> IF named # "Deny" THEN named = "Allow" ELSE CheckOwnership(r.q)
  BY <1>1, <1>2, AnswerIs DEF Allows, CheckOf
<1>4. N = Attached(c, Requester(c, r.key), AccountInfo(c, r.key))
  BY <1>1 DEF NamesOf
<1>5. /\ N \in Seq(PolicyNames) /\ Len(N) \in Nat /\ DOMAIN docs = 1..Len(N)
      /\ \A i \in 1..Len(N) : docs[i] = PolicyDocument(c, N[i])
  BY <1>4, ConsultedIs
<1> HIDE DEF N, docs, named
<1>6. \A i \in 1..Len(N) : N[i] \in PolicyNames
  BY <1>5
<1>7. \A i \in 1..Len(N) : EvaluatePolicy(docs[i], r.q) = Opinion(c, N[i], r.q)
  BY <1>5 DEF Opinion
<1> QED
  BY <1>3, <1>5, <1>6, <1>7 DEF N, docs, named

\* One more of a list is behind.
LEMMA BehindOneMore ==
    ASSUME NEW S, NEW list \in Seq(S), NEW k, NEW rest, Behind(list, k, rest)
    PROVE  /\ k \in 0..Len(list) /\ Len(rest) = Len(list) - k
           /\ rest = << >> => k = Len(list)
           /\ rest # << >> => /\ k + 1 \in 1..Len(list) /\ Head(rest) = list[k + 1]
                              /\ Behind(list, k + 1, Tail(rest))
<1>1. rest = SubSeq(list, k + 1, Len(list)) /\ k \in 0..Len(list) /\ Len(list) \in Nat
  BY DEF Behind
<1>2. Len(rest) = Len(list) - k
  BY <1>1
<1>3. rest = << >> => k = Len(list)
  <2>1. Len(<< >>) = 0
    OBVIOUS
  <2>2. ASSUME rest = << >> PROVE Len(list) - k = 0
    BY <1>2, <2>1, <2>2
  <2> QED
    BY <1>1, <2>2
<1>4. ASSUME rest # << >>
      PROVE  /\ k + 1 \in 1..Len(list) /\ Head(rest) = list[k + 1]
             /\ k + 1 \in 0..Len(list) /\ Tail(rest) = SubSeq(list, (k + 1) + 1, Len(list))
  <2>1. k < Len(list)
    BY <1>1, <1>4
  <2> QED
    BY <1>1, <2>1
<1> QED
  BY <1>1, <1>2, <1>3, <1>4 DEF Behind

\* A policy that changes leaves the question as it was, and who asks it.
LEMMA UndecidedSame ==
    ASSUME NEW c, IsConfig(c), NEW d, NEW p, But(c, d, <<"policy", p>>), NEW r, UnderWay(r),
           Stable(c, d, r.key), Undecided(c, r)
    PROVE  Undecided(d, r) /\ NamesOf(c, r) = NamesOf(d, r)
<1>1. /\ Same(c, d, {"user"}) /\ Same(c, d, {"groups"}) /\ Same(c, d, {"group"})
      /\ Same(c, d, {"bucketOwner"}) /\ Same(c, d, {"objectOwner"})
      /\ Same(c, d, {"bucketPolicy"})
  <2>1. <<"policy", p>>[1] = "policy"
    OBVIOUS
  <2> QED
    BY <2>1, KindSame
<1>2. /\ Requester(c, r.key) = Requester(d, r.key)
      /\ AccountInfo(c, r.key) = AccountInfo(d, r.key) /\ Root(c) = Root(d)
  BY <1>1, RequesterSame, InfoSame DEF Stable
<1>3. NamesOf(c, r) = NamesOf(d, r)
  BY <1>1, AttachedSame DEF NamesOf
<1>4. CheckOf(r).object \in Objects
  BY CheckIsCheck DEF UnderWay, CheckOf
<1>5. /\ c[<<"bucketOwner">>] = d[<<"bucketOwner">>]
      /\ c[<<"bucketPolicy">>] = d[<<"bucketPolicy">>]
      /\ c[<<"objectOwner", CheckOf(r).object>>] = d[<<"objectOwner", CheckOf(r).object>>]
  BY <1>1, <1>4, SameReads
<1>6. Asked(c, r.key, CheckOf(r), r.context) = Asked(d, r.key, CheckOf(r), r.context)
  BY <1>2, <1>5 DEF Asked
<1>7. Undecided(d, r)
  BY <1>2, <1>5, <1>6 DEF Undecided, InQuestion, Unprivileged, Informed, Identified
<1> QED
  BY <1>3, <1>7

\* A named policy decides as it did before the change ...
LEMMA FirstDecides ==
    ASSUME NEW c, IsConfig(c), NEW r, Undecided(c, r), NEW j \in 1..Len(NamesOf(c, r)),
           Opinion(c, NamesOf(c, r)[j], r.q) # "Deny",
           \A i \in 1..Len(NamesOf(c, r)) :
             i < j => Opinion(c, NamesOf(c, r)[i], r.q) = "Deny"
    PROVE  Allows(c, r, r.at) <=> Opinion(c, NamesOf(c, r)[j], r.q) = "Allow"
<1> DEFINE N == NamesOf(c, r)
           docs == Consulted(c, r.key)
           named == EvaluateNamed(docs, r.q)
<1>1. /\ Allows(c, r, r.at) <=>
           IF named # "Deny" THEN named = "Allow" ELSE CheckOwnership(r.q)
      /\ Len(N) \in Nat /\ DOMAIN docs = 1..Len(N)
      /\ \A i \in 1..Len(N) : EvaluatePolicy(docs[i], r.q) = Opinion(c, N[i], r.q)
  BY UndecidedAnswer
<1>2. named = EvaluatePolicy(docs[j], r.q)
  <2>1. /\ j \in 1..Len(N) /\ Opinion(c, N[j], r.q) # "Deny"
        /\ \A i \in 1..Len(N) : i < j => Opinion(c, N[i], r.q) = "Deny"
    OBVIOUS
  <2> HIDE DEF N, docs
  <2> QED
    BY <1>1, <2>1, NamedFirst
<1>3. EvaluatePolicy(docs[j], r.q) = Opinion(c, N[j], r.q)
  BY <1>1
<1> HIDE DEF named, docs
<1> QED
  BY <1>1, <1>2, <1>3

\* ... or as it does after it, when it was read before it too.
LEMMA RereadDecides ==
    ASSUME NEW c, Underway(c), Undecided(c, req), NEW p, NEW k \in Nat,
           NEW i \in 1..Len(NamesOf(c, req)), i <= k, NamesOf(c, req)[i] = p,
           \A j \in 1..k : Opinion(c, NamesOf(c, req)[j], req.q) = "Deny",
           But(c, conf, <<"policy", p>>), Opinion(conf, p, req.q) # "Deny"
    PROVE  Allows(conf, req, req.at) <=> Opinion(conf, p, req.q) = "Allow"
<1> DEFINE N == NamesOf(c, req)
           docs == Consulted(conf, req.key)
           named == EvaluateNamed(docs, req.q)
<1>1. Undecided(conf, req) /\ NamesOf(conf, req) = N
  BY UndecidedSame DEF Underway
<1>2. /\ Allows(conf, req, req.at) <=>
           IF named # "Deny" THEN named = "Allow" ELSE CheckOwnership(req.q)
      /\ Len(N) \in Nat /\ DOMAIN docs = 1..Len(N)
      /\ \A j \in 1..Len(N) : /\ N[j] \in PolicyNames
                              /\ EvaluatePolicy(docs[j], req.q) = Opinion(conf, N[j], req.q)
  BY <1>1, UndecidedAnswer DEF Underway
<1>3. ASSUME NEW j \in 1..Len(N), j <= k, N[j] # p
      PROVE  Opinion(conf, N[j], req.q) = "Deny"
  <2>1. j \in 1..k
    BY <1>3
  <2>2. Opinion(c, N[j], req.q) = "Deny"
    BY <2>1
  <2>3. PolicyDocument(c, N[j]) = PolicyDocument(conf, N[j])
    <3>1. <<"policy", N[j]>> \in Entries
      BY <1>2, EntriesAssumption
    <3>2. <<"policy", N[j]>> # <<"policy", p>>
      <4> HIDE DEF N
      <4> QED
        BY <1>3
    <3> QED
      BY <3>1, <3>2 DEF But, PolicyDocument
  <2> QED
    BY <2>2, <2>3 DEF Opinion
<1>4. named = Opinion(conf, p, req.q)
  <2>1. N[i] = p /\ i \in 1..Len(N)
    OBVIOUS
  <2> HIDE DEF N, docs, named
  <2>2. EvaluatePolicy(docs[i], req.q) # "Deny"
    BY <1>2, <2>1
  <2>3. PICK j \in 1..Len(N) :
               /\ EvaluatePolicy(docs[j], req.q) # "Deny"
               /\ \A l \in 1..Len(N) : l < j => EvaluatePolicy(docs[l], req.q) = "Deny"
               /\ named = EvaluatePolicy(docs[j], req.q)
    BY <1>2, <2>1, <2>2, NamedSome DEF named
  <2>4. j <= k
    BY <1>2, <2>1, <2>2, <2>3
  <2>5. N[j] = p
    BY <1>2, <1>3, <2>3, <2>4
  <2> QED
    BY <1>2, <2>3, <2>5
<1> HIDE DEF named
<1> QED
  BY <1>2, <1>4

\* One named policy after the other, and ownership when none has an opinion.
LEMMA ConsultPolicyKept ==
    ASSUME NEW c, Underway(c), ConsultPolicy
    PROVE  Outcome(c)
<1> DEFINE N == NamesOf(c, req)
<1>1. /\ req.pc = "policy" /\ Undecided(c, req) /\ Passed(c, req)
      /\ \/ c = conf
         \/ \A p \in PolicyNames : \/ PolicyDocument(c, p) = PolicyDocument(conf, p)
                                   \/ Reread(c, conf, req, p)
  BY DEF Underway, ConsultPolicy, At, Follows, Tracks
<1>2. /\ Allows(c, req, req.at) <=>
           IF EvaluateNamed(Consulted(c, req.key), req.q) # "Deny"
           THEN EvaluateNamed(Consulted(c, req.key), req.q) = "Allow"
           ELSE CheckOwnership(req.q)
      /\ N \in Seq(PolicyNames) /\ Len(N) \in Nat
      /\ DOMAIN Consulted(c, req.key) = 1..Len(N)
      /\ \A i \in 1..Len(N) : N[i] \in PolicyNames
      /\ \A i \in 1..Len(N) :
           EvaluatePolicy(Consulted(c, req.key)[i], req.q) = Opinion(c, N[i], req.q)
  BY <1>1, UndecidedAnswer DEF Underway
<1>3. PICK k \in 0..Len(N) : /\ Behind(N, k, req.names)
                             /\ \A i \in 1..k : Opinion(c, N[i], req.q) = "Deny"
  BY <1>1 DEF Passed
<1>4. /\ Len(req.names) = Len(N) - k
      /\ req.names = << >> => k = Len(N)
      /\ req.names # << >> => /\ k + 1 \in 1..Len(N) /\ Head(req.names) = N[k + 1]
                              /\ Behind(N, k + 1, Tail(req.names))
  <2> HIDE DEF N
  <2> QED
    BY <1>2, <1>3, BehindOneMore
<1>5. CASE req.names = << >>
  <2> DEFINE d == IF CheckOwnership(req.q) THEN "Allow" ELSE "Deny"
  <2>1. Decide(d)
    BY <1>5 DEF ConsultPolicy
  <2>2. EvaluateNamed(Consulted(c, req.key), req.q) = "Deny"
    <3>1. \A i \in 1..Len(N) :
            EvaluatePolicy(Consulted(c, req.key)[i], req.q) = "Deny"
      <4> HIDE DEF N
      <4> QED
        BY <1>2, <1>3, <1>4, <1>5
    <3> QED
      BY <1>2, <3>1 DEF EvaluateNamed
  <2>3. Allows(c, req, req.at) <=> d = "Allow"
    BY <1>2, <2>2
  <2> QED
    BY <1>1, <2>1, <2>3 DEF Outcome, Turned, Undecided, InQuestion
<1>6. CASE req.names # << >>
  <2> DEFINE p == Head(req.names)
             d == Opinion(conf, p, req.q)
  <2>1. p \in PolicyNames /\ p = N[k + 1] /\ k + 1 \in 1..Len(N) /\ k \in Nat
    <3> HIDE DEF N
    <3> QED
      BY <1>2, <1>4, <1>6
  <2>2. IF d # "Deny" THEN Decide(d) ELSE req' = [req EXCEPT !.names = Tail(@)]
    BY <1>6 DEF ConsultPolicy, Opinion
  <2> HIDE DEF p
  <2>3. CASE d = "Deny"
    <3>1. Opinion(c, p, req.q) = "Deny"
      BY <1>1, <2>1, <2>3 DEF Reread, Opinion
    <3>2. /\ req'.pc = "policy" /\ req'.key = req.key /\ req'.user = req.user
          /\ req'.at = req.at /\ req'.info = req.info /\ req'.checks = req.checks
          /\ req'.context = req.context /\ req'.q = req.q
          /\ req'.names = Tail(req.names)
      BY <1>1, <2>2, <2>3 DEF Underway, Fields
    <3>3. Undecided(c, req') /\ NamesOf(c, req') = N
      BY <1>1, <3>2, StillUndecided
    <3>4. Passed(c, req')
      <4>1. \A i \in 1..(k + 1) : Opinion(c, N[i], req.q) = "Deny"
        <5> HIDE DEF N
        <5> QED
          BY <1>3, <2>1, <3>1
      <4>2. k + 1 \in 0..Len(N) /\ Behind(N, k + 1, req'.names)
        <5> HIDE DEF N
        <5> QED
          BY <1>2, <1>4, <1>6, <2>1, <3>2
      <4> QED
        BY <3>2, <3>3, <4>1, <4>2 DEF Passed
    <3>5. Tracks(c, req')
      BY <3>2, <3>3, <3>4 DEF Tracks
    <3>6. ASSUME NEW o \in PolicyNames, Reread(c, conf, req, o)
          PROVE  Reread(c, conf, req', o)
      <4>1. PICK i \in 1..(Len(N) - Len(req.names)) : N[i] = o
        BY <3>6 DEF Reread
      <4>2. Len(req'.names) = Len(N) - (k + 1)
        <5> HIDE DEF N
        <5> QED
          BY <1>2, <1>4, <1>6, <3>2, BehindOneMore
      <4>3. i \in 1..(Len(N) - Len(req'.names))
        <5> HIDE DEF N
        <5> QED
          BY <1>2, <1>3, <1>4, <4>1, <4>2
      <4> QED
        BY <3>2, <3>3, <3>6, <4>1, <4>3 DEF Reread
    <3>7. Follows(c, conf, req')
      BY <1>1, <3>2, <3>5, <3>6 DEF Follows
    <3> QED
      BY <3>2, <3>7 DEF Outcome, Kept
  <2>4. CASE d # "Deny" /\ Opinion(c, p, req.q) = d
    <3>1. Decide(d)
      BY <2>2, <2>4
    <3>2. \A i \in 1..Len(N) : i < k + 1 => Opinion(c, N[i], req.q) = "Deny"
      <4> HIDE DEF N
      <4> QED
        BY <1>3, <2>1
    <3>3. Allows(c, req, req.at) <=> d = "Allow"
      BY <1>1, <2>1, <2>4, <3>2, FirstDecides DEF Underway
    <3> QED
      BY <1>1, <3>1, <3>3 DEF Outcome, Turned, Undecided, InQuestion
  <2>5. CASE d # "Deny" /\ Opinion(c, p, req.q) # d
    <3>1. Decide(d)
      BY <2>2, <2>5
    <3>2. Reread(c, conf, req, p)
      BY <1>1, <2>1, <2>5 DEF Opinion
    <3>3. PICK i \in 1..(Len(N) - Len(req.names)) : N[i] = p
      BY <3>2 DEF Reread
    <3>4. i \in 1..Len(N) /\ i <= k
      <4> HIDE DEF N
      <4> QED
        BY <1>2, <1>3, <1>4, <3>3
    <3>5. But(c, conf, <<"policy", p>>)
      BY <3>2 DEF Reread
    <3>6. Allows(conf, req, req.at) <=> d = "Allow"
      BY <1>1, <1>3, <2>1, <2>5, <3>3, <3>4, <3>5, RereadDecides
    <3> QED
      BY <1>1, <3>1, <3>6 DEF Outcome, Turned, Undecided, InQuestion
  <2> QED
    BY <2>3, <2>4, <2>5
<1> QED
  BY <1>5, <1>6

\* Every step keeps the request with the configuration it follows, or ends the check.
LEMMA StepKept ==
    ASSUME NEW c, Underway(c), Step
    PROVE  Outcome(c)
BY LookUpUserKept, LookUpAccountKept, AddContextKept, ClassifyKept, FetchBucketOwnerKept,
   FetchObjectOwnerKept, ConsultBucketPolicyKept, ResolveNamesKept, ResolveGroupsKept,
   ResolveGroupKept, ConsultPolicyKept DEF Step

-----------------------------------------------------------------------------
(* The invariant holds *)

\* After a check the next one follows a configuration too: the later one when
\* it knows the requester as the earlier one did.
LEMMA NextCheck ==
    ASSUME NEW c, Underway(c), NEW x, But(c, conf, x), Unprivileged(c, req),
           NEW decision, Decide(decision), req'.pc = "bucketOwner"
    PROVE  \E e \in {c, conf} : Follows(e, conf, req')
<1>1. req'.key = req.key /\ req'.user = req.user /\ req'.info = req.info
  BY Decided DEF Underway
<1>2. Unprivileged(c, req')
  BY <1>1 DEF Unprivileged, Informed, Identified
<1>3. Stable(c, conf, req.key) /\ AccountInfo(c, req.key) = AccountInfo(conf, req.key)
      /\ Root(c) = Root(conf)
  BY InfoSame DEF Underway, Stable
<1>4. CASE Requester(c, req.key) = Requester(conf, req.key)
  <2>1. Unprivileged(conf, req')
    BY <1>1, <1>2, <1>3, <1>4 DEF Unprivileged, Informed, Identified
  <2>2. Tracks(conf, req')
    BY <2>1 DEF Tracks
  <2> QED
    BY <2>2 DEF Follows
<1>5. CASE Requester(c, req.key) # Requester(conf, req.key)
  <2>1. x[1] = "user"
    BY <1>3, <1>5, KindSame, RequesterSame
  <2>2. ~AccountInfo(c, req.key).sa
    BY <1>3, <1>5, LentSame
  <2>3. /\ Same(c, conf, {"bucketOwner"}) /\ Same(c, conf, {"objectOwner"})
        /\ Same(c, conf, {"bucketPolicy"}) /\ Same(c, conf, {"groups", "group"})
        /\ Same(c, conf, {"policy"})
    BY <2>1, KindSame
  <2>4. Ahead(c, conf, req')
    BY <1>1, <2>2, <2>3 DEF Ahead
  <2>5. Tracks(c, req')
    BY <1>2 DEF Tracks
  <2> QED
    BY <2>4, <2>5 DEF Follows
<1> QED
  BY <1>4, <1>5

\* An answer depends on what the request is about, not on how far it is.
LEMMA AllowsSame ==
    ASSUME NEW r, NEW s, s.key = r.key, s.checks = r.checks, s.context = r.context
    PROVE  \A c, i : Allows(c, s, i) <=> Allows(c, r, i)
BY DEF Allows

\* The checks of an operation.
LEMMA ChecksDomain ==
    ASSUME NEW op \in Operations
    PROVE  Len(op) \in Nat /\ DOMAIN op = 1..Len(op)
<1> DEFINE Ask1(action, o) == <<[permission |-> RequiredPermissions(action)[1], object |-> o]>>
           Ask2(s, d) == [k \in 1..2 |-> [permission |-> RequiredPermissions("CopyObject")[k],
                                          object |-> <<s, d>>[k]]]
           One == {Ask1(a, o) : a \in {"HeadObject", "PutObject"}, o \in Objects}
           Two == {Ask2(s, d) : s \in Objects, d \in Objects}
<1>1. Operations = One \cup Two
  BY DEF Operations
<1>2. ASSUME op \in One PROVE Len(op) \in Nat /\ DOMAIN op = 1..Len(op)
  <2>1. PICK e : op = << e >>
    BY <1>2
  <2>2. Len(<< e >>) = 1 /\ DOMAIN << e >> = 1..1
    OBVIOUS
  <2> QED
    BY <2>1, <2>2
<1>3. ASSUME op \in Two PROVE Len(op) \in Nat /\ DOMAIN op = 1..Len(op)
  <2>1. PICK s \in Objects, d \in Objects : op = Ask2(s, d)
    BY <1>3
  <2>2. op = << op[1], op[2] >>
    BY <2>1
  <2> HIDE DEF Ask2
  <2>3. \A e, f : Len(<< e, f >>) = 2 /\ DOMAIN << e, f >> = 1..2
    OBVIOUS
  <2>4. Len(op) = 2 /\ DOMAIN op = 1..2
    BY <2>2, <2>3
  <2> QED
    BY <2>4
<1> HIDE DEF One, Two
<1> QED
  BY <1>1, <1>2, <1>3

\* A step of the request.
LEMMA StepAnswered ==
    ASSUME IInv, Step
    PROVE  OneMoment'
<1>1. Onward
  BY StepOnward DEF IInv, TypeOK
<1>2. /\ conf' = conf /\ old' = old /\ req'.key = req.key /\ req'.checks = req.checks
      /\ req'.context = req.context /\ req'.pc # "idle" /\ req.pc \notin {"idle", "done"}
  BY <1>1 DEF Onward
<1> SUFFICES ASSUME Stable(old, conf, req.key)
             PROVE  Answered(old, conf, req')
  BY <1>2 DEF OneMoment, Answered
<1>3. /\ \A i \in 1..(req.at - 1) : \E c \in {old, conf} : Allows(c, req, i)
      /\ \E c \in {old, conf} : Follows(c, conf, req)
  BY <1>2 DEF IInv, OneMoment, Answered
<1>4. PICK c \in {old, conf} : Follows(c, conf, req)
  BY <1>3
<1>5. /\ req.checks \in Operations /\ req.at \in 1..2 /\ req.at <= Len(req.checks)
      /\ Len(req.checks) \in Nat /\ DOMAIN req.checks = 1..Len(req.checks)
  BY <1>2, ChecksDomain DEF IInv, TypeOK, Shape
<1>6. req.at \in 1..Len(req.checks)
  BY <1>5
<1>7. Underway(c)
  <2>1. UnderWay(req)
    BY <1>2, <1>5, <1>6 DEF UnderWay, IInv, TypeOK
  <2>2. IsConfig(old) /\ IsConfig(conf)
    BY DEF IInv, TypeOK, IsConfig
  <2>3. Stable(c, conf, req.key)
    BY <1>4 DEF Stable
  <2> QED
    BY <1>2, <1>4, <2>1, <2>2, <2>3 DEF Underway, IInv, Shape
<1>8. \A e, i : Allows(e, req', i) <=> Allows(e, req, i)
  BY <1>2, AllowsSame
<1>9. PICK x \in Entries : But(c, conf, x)
  BY <1>4 DEF IInv, Moments, But
<1>10. CASE Kept(c)
  BY <1>3, <1>4, <1>8, <1>10 DEF Kept, Answered
<1>11. CASE Turned(c)
  <2>1. PICK decision : /\ Decide(decision)
                        /\ \E e \in {c, conf} : Allows(e, req, req.at) <=> decision = "Allow"
    BY <1>11 DEF Turned
  <2>2. PICK e \in {old, conf} : Allows(e, req, req.at) <=> decision = "Allow"
    BY <1>4, <2>1
  <2>3. CASE decision = "Allow" /\ req.at < Len(req.checks)
    <3>1. req'.pc = "bucketOwner" /\ req'.at = req.at + 1
      BY <2>1, <2>3, Decided DEF IInv, Shape
    <3>2. \E f \in {old, conf} : Follows(f, conf, req')
      BY <1>4, <1>7, <1>9, <1>11, <2>1, <3>1, NextCheck DEF Turned
    <3>3. ASSUME NEW i \in 1..(req'.at - 1) PROVE \E f \in {old, conf} : Allows(f, req', i)
      <4>1. i \in 1..(req.at - 1) \/ i = req.at
        BY <1>5, <3>1
      <4> QED
        BY <1>3, <1>8, <2>2, <2>3, <4>1
    <3> QED
      BY <3>1, <3>2, <3>3 DEF Answered
  <2>4. CASE ~(decision = "Allow" /\ req.at < Len(req.checks))
    <3>1. req'.pc = "done" /\ (req'.allowed <=> decision = "Allow")
      BY <2>1, <2>4, Decided DEF IInv, Shape
    <3>2. CASE decision = "Allow"
      <4>1. ASSUME NEW i \in DOMAIN req'.checks PROVE \E f \in {old, conf} : Allows(f, req', i)
        <5>1. i \in 1..(req.at - 1) \/ i = req.at
          BY <1>2, <1>5, <2>4, <3>2
        <5> QED
          BY <1>3, <1>8, <2>2, <3>2, <5>1
      <4> QED
        BY <3>1, <3>2, <4>1 DEF Answered
    <3>3. CASE decision # "Allow"
      <4>1. req.at \in DOMAIN req'.checks /\ ~Allows(e, req', req.at)
        BY <1>2, <1>5, <1>6, <1>8, <2>2, <3>3
      <4> QED
        BY <3>1, <3>3, <4>1 DEF Answered
    <3> QED
      BY <3>2, <3>3
  <2> QED
    BY <2>3, <2>4
<1>12. CASE Ended(c)
  <2>1. CASE req'.allowed = TRUE /\ \A i \in DOMAIN req.checks : Allows(c, req, i)
    BY <1>2, <1>4, <1>8, <1>12, <2>1 DEF Ended, Answered
  <2>2. CASE req'.allowed = FALSE /\ ~Allows(c, req, req.at)
    <3>1. req.at \in DOMAIN req'.checks /\ ~Allows(c, req', req.at)
      BY <1>2, <1>5, <1>6, <1>8, <2>2
    <3> QED
      BY <1>4, <1>12, <2>2, <3>1 DEF Ended, Answered
  <2> QED
    BY <1>12, <2>1, <2>2 DEF Ended
<1> QED
  BY <1>7, <1>10, <1>11, <1>12, StepKept DEF Outcome

\* A request begins with nothing learned.
LEMMA BeginAnswered ==
    ASSUME NEW key, NEW op, NEW context, Begin(key, op, context)
    PROVE  OneMoment'
<1>1. /\ req'.key = key /\ req'.pc = IF key = Nobody THEN "classify" ELSE "user"
      /\ req'.at = 1 /\ req'.user = Refused /\ req'.info = NoAccount
      /\ conf' = conf /\ old' = conf
  BY Begun
<1>2. Tracks(conf, req')
  <2>1. CASE key = Nobody
    <3>1. Requester(conf, Nobody) = Refused
      BY DEF Requester
    <3>2. AccountInfo(conf, Nobody) = NoAccount
      BY AnonymousAccount DEF AccountInfo
    <3>3. Informed(conf, req')
      BY <1>1, <2>1, <3>1, <3>2 DEF Informed, Identified
    <3> QED
      BY <1>1, <2>1, <3>3 DEF Tracks
  <2>2. CASE key # Nobody
    BY <1>1, <2>2 DEF Tracks
  <2> QED
    BY <2>1, <2>2
<1>3. Follows(conf, conf, req')
  BY <1>2 DEF Follows
<1>4. req'.pc \notin {"idle", "done"} /\ 1..(req'.at - 1) = {}
  BY <1>1
<1> QED
  BY <1>1, <1>3, <1>4 DEF OneMoment, Answered

\* A change overtakes the request at most once.
LEMMA ChangeAnswered ==
    ASSUME IInv, NEW x \in Entries, NEW v \in Possible[x], Change(x, v)
    PROVE  OneMoment'
<1>1. req' = req
  BY DEF Change
<1>2. CASE req.pc = "idle"
  BY <1>1, <1>2 DEF OneMoment, Answered
<1>3. CASE req.pc # "idle"
  <2>1. /\ req.pc # "done" /\ left > 0 /\ old' = old
        /\ conf' = [conf EXCEPT ![x] = v]
    BY <1>3 DEF Change
  <2>2. left = 1
    BY <2>1, OvertakesAssumption DEF IInv, TypeOK
  <2>3. conf = old
    BY <2>2 DEF IInv, Moments
  <2> SUFFICES ASSUME Stable(old, conf', req.key)
               PROVE  Answered(old, conf', req)
    BY <1>1, <2>1 DEF OneMoment, Answered
  <2>4. Stable(old, old, req.key)
    BY DEF Stable
  <2>5. /\ \A i \in 1..(req.at - 1) : Allows(old, req, i)
        /\ Follows(old, old, req)
    BY <1>3, <2>1, <2>3, <2>4 DEF IInv, OneMoment, Answered
  <2>6. But(old, conf', x)
    BY <2>1, <2>3 DEF But, IInv, TypeOK
  <2>7. UnderWay(req)
    <3>1. req.checks \in Operations /\ req.at \in 1..2 /\ req.at <= Len(req.checks)
      BY <1>3, <2>1 DEF IInv, TypeOK, Shape
    <3>2. req.at \in 1..Len(req.checks)
      BY <3>1, OperationLength
    <3> QED
      BY <1>3, <2>1, <3>1, <3>2 DEF UnderWay, IInv, TypeOK
  <2>8. IsConfig(old)
    BY DEF IInv, TypeOK, IsConfig
  <2>9. Follows(old, conf', req) \/ Follows(conf', conf', req)
    BY <2>5, <2>6, <2>7, <2>8, Overtaken DEF Follows
  <2> QED
    BY <1>3, <2>1, <2>5, <2>9 DEF Answered
<1> QED
  BY <1>2, <1>3

\* The configurations of a request differ in what one change replaced.
LEMMA MomentsKept ==
    ASSUME IInv, [Next]_vars
    PROVE  Moments'
<1>1. \A c : But(c, c, <<"root">>)
  BY DEF But
<1>2. <<"root">> \in Entries
  BY EntriesAssumption
<1>3. ASSUME NEW key, NEW op, NEW context, Begin(key, op, context) PROVE Moments'
  BY <1>1, <1>2, <1>3, Begun DEF Moments
<1>4. CASE Step
  <2>1. conf' = conf /\ old' = old /\ left' = left /\ req.pc # "idle" /\ req'.pc # "idle"
    BY <1>4, StepOnward DEF IInv, TypeOK, Onward
  <2> QED
    BY <2>1 DEF IInv, Moments
<1>5. CASE Reply
  BY <1>1, <1>2, <1>5 DEF Reply, Moments
<1>6. ASSUME NEW x \in Entries, NEW v \in Possible[x], Change(x, v) PROVE Moments'
  <2>1. CASE req.pc = "idle"
    BY <1>1, <1>2, <1>6, <2>1 DEF Change, Moments
  <2>2. CASE req.pc # "idle"
    <3>1. /\ left > 0 /\ old' = old /\ conf' = [conf EXCEPT ![x] = v] /\ left' = left - 1
          /\ req' = req
      BY <1>6, <2>2 DEF Change
    <3>2. left = 1 /\ left' # 1
      BY <3>1, OvertakesAssumption DEF IInv, TypeOK
    <3>3. conf = old
      BY <3>2 DEF IInv, Moments
    <3>4. But(old', conf', x)
      BY <3>1, <3>3 DEF But, IInv, TypeOK
    <3> QED
      BY <2>2, <3>1, <3>2, <3>4 DEF Moments
  <2> QED
    BY <2>1, <2>2
<1>7. CASE UNCHANGED vars
  BY <1>7 DEF vars, IInv, Moments
<1> QED
  BY <1>3, <1>4, <1>5, <1>6, <1>7 DEF Next

\* At the start there is no request.
LEMMA InitInvariant == Init => IInv
<1> SUFFICES ASSUME Init PROVE IInv
  OBVIOUS
<1>1. conf = old /\ req.pc = "idle"
  BY IdleFields DEF Init
<1>2. <<"root">> \in Entries /\ But(old, conf, <<"root">>)
  BY <1>1, EntriesAssumption DEF But
<1>3. Moments
  BY <1>1, <1>2 DEF Moments
<1>4. OneMoment
  BY <1>1 DEF OneMoment, Answered
<1> QED
  BY <1>3, <1>4, InitTyped DEF IInv

\* Every step keeps the invariant.
LEMMA NextInvariant == IInv /\ [Next]_vars => IInv'
<1> SUFFICES ASSUME IInv, [Next]_vars PROVE IInv'
  OBVIOUS
<1>1. TypeOK' /\ Shape'
  BY NextTyped DEF IInv
<1>2. Moments'
  BY MomentsKept
<1>3. OneMoment'
  <2>1. CASE Reply
    <3>1. req'.pc = "idle"
      BY <2>1, IdleFields DEF Reply
    <3> QED
      BY <3>1 DEF OneMoment, Answered
  <2>2. CASE UNCHANGED vars
    BY <2>2 DEF vars, IInv, OneMoment
  <2> QED
    BY <2>1, <2>2, BeginAnswered, StepAnswered, ChangeAnswered DEF Next
<1> QED
  BY <1>1, <1>2, <1>3 DEF IInv

-----------------------------------------------------------------------------
(* The properties *)

\* The invariant is about the stability that the properties speak of, ...
LEMMA StableIs == OwnKeyStable <=> Stable(old, conf, req.key)
BY DEF OwnKeyStable, Stable

\* ... and an answer is one of two.
LEMMA AnswerIsBoolean ==
    ASSUME NEW c, NEW key, NEW check, NEW context
    PROVE  Answer(c, key, check, context) \in BOOLEAN
BY DEF Answer

\* A request that one change overtakes (a write of a policy, a group, a user,
\* an account or an owner between two reads of AuthMiddleware and
\* AuthorizationMiddleware) is answered as before the change or as after it,
\* object by object, unless the change is to what its own key stands for.
THEOREM AnswersAtOneMoment == Spec => []AnswerOfOneMoment
<1>1. ASSUME IInv PROVE AnswerOfOneMoment
  <2> SUFFICES ASSUME req.pc = "done", OwnKeyStable
               PROVE  IF req.allowed
                      THEN \A i \in DOMAIN req.checks : Sometime(req.checks[i], TRUE)
                      ELSE \E i \in DOMAIN req.checks : Sometime(req.checks[i], FALSE)
    BY DEF AnswerOfOneMoment
  <2>1. IF req.allowed
        THEN \A i \in DOMAIN req.checks : \E c \in {old, conf} : Allows(c, req, i)
        ELSE \E i \in DOMAIN req.checks : \E c \in {old, conf} : ~Allows(c, req, i)
    BY <1>1, StableIs DEF IInv, OneMoment, Answered
  <2>2. \A c, i : (Allows(c, req, i) => Answer(c, req.key, req.checks[i], req.context) = TRUE)
                  /\ (~Allows(c, req, i) => Answer(c, req.key, req.checks[i], req.context) = FALSE)
    BY AnswerIsBoolean DEF Allows
  <2>3. CASE req.allowed
    BY <2>1, <2>2, <2>3 DEF Sometime
  <2>4. CASE ~req.allowed
    BY <2>1, <2>2, <2>4 DEF Sometime
  <2> QED
    BY <2>3, <2>4
<1> QED
  BY InitInvariant, NextInvariant, <1>1, PTL DEF Spec

\* What is allowed is granted by a document in force or an ownership at one
\* moment of the request, against no Deny of the bucket policy, and what is
\* denied lacked a grant or met a Deny at one of them (Evaluate,
\* evaluateNamedPolicies).
THEOREM ReasonsGiven == Spec => []AllowedForReason
<1>1. ASSUME IInv PROVE AllowedForReason
  <2> SUFFICES ASSUME req.pc = "done", OwnKeyStable
               PROVE  IF req.allowed
                      THEN \A i \in DOMAIN req.checks :
                             \E c \in {old, conf} : MayAllow(c, req.checks[i])
                      ELSE \E i \in DOMAIN req.checks :
                             \E c \in {old, conf} : ~MustAllow(c, req.checks[i])
    BY DEF AllowedForReason
  <2>1. IF req.allowed
        THEN \A i \in DOMAIN req.checks : \E c \in {old, conf} : Allows(c, req, i)
        ELSE \E i \in DOMAIN req.checks : \E c \in {old, conf} : ~Allows(c, req, i)
    BY <1>1, StableIs DEF IInv, OneMoment, Answered
  <2>2. ASSUME NEW c \in {old, conf}, NEW i
        PROVE  /\ Allows(c, req, i) => MayAllow(c, req.checks[i])
               /\ MustAllow(c, req.checks[i]) => Allows(c, req, i)
    <3>1. IsConfig(c)
      BY <1>1 DEF IInv, TypeOK, IsConfig
    <3> QED
      BY <3>1, AnswerBetween DEF Allows
  <2>3. CASE req.allowed
    BY <2>1, <2>2, <2>3
  <2>4. CASE ~req.allowed
    BY <2>1, <2>2, <2>4
  <2> QED
    BY <2>3, <2>4
<1> QED
  BY InitInvariant, NextInvariant, <1>1, PTL DEF Spec

-----------------------------------------------------------------------------
(* What the reasons say of one configuration *)

\* Where a Deny of the bucket policy applies, the administrator is allowed and
\* nobody else, whatever other policies grant and whoever owns the object
\* (Evaluate: the administrator's bypass comes before the bucket policy, and
\* everything else after it).
THEOREM DenyStopsOthers ==
    ASSUME NEW c, IsConfig(c), NEW check,
           Says("Deny", c[<<"bucketPolicy">>], Asked(c, req.key, check, req.context))
    PROVE  Answer(c, req.key, check, req.context) <=> req.key = Root(c)
BY AnswerJustified DEF Justified

\* A request without a key is allowed by the bucket policy or not at all.
THEOREM AnonymousByBucketPolicy ==
    ASSUME NEW c, IsConfig(c), NEW check, req.key = Nobody, Nobody \notin Keys
    PROVE  Answer(c, req.key, check, req.context) <=>
             Grants(c[<<"bucketPolicy">>], Asked(c, req.key, check, req.context))
<1> DEFINE q == Asked(c, req.key, check, req.context)
<1>1. req.key # Root(c)
  BY EntriesAssumption, PossibleAssumption DEF IsConfig, Root
<1>2. AccountInfo(c, req.key).override = FALSE
  <2>1. Account(c, req.key).key = Nobody
    <3>1. <<"account", Nobody>> \notin Entries
      <4>1. SUFFICES ASSUME <<"account", Nobody>> \in Entries PROVE FALSE
        OBVIOUS
      <4>2. c[<<"account", Nobody>>] \in Possible[<<"account", Nobody>>]
        BY <4>1 DEF IsConfig
      <4> QED
        BY <4>1, <4>2, PossibleAssumption
    <3> QED
      BY <3>1 DEF Account, Absent
  <2> QED
    BY <2>1 DEF AccountInfo, NoAccount
<1>3. q.who.override = FALSE
  BY <1>2 DEF Asked, Ask
<1> HIDE DEF q
<1> QED
  BY <1>1, <1>3, AnswerJustified DEF Justified, Grants, q

\* A service account in override mode has what its embedded policy and the
\* bucket policy grant, and nothing of its parent's: neither policies nor
\* ownership.
THEOREM OverrideConfines ==
    ASSUME NEW c, IsConfig(c), NEW check, req.key # Root(c),
           AccountInfo(c, req.key).override = TRUE,
           Answer(c, req.key, check, req.context)
    PROVE  LET q == Asked(c, req.key, check, req.context)
           IN \/ Grants(c[<<"bucketPolicy">>], q)
              \/ Grants(AccountInfo(c, req.key).embedded, q)
<1> DEFINE q == Asked(c, req.key, check, req.context)
<1>1. q.who.override = TRUE /\ q.who.embedded = AccountInfo(c, req.key).embedded
  BY DEF Asked, Ask
<1> HIDE DEF q
<1> QED
  BY <1>1, AnswerJustified DEF Justified, Grants, q
=============================================================================
