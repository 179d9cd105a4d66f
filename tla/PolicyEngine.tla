---------------------------- MODULE PolicyEngine ----------------------------
(***************************************************************************)
(* The decision the policy engine takes on one request: the matching of    *)
(* statements, the evaluation of documents, and the order in which the     *)
(* bucket policy, the IAM policies and ownership have their say.           *)
(*                                                                         *)
(* Names of actions and ARNs are sequences of tokens, so that a pattern is *)
(* a sequence and perhaps a final "*".  A document is its set of           *)
(* statements: their order decides nothing.  A document that is missing,   *)
(* or that does not parse, is the empty one, which decides nothing either. *)
(***************************************************************************)
EXTENDS Sequences, Naturals

CONSTANTS
    Tokens,     \* pieces of the names of actions and resources, user names
    Keys,       \* access keys
    Ids,        \* UUIDs of users and service accounts
    Everyone,   \* the principal "*"
    Nobody,     \* no access key, no UUID, no name
    UserVar,    \* the policy variable ${aws:username}
    Attributes, \* condition keys: aws:SourceIp, aws:SecureTransport, ...
    Values,     \* values of condition keys
    Missing     \* the request has no value for a condition key

ASSUME DistinctAssumption ==
    /\ Everyone \notin Keys /\ Missing \notin Values /\ UserVar \notin Tokens
    /\ Nobody \notin Keys \cup Ids \cup Tokens

Decisions == {"Deny", "Allow", "ExplicitDeny"}

Names == Seq(Tokens)
ServiceLevel == << >>                    \* the resource "*" of ListBuckets
Pattern == [text : Seq(Tokens \cup {UserVar}), star : BOOLEAN]

\* Action or else NotAction, Resource or else NotResource, and so on.
Clause(items) == [kind : {"none", "is", "not"}, items : SUBSET items]

\* One condition: an operator or its negation, a key, and values.
Test == [key : Attributes, negated : BOOLEAN, values : SUBSET Values]

Statement ==
    [effect : {"Allow", "Deny"}, principal : Clause(Keys \cup {Everyone}),
     action : Clause(Pattern), resource : Clause(Pattern),
     tests : SUBSET Test]

Documents == SUBSET Statement

Principal ==
    [key : Keys \cup {Nobody},           \* Nobody: an anonymous request
     id : Ids \cup {Nobody}, name : Tokens \cup {Nobody}, admin : BOOLEAN,
     override : BOOLEAN, embedded : Documents]

\* What Evaluate is asked about, beside the policies.
Question ==
    [who : Principal, action : Names, resource : Names,
     context : [Attributes -> Values \cup {Missing}],
     bucketOwner : Ids \cup {Nobody}, objectOwner : Ids \cup {Nobody}]

-----------------------------------------------------------------------------
(* Matching *)

StartsWith(name, text) ==
    Len(text) <= Len(name) /\ SubSeq(name, 1, Len(text)) = text

MatchSingle(pattern, name) ==
    \/ pattern.text = name
    \/ pattern.star /\ StartsWith(name, pattern.text)

Applies(clause, matched) ==
    CASE clause.kind = "none" -> TRUE
      [] clause.kind = "is"   -> matched
      [] clause.kind = "not"  -> ~matched

MatchAction(clause, action) ==
    Applies(clause, \E p \in clause.items : MatchSingle(p, action))

\* ${aws:username} becomes the name of the requester; without a name the
\* patterns stay as they are, and those with the variable match nothing.
Substitute(pattern, name) ==
    IF name = Nobody THEN pattern
    ELSE [pattern EXCEPT !.text =
            [i \in DOMAIN @ |-> IF @[i] = UserVar THEN name ELSE @[i]]]

MatchResource(clause, resource, name) ==
    Applies(clause,
            \E p \in clause.items : MatchSingle(Substitute(p, name), resource))

MatchPrincipal(clause, who) ==
    Applies(clause, \/ Everyone \in clause.items
                    \/ who.key # Nobody /\ who.key \in clause.items)

\* A value that the request lacks fails the test, negated or not.  Several
\* values are alternatives, of a negated operator too.
Passes(test, context) ==
    /\ context[test.key] # Missing
    /\ \E v \in test.values : (context[test.key] = v) # test.negated

-----------------------------------------------------------------------------
(* Evaluation *)

StatementApplies(s, q) ==
    /\ MatchPrincipal(s.principal, q.who)
    /\ MatchAction(s.action, q.action)
    /\ MatchResource(s.resource, q.resource, q.who.name)
    /\ \A t \in s.tests : Passes(t, q.context)

\* A faulty variant: a Deny is taken for a document without an opinion.
EvaluateAllowsOnly(doc, q) ==
    IF \E s \in doc : s.effect = "Allow" /\ StatementApplies(s, q) THEN "Allow" ELSE "Deny"

EvaluatePolicy(doc, q) ==
    LET Effects == {s.effect : s \in {t \in doc : StatementApplies(t, q)}}
    IN IF "Deny" \in Effects THEN "ExplicitDeny"
       ELSE IF "Allow" \in Effects THEN "Allow"
       ELSE "Deny"

\* The first document that decides.
EvaluateNamed(docs, q) ==
    IF \A i \in DOMAIN docs : EvaluatePolicy(docs[i], q) = "Deny" THEN "Deny"
    ELSE LET first == CHOOSE i \in DOMAIN docs :
                        /\ EvaluatePolicy(docs[i], q) # "Deny"
                        /\ \A j \in DOMAIN docs :
                             j < i => EvaluatePolicy(docs[j], q) = "Deny"
         IN EvaluatePolicy(docs[first], q)

CheckBucketPolicy(doc, q) ==
    IF q.resource = ServiceLevel THEN "Deny" ELSE EvaluatePolicy(doc, q)

CheckOwnership(q) ==
    /\ q.who.id # Nobody
    /\ q.who.id \in {q.objectOwner, q.bucketOwner}

\* bucketDoc: the bucket policy in the cache; docs: the IAM policies of the
\* principal, in the order in which they are resolved.
Evaluate(bucketDoc, docs, q) ==
    LET bucket == CheckBucketPolicy(bucketDoc, q)
        named  == EvaluateNamed(docs, q)
    IN IF q.who.admin THEN "Allow"
       ELSE IF bucket # "Deny" \/ q.who.key = Nobody THEN bucket
       ELSE IF q.who.override THEN EvaluatePolicy(q.who.embedded, q)
       ELSE IF named # "Deny" THEN named
       ELSE IF CheckOwnership(q) THEN "Allow"
       ELSE "Deny"

-----------------------------------------------------------------------------
(* ActionMapper *)

\* The permissions a route action needs, in the order of their resources;
\* an action that is not listed needs the permission of its own name.
PutParts == {"CreateMultipartUpload", "UploadPart", "CompleteMultipartUpload"}

RequiredPermissions(action) ==
    CASE action = "ListBuckets"          -> <<"ListAllMyBuckets">>
      [] action \in {"HeadBucket", "ListObjects", "ListObjectsV2"}
                                         -> <<"ListBucket">>
      [] action = "ListObjectVersions"   -> <<"ListBucketVersions">>
      [] action = "ListMultipartUploads" -> <<"ListBucketMultipartUploads">>
      [] action = "DeleteObjects"        -> <<"DeleteObject">>
      [] action = "HeadObject"           -> <<"GetObject">>
      [] action \in {"CopyObject", "UploadPartCopy"}
                                         -> <<"GetObject", "PutObject">>
      [] action \in PutParts             -> <<"PutObject">>
      [] action = "ListParts"            -> <<"ListMultipartUploadParts">>
      [] OTHER                           -> <<action>>
=============================================================================
