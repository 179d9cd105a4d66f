------------------------------ MODULE Listing ------------------------------
(***************************************************************************)
(* One client pages through the listing of a bucket (ListObjects or        *)
(* ListObjectsV2) while other clients put and delete objects.  Each page   *)
(* walks the directory tree of the bucket, one directory read at a time,   *)
(* and nothing is kept between two pages but the marker the client holds.  *)
(*                                                                         *)
(* A key is a sequence of characters, a character a number, so that keys   *)
(* compare as Go strings do; a directory is the sequence of its path, the  *)
(* bucket's own directory the empty one.                                   *)
(*                                                                         *)
(* Abstracted: sizes, dates, ETags and owners of the entries, and the      *)
(* filter by permission (FilterObjects), which removes entries of a page   *)
(* after its marker was computed.                                          *)
(***************************************************************************)
EXTENDS Integers, Sequences, FiniteSets, SequencesExt

CONSTANTS
    Keys,       \* object keys
    Slash,      \* the character that separates directories
    PrefixArgs,   \* values of the query parameter prefix
    DelimiterArgs, \* values of the query parameter delimiter
    StartArgs,     \* values of the query parameters marker and start-after
    PageSizes,  \* values of max-keys, after parseMaxKeys
    MaxChanges, \* bound: puts and deletes beside the listing
    MaxFaults   \* bound: pages that fail and are asked for again

\* Clients use finitely many keys.
ASSUME KeysAssumption ==
    /\ IsFiniteSet(Keys)
    /\ \A k \in Keys : k \in Seq(Nat) /\ k # <<>> /\ k[1] # Slash /\ k[Len(k)] # Slash
ASSUME ParametersAssumption ==
    /\ Slash \in Nat
    /\ PrefixArgs \subseteq Seq(Nat) /\ DelimiterArgs \subseteq Seq(Nat) /\ StartArgs \subseteq Seq(Nat)
    /\ PageSizes \subseteq Nat \ {0}
ASSUME BoundsAssumption == MaxChanges \in Nat /\ MaxFaults \in Nat

VARIABLES
    objects,    \* keys whose file exists
    dirs,       \* directories that exist
    call,       \* the client's query, and the walk of the page in progress
    listed,     \* the entries of all pages so far
    displaced,  \* those that came twice, or not after the ones before (history)
    stable,     \* keys that existed all through the listing (history)
    seen,       \* keys that existed at some time in the listing (history)
    changes, faults

vars == <<objects, dirs, call, listed, displaced, stable, seen, changes, faults>>

-----------------------------------------------------------------------------
(* Keys, directories and entries *)

\* s < t as Go compares strings.
Less(s, t) ==
    \/ IsStrictPrefix(s, t)
    \/ \E i \in 1..Len(s) : /\ i <= Len(t) /\ s[i] < t[i]
                            /\ SubSeq(s, 1, i - 1) = SubSeq(t, 1, i - 1)

\* The directories on the way to a path.
Parents(path) == {SubSeq(path, 1, i - 1) : i \in {j \in DOMAIN path : path[j] = Slash}}

\* A page's entries: objects and common prefixes.
Entry(key, common) == [key |-> key, common |-> common]
Before(e, f) == Less(e.key, f.key)

\* The members of S in the order of their keys, as sort.Slice leaves them.
Ascending(s) == \A i, j \in DOMAIN s : i < j => Before(s[i], s[j])
Sorted(S) == CHOOSE s \in [1..Cardinality(S) -> S] : Ascending(s)

\* What the walk meets: files and directories.
Node(path, dir) == [key |-> path, dir |-> dir]

\* Is d the directory that holds path?
Holds(d, path) ==
    /\ path # <<>> /\ d \in Parents(path) \cup {<<>>}
    /\ \A p \in Parents(path) : IsPrefix(p, d)

\* bucketFS.ReadDir: files and directories, in the order of their names.
ReadDir(d) ==
    Sorted({Node(k, FALSE) : k \in {o \in objects : Holds(d, o)}}
             \cup {Node(s, TRUE) : s \in {x \in dirs : Holds(d, x)}})

\* The position of the first delimiter in text, 0 if there is none.
Index(text, delimiter) ==
    LET At == {i \in DOMAIN text : IsPrefix(delimiter, SubSeq(text, i, Len(text)))}
    IN IF At = {} THEN 0 ELSE CHOOSE i \in At : \A j \in At : i <= j

\* A faulty variant: the delimiter is looked for in the whole key.
RollUpWhole(key, prefix, delimiter) ==
    LET i == IF delimiter = <<>> THEN 0 ELSE Index(key, delimiter)
    IN IF i = 0 THEN Entry(key, FALSE)
       ELSE Entry(prefix \o SubSeq(key, 1, i + Len(delimiter) - 1), TRUE)

\* groupEntriesByDelimiter: the object itself, or what it is rolled up to.
RollUp(key, prefix, delimiter) ==
    LET rest == SubSeq(key, Len(prefix) + 1, Len(key))
        i == IF delimiter = <<>> THEN 0 ELSE Index(rest, delimiter)
    IN IF i = 0 THEN Entry(key, FALSE)
       ELSE Entry(prefix \o SubSeq(rest, 1, i + Len(delimiter) - 1), TRUE)

\* A faulty variant: the entry at the marker is kept.
AfterOrAt(entries, startAt) == {e \in entries : e.key = startAt \/ Less(startAt, e.key)}

\* filterObjectsByStartAt, filterAndSortCommonPrefixes
After(entries, startAt) == {e \in entries : Less(startAt, e.key)}

\* applyMaxKeysLimit
Limit(entries, maxKeys) ==
    LET sorted == Sorted(entries)
    IN SubSeq(sorted, 1, IF maxKeys < Len(sorted) THEN maxKeys ELSE Len(sorted))

\* A faulty variant: a page that is exactly full counts as the last.
IsTruncatedOver(page, maxKeys) == Len(page) > maxKeys

\* buildListResult
IsTruncated(page, maxKeys) == Len(page) >= maxKeys

-----------------------------------------------------------------------------
(* The query and the walk *)

Query == [prefix : PrefixArgs, delimiter : DelimiterArgs, first : StartArgs, maxKeys : PageSizes]

\* startAt: marker or continuation-token of the page; stack: what the walk has
\* still to visit; found: the entries collected; walked: those that count.
Walk(q, startAt) ==
    [pc |-> "walk", query |-> q, startAt |-> startAt,
     stack |-> <<Node(<<>>, TRUE)>>, found |-> {}, walked |-> 0]

Init ==
    /\ objects \in {K \in SUBSET Keys : \A k \in K : Parents(k) \cap K = {}}
    /\ dirs = {<<>>} \cup UNION {Parents(k) : k \in objects}
    /\ \E q \in Query : call = Walk(q, q.first)
    /\ listed = {} /\ displaced = {}
    /\ stable = objects /\ seen = objects
    /\ changes = 0 /\ faults = 0

Walking == call.pc = "walk" /\ call.stack # <<>>
Top == Head(call.stack)
Rest == Tail(call.stack)

\* walkDir
Descend ==
    /\ Walking /\ Top.dir /\ Top.key \in dirs
    /\ call' = [call EXCEPT !.stack = ReadDir(Top.key) \o Rest]
    /\ UNCHANGED <<objects, dirs, listed, displaced, stable, seen, changes, faults>>

\* The callback of collectEntries: does this file count against max-keys?
Counts(key) == call.query.delimiter = <<>> /\ Less(call.startAt, key)

Enough(key) == Counts(key) /\ call.walked + 1 > call.query.maxKeys + 1

\* A faulty variant: the walk goes on beyond the file that is enough.
CollectOnward ==
    /\ Walking /\ ~Top.dir
    /\ LET key == Top.key
       IN call' = IF ~IsPrefix(call.query.prefix, key) THEN [call EXCEPT !.stack = Rest]
                  ELSE [call EXCEPT !.stack = Rest, !.found = @ \cup {key},
                                    !.walked = @ + (IF Counts(key) THEN 1 ELSE 0)]
    /\ UNCHANGED <<objects, dirs, listed, displaced, stable, seen, changes, faults>>

Collect ==
    /\ Walking /\ ~Top.dir
    /\ LET key == Top.key
       IN call' =
            IF ~IsPrefix(call.query.prefix, key) THEN [call EXCEPT !.stack = Rest]
            ELSE IF Enough(key) THEN [call EXCEPT !.stack = <<>>]
            ELSE [call EXCEPT !.stack = Rest, !.found = @ \cup {key},
                              !.walked = @ + (IF Counts(key) THEN 1 ELSE 0)]
    /\ UNCHANGED <<objects, dirs, listed, displaced, stable, seen, changes, faults>>

\* The walk is over: the page is cut and answered, and the client asks for the
\* next one with NextMarker, the greatest entry of the page.
Answer ==
    /\ call.pc = "walk" /\ call.stack = <<>>
    /\ LET q == call.query
           entries == {RollUp(k, q.prefix, q.delimiter) : k \in call.found}
           page == Limit(After(entries, call.startAt), q.maxKeys)
           Earlier(i) == listed \cup {page[j] : j \in 1..i - 1}
       IN /\ listed' = listed \cup ToSet(page)
          /\ displaced' = displaced \cup
               {page[i] : i \in {j \in DOMAIN page :
                                   \E e \in Earlier(j) : ~Before(e, page[j])}}
          /\ call' = IF IsTruncated(page, q.maxKeys) THEN Walk(q, page[Len(page)].key)
                     ELSE [call EXCEPT !.pc = "done", !.found = {}, !.walked = 0]
    /\ UNCHANGED <<objects, dirs, stable, seen, changes, faults>>

\* A delete has pruned the directory the walk comes to: listInternal answers
\* with an error, and the client asks for the page again.
Vanished ==
    /\ Walking /\ Top.dir /\ Top.key \notin dirs
    /\ call' = Walk(call.query, call.startAt)
    /\ UNCHANGED <<objects, dirs, listed, displaced, stable, seen, changes, faults>>

\* A directory cannot be read (a file of it went while it was read, or the disk
\* fails): listInternal gives up, and the client asks for the page again.
Fail ==
    /\ Walking /\ Top.dir
    /\ faults < MaxFaults /\ faults' = faults + 1
    /\ call' = Walk(call.query, call.startAt)
    /\ UNCHANGED <<objects, dirs, listed, displaced, stable, seen, changes>>

\* PutObject renames the staged file into place; where a directory has the name
\* of the object, or a file the name of a directory on its way, it fails.
Put(k) ==
    /\ call.pc # "done" /\ changes < MaxChanges
    /\ k \notin objects \cup dirs /\ Parents(k) \cap objects = {}
    /\ objects' = objects \cup {k}
    /\ dirs' = dirs \cup Parents(k)
    /\ seen' = seen \cup {k}
    /\ changes' = changes + 1
    /\ UNCHANGED <<call, listed, displaced, stable, faults>>

\* DeleteObject removes the file, and then, one by one, the directories that
\* this leaves empty; one that gives up in between leaves them.
Delete(k) ==
    /\ call.pc # "done" /\ changes < MaxChanges
    /\ k \in objects
    /\ objects' = objects \ {k}
    /\ stable' = stable \ {k}
    /\ changes' = changes + 1
    /\ UNCHANGED <<dirs, call, listed, displaced, seen, faults>>

\* cleanupEmptyDirs
Prune(d) ==
    /\ call.pc # "done"
    /\ d \in dirs \ {<<>>} /\ ReadDir(d) = <<>>
    /\ dirs' = dirs \ {d}
    /\ UNCHANGED <<objects, call, listed, displaced, stable, seen, changes, faults>>

Serve == Descend \/ Vanished \/ Collect \/ Answer
Next ==
    \/ Serve \/ Fail
    \/ \E k \in Keys : Put(k) \/ Delete(k)
    \/ \E d \in dirs : Prune(d)

\* The goroutine of a page runs to its answer, and the client asks for pages
\* until one is not truncated.
Spec == Init /\ [][Next]_vars /\ WF_vars(Serve)

-----------------------------------------------------------------------------
(* Properties *)

NodeType == [key : Seq(Nat), dir : BOOLEAN]

\* Every variable has its type; the files and the directories form a tree; and
\* a page that is over has nothing left to visit.
TypeOK ==
    /\ objects \subseteq Keys /\ stable \subseteq objects /\ objects \subseteq seen
    /\ seen \subseteq Keys
    /\ \A k \in objects : k \notin dirs /\ Parents(k) \subseteq dirs
    /\ call.pc \in {"walk", "done"} /\ call.query \in Query
    /\ call.found \subseteq seen /\ call.walked \in 0..call.query.maxKeys + 1
    /\ \A i \in DOMAIN call.stack : call.stack[i] \in NodeType
    /\ call.pc = "done" => call.stack = <<>>
    /\ changes \in 0..MaxChanges /\ faults \in 0..MaxFaults

\* The pages, laid end to end, are one strictly ascending sequence that begins
\* after the marker of the query: whatever is put and deleted meanwhile, and
\* however often a page fails, no object and no common prefix comes twice.
PagesAscend == displaced = {} /\ \A e \in listed : Less(call.query.first, e.key)

\* Keys a query is about, and what the listing shows for a key: the key up to
\* the first delimiter that lies beyond the prefix, or else the key itself.
Asked(K) == {k \in K : IsPrefix(call.query.prefix, k)}
Shown(k) ==
    LET delimiter == call.query.delimiter
        Ends == {n \in Len(call.query.prefix) + Len(delimiter)..Len(k) :
                   SubSeq(k, n - Len(delimiter) + 1, n) = delimiter}
    IN IF delimiter = <<>> \/ Ends = {} THEN Entry(k, FALSE)
       ELSE Entry(SubSeq(k, 1, CHOOSE n \in Ends : \A m \in Ends : n <= m), TRUE)

\* Every entry of a page stands for a key of the query that existed at some
\* time while the client was listing: a common prefix is never left behind by
\* keys outside the query, nor a key kept from an earlier state of the bucket.
OnlyWhatWasThere == listed \subseteq {Shown(k) : k \in Asked(seen)}

\* Where the walk comes before: it compares directory by directory, as if
\* Slash were less than every character.
Walked(k) == [i \in DOMAIN k |-> IF k[i] = Slash THEN -1 ELSE k[i]]
WalksInOrder == \A j, k \in Asked(seen) : Less(j, k) <=> Less(Walked(j), Walked(k))

Found(K) == \A k \in Asked(K) :
               Less(call.query.first, Shown(k).key) => Shown(k) \in listed

\* When the last page is not truncated, every object that was there all the
\* time is listed or rolled up, however the bucket changed around it: always
\* with a delimiter, and without one as long as the walk meets the keys in
\* their order, for only then may it stop after max-keys of them.
StableKeysListed ==
    call.pc = "done" /\ (call.query.delimiter # <<>> \/ WalksInOrder) => Found(stable)

\* Without that condition, what the tests expect of a client that follows the
\* tokens: every object is found.  The code does not keep it.
EveryKeyListed == call.pc = "done" => Found(stable)

\* A page that is not the last gives the client a marker beyond its own, so that
\* it never asks for a page again that it was given.
MarkersAdvance ==
    [][call.stack = <<>> => call'.pc = "done" \/ Less(call.startAt, call'.startAt)]_call

\* A client that asks for the next page while the last one was truncated comes
\* to the end.
ListingEnds == <>(call.pc = "done")
=============================================================================
