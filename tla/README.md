# DirIO in TLA+

DirIO (`src/`) is an S3-compatible object server in Go that keeps objects as plain
files: the body of `bucket/key` is the file `<data>/bucket/key`, what S3 knows about it
beyond its bytes is a JSON file under `.dirio/`. There is no database in the object
path and hardly a lock: goroutines of Go's HTTP server read and write the directory
tree side by side, and the file system's rename and unlink are the only transactions.
This directory models that: the modules below are checked with TLC on small instances,
and theorems about them are proved with TLAPS for all values of their constants.

| Module | What it is |
|---|---|
| `ObjectStore` | PUT, GET, HEAD, DELETE, tagging and the ownership lookup over the data directory, the staging directory, the metadata JSON files and the metadata cache |
| `ObjectRegister` | what the object path promises about bytes: one linearizable register per key |
| `MCObjectStore`, `ObjectStore*.cfg` | instances of `ObjectStore` for TLC |
| `ObjectStoreProofs` | type correctness and the safety invariants of `ObjectStore` |
| `ObjectStoreRefinement` | `ObjectStore` implements `ObjectRegister` |
| `Multipart` | one multipart upload: parts, completion, abort, cleanup, restart |
| `MCMultipart`, `Multipart*.cfg` | instances of `Multipart` for TLC |
| `MultipartProofs` | type correctness of `Multipart` and the end of an upload's life |
| `Buckets` | one bucket name: directory, record, cached policy; create, delete, policy and owner updates beside object requests |
| `BucketsProofs` | type correctness of `Buckets`, and what requests that run alone leave and are answered |
| `PolicyEngine` | the decision on one request, as operators |
| `Authorization` | one request read by read through authentication, the middleware and the engine, while administrators change what it reads |
| `AuthorizationProofs` | type correctness of `Authorization` and its two other invariants |
| `IAMStore` | users, groups, service accounts and their indexes, with reconciliation at start |
| `IAMStoreProofs` | type correctness of `IAMStore` and its two other invariants |
| `Listing` | a client that pages through a bucket that changes under it |
| `ListingProofs` | type correctness of `Listing`, and all its properties but that a listing ends |
| `MinioImport` | start-up on a MinIO data directory, and both phases of the import |
| `MinioImportProofs` | type correctness of `MinioImport` and its five other properties |
| `MCBuckets`, `MCAuthorization`, `MCIAMStore`, `MCListing`, `MCMinioImport` and the configurations named after the modules | their instances for TLC |

Run them with `tlc -config ObjectStoreFull.cfg MCObjectStore` and `tlapm
ObjectStoreProofs.tla`; `PROJECT.json` lists every run, the source lines each definition
stands for, and for every checked property a mutant of the model that breaks it.


## 1. Inventory

Paths are relative to `src/internal/` unless they begin with `src/`.

### Object storage: `persistence/storage/object.go`, `staging.go`, `storage.go`; `service/s3/s3.go`

*State.* The data directory; the staging directory `.dirio-uploads/<bucket>` with one
temporary file per PUT in progress; `keyMutexes`, one mutex per bucket and key.
*Operations.* `PutObject` (stage, copy and hash, check the context, lock, rename, save
metadata, roll back), `GetObject`, `GetObjectMetadata`, `DeleteObject`, `CopyObject`,
`DeleteObjects`, tagging, and the sweep of the staging directory in `storage.New`.
*Interactions.* Calls the metadata store inside and outside the mutex; called by the HTTP
handlers and by `CompleteMultipartUpload`; the authorization middleware reads object
metadata before each object request, which fills the cache from requests that do not
want the object at all.
*Hard.* Only PUT takes the mutex. GET, DELETE and tagging interleave with it at every
file system call; the request context can be cancelled, and the process can die,
between any two of them.
*Correct when* a reader only meets whole uploads, every operation on the bytes looks
atomic, the mutex always comes back, and file and metadata do not drift apart.

### Object metadata: `persistence/metadata/metadata.go`, `jsonutil/jsonutil.go`

*State.* `.dirio/objects/<bucket>/<key>.json`, written in place (truncate, then write),
and `objMetaCache`, an LRU cache of pointers to records, over it.
*Operations.* `GetObjectMetadata` (cache, then disk, then fill), `PutObjectMetadata`
(disk, then cache), `DeleteObjectMetadata` (disk, then cache).
*Hard.* None of these is atomic and no lock spans disk and cache; tagging changes the
record through the pointer the cache holds, before it saves it.
*Correct when* a record always describes an upload that was really stored under the key,
and a torn file is never taken for a record.

### Multipart uploads: `service/s3/multipart.go`, `persistence/storage/staging.go`

*State.* `.dirio-uploads/<bucket>/<uploadId>/` with `upload.json` and, per part, a data file
and a JSON file that records its ETag.
*Operations.* Create, UploadPart, ListParts, Complete (verify all parts, read all parts,
`PutObject`, clean up), Abort (clean up).
*Hard.* No lock at all. A part is rewritten in place; Complete verifies and reads in
two passes; `os.RemoveAll` walks a directory that others recreate.
*Correct when* Complete stores the bytes the client named, and an upload that is over
stays over.

### Buckets: `persistence/storage/storage.go`, `service/s3/s3.go`, `service/s3/bucket_policy.go`

*State.* Bucket directories, `.dirio/buckets/<bucket>.json` (owner, policy), and the policy
cache of the policy engine.
*Operations.* create, delete, set owner, put and delete policy, load all policies at start.
*Hard.* Create is stat, then mkdir, then metadata; delete is "is it empty", then remove, then
metadata, and PUT recreates directories; updates of the record read, change and write
it whole; the policy goes to disk and to the cache without a lock around both.
*Correct when* a request that runs alone leaves directory, record and cached policy as it
says, and is answered as the bucket is, whatever races and crashes came before it.

### Policy engine and request authentication: `policy/`, `http/auth/`

*State.* The cache of bucket policies and the credential slots of the administrators;
everything else is a function of the request and of what it reads.
*Operations.* `Evaluate`: root, bucket policy, IAM policies (users, groups, service accounts
in inherit or override mode), ownership, default deny.
*Hard.* The order: which explicit deny beats which allow. And the reads: a dozen files and
cache entries, one after another, with no snapshot.
*Correct when* the decision is one that a single configuration gives.

### IAM store and services: `persistence/metadata/metadata.go`, `index.go`; `service/user`, `group`, `serviceaccount`

*State.* JSON files for users, groups, policies and service accounts; three indexes in
bbolt (by username, by access key, groups by user).
*Operations.* create, update, delete, membership, status, attach and detach policies;
`reconcileIndexes` at start.
*Hard.* File and index are separate writes; membership is read, changed and written
without a lock; uniqueness is checked before it is claimed.
*Correct when* what a request answered stays true of its user, account or group, an access
key signs in one user, and the index of members says what the files of the groups say.

### Listing: `persistence/storage/list_internal.go`, `storage.go`

*State.* None between two pages; the tree of directories, which puts extend and deletes prune.
*Operations.* walk, prefix, delimiter grouping, start-after, page cut, an early stop.
*Hard.* the order of the walk against the order of keys, page boundaries, and objects
and directories that come and go between two reads.
*Correct when* the pages of a listing, one after another, are the sorted keys and common
prefixes, each once.

### MinIO import: `persistence/metadata/import.go`, `startup/starter.go`, `compat/minio/import`

*State.* `.import-state`, `config.json`, and everything the phases create.
*Operations.* phase 1 before the server serves (policies, users, buckets, configuration), and
phase 2 in a goroutine beside it (object metadata, which the comment at `import.go:25` still
counts to phase 1, groups, service accounts).
*Hard.* resuming after a crash, writes in place, and racing clients.
*Correct when* what is recorded as imported is there, an interrupted phase is taken up again,
a finished one never, and no client is overwritten.

### Server lifecycle: `http/server/server.go`

*State.* `inShutdown`, `requestCount`, the authenticator's credential slots.
*Operations.* start, graceful shutdown, reload of credentials when the config file changes.

### The rest

Signatures and the chunked body reader, the web console, the command line client and SDK, configuration and encryption, mDNS, telemetry, health and logging. They
keep no shared state of the object store, or are pure functions of one request.

`PROJECT.json` lists the hazards of each component at their source lines. A hazard without a
property says why it has none.


## 2. Plan

In this order; what is done is marked.

1. **ObjectStore** with its register specification, runs and proofs. *Done.*
2. **Multipart**, runs, type correctness, `LateRequestsFail` and `SettledPartsStored` proved.
   *Done.*
3. **Buckets** and the policy cache, runs, `TypeOK`, `SoloAnswers` and `SettledBucket` proved. *Done.*
4. **PolicyEngine**, composed with the reads of a request in **Authorization**; all its properties
   proved. *Done.*
5. **IAMStore**, **Listing** and **MinioImport**, all their safety properties proved. *Done.*
6. Next: abstract specifications of what Multipart, Buckets and IAMStore promise when their requests
   overlap no other, and refinement proofs towards them, in place of the history variables `told`
   and `known` that now carry this.
7. If room is left: the chunked body reader as a state machine over buffers of any size.


## 3. ObjectStore

### State and steps

One variable per store: `file` (data directory), `staged` (staging directory), `disk` (JSON
files), `cache`, `lock`; `req` holds for every goroutine its program counter and the
locals that matter; `linked` holds the goroutines whose open JSON file still is the one
at its path, which decides whether a write into it is lost. `whole` and `committed`
are history: the bodies copied completely, and those ever renamed into place.

A body is a number that stands for all a PUT fixes: bytes, size, MD5, owner, content type.
A metadata record is the body it describes, and whether tags were added. A JSON file can
also be `Torn` (truncated, not yet written) or `Overlaid` (written by two goroutines at the
same offset); `json.Unmarshal` refuses both.

Each action is one file system call, one cache access or one lock operation together with
the code up to the next of them. The steps of a request:

| Request | Steps |
|---|---|
| PUT | `PutStage`, `PutCopy`/`PutCopyFail`, `PutFinalize`, `PutLock`, `PutRename`/`PutRenameFail`, `SaveTruncate`, `SaveWrite`, `SavePublish`, or `SaveFail` and `PutUndo` |
| GET, HEAD | `ReadStat`, `ReadOpen` (GET), `ReadLookup`, `ReadDisk`, `ReadFill`, or `ReadCompute` when there is no usable metadata |
| ownership lookup | `ReadLookup`, `ReadDisk`, `ReadFill` |
| tagging | `ReadStat` and a lookup, a second lookup, `TagMutate`, `SaveTruncate`, `SaveWrite`, `SavePublish` |
| DELETE | `DeleteStat`, `DeleteRemove`, `DeleteMeta`, `DeleteCache` |

`Begin` and `Reply` are the HTTP handler; `Cancel`, `Evict`, `Crash` and `Start` the environment.
`Start` contains the sweep of the staging directory, which is done before the server listens.

Abstractions: one bucket that exists; keys without slashes, so that the creation and pruning
of directories leaves no trace; bucket and key are valid. `CopyObject` is a GET whose bytes a
PUT carries, `DeleteObjects` a sequence of DELETEs. Range requests and listing are left out.
External to `src/`, and modelled from how the code uses them: the file system (atomic
rename, unlink of open files) and the LRU (`Evict`).

### Properties and runs

| Run | Instance | Shows |
|---|---|---|
| `object_store` | 2 goroutines, 1 key, 2 PUTs, all operations, cancellations, write failures, evictions, crashes | `TypeOK`, `WholeBodies`, `CommitExclusive`, `MetadataOfCommitted`, and that the model implements `ObjectRegister` (`Linearizable`) |
| `object_puts` | 2 goroutines, 2 keys, 2 PUTs, PUT and GET, no faults, with fairness | `LastWriteWins`, `RequestsReturn` |

*Why these bounds.* Every race of this code is between two goroutines at one key, for keys
share no state but the policies of the cache (eviction is modelled as spontaneous) and the
mutex table, which `object_puts` covers with a second key. Two PUTs give a "previous" and
a "new" version; a third value never distinguishes more because the code compares no two
bodies. All the theorems hold without these bounds, which is the better answer.
`ProcSymmetry` permutes goroutines only; it is used with invariants and a refinement that
treats goroutines alike, and not in the run with a liveness property.

*Fairness* (`FairSpec`). Weak fairness of every step of a request that was accepted: the Go
scheduler runs every runnable goroutine, and the server's `ReadTimeout` ends the upload of
a client that stalls. Strong fairness of `PutLock`: `sync.Mutex` hands the lock to a waiter
that has starved for a millisecond. `Start` is weakly fair: an operator restarts the
process. No fairness of new requests, cancellations, failures or evictions is assumed.

### What a failed PUT leaves

The comment at `object.go:245` says that a PUT succeeds completely or not at all. The register states
what the code does instead. A PUT that has its body in place and cannot save its custom metadata answers
with an error and removes the path, which the rename has already given the new body: the version it was
to overwrite is lost (`Erase`). If the file system refuses the removal too (`object.go:247-251`), the new body
stays and is read, although the PUT failed (`Keep`). These two are the only steps of `ObjectRegister` with which
a failed request has an effect, and `Linearizable` is checked and proved with them. It speaks of bytes; what
the rollback leaves of the metadata is bounded by `MetadataOfCommitted` only.

Two more races are in the model, and without a run of their own. A HEAD reads the old JSON, a
PUT updates disk and cache, the HEAD fills the cache with what it read: from then on the
cache serves the ETag and size of the previous version until the entry is evicted or
rewritten (`ReadFill` after `SavePublish`). And a file that goes away between `ReadStat` and
`ReadOpen` is answered with status 500, where the comment at
`src/tests/integration/concurrent_test.go:334` wants 200 or 404.

### Proofs

`ObjectStoreProofs` proves, from the assumptions on the constants alone:

| Theorem | Statement |
|---|---|
| `TypeCorrect` | `Spec => []TypeOK` |
| `MutexHeldByCommit` | `Spec => []CommitExclusive` |
| `BodiesAreWhole` | `Spec => []WholeBodies` |
| `MetadataIsOfCommitted` | `Spec => []MetadataOfCommitted` |
| `LastWriteWinsTogether` | `Undisturbed => (Spec => []LastWriteWins)`, where `Undisturbed` says that only PUTs and reads are requested and that nothing is cancelled, fails or crashes |

and `ObjectStoreRefinement` proves `ObjectsAreRegisters`, `Spec => Linearizable`.

None of the invariants is inductive alone. The strengthening comes in layers, each of which
uses the ones before:

1. `Control`: what a goroutine has in hand at each program point. A PUT carries a real body;
   whoever saves, or fills the cache, has a record that was parsed or built from a commit;
   tagging never computes metadata the second time.
2. `Fresh`: PUT bodies are distinct and never larger than the counter; a body is in no
   `committed` set before its rename, and is `whole` from its finalize on. `WholeBodies` needs
   this to know that a rename cannot bring back something already committed elsewhere.
3. `Carried`: the metadata in hand of any goroutine is that of a committed body. Without it, a
   slow reader could fill the cache with something that never was on disk.
4. For `LastWriteWins`, what the mutex holder has done so far, and that nobody else writes.
5. For the refinement, `Answers`: a request has no outcome before it is answered, and between its
   rename and its unlock a PUT finds at the path its own body or, after a DELETE, none. That is
   what makes `Erase` and `Keep` of the register, the rollback, steps of the abstract specification.

The refinement maps a PUT to its rename, a GET to its open, a DELETE to its remove, and a
request that finds nothing to the moment it looks. A request that fails has no effect, save
for the rollback; the register says so in `Erase` and `Keep`.


## 4. Multipart

### State and steps

One upload directory: `live` (does `upload.json` exist), `data` and `etag` per part, `object` for
what Complete stored last. A part's content is a body, `Absent`, or `Torn`. `linked` and `overlap`
follow open files: `linked` are the goroutines whose open file is the one at its path (a cleanup
may have unlinked it), `overlap` those whose file another goroutine opened and truncated too, whose
bytes may therefore end in either's favour or mixed.

| Request | Steps |
|---|---|
| CreateMultipartUpload | `Create`, one step because the upload ID is a fresh UUID |
| UploadPart | `Check`, `PartCreate`, `PartCopy`/`PartCopyFail`, `PartDescribe`, `PartDescribed`/`PartDescribeFail` |
| Complete | `CompleteOpen`, `VerifyPart` per part in order of number, `Verified`, `ReadPart` per part, `Assembled`, `Store`/`StoreFail`, then the cleanup |
| Abort | `Check`, then the cleanup |
| cleanup | `CleanupList`, `CleanupListParts`, `CleanupRemove` per file, `CleanupEnd`, or `CleanupFail` |
| process restart | `Restart`, the death of the process with the sweep that comes before any request |

The cleanup is `util.RemoveAll`, external to `src/`: it lists a directory once, removes what it saw,
goes into `parts` when it gets there, and fails if a directory is not empty in the end. Abort
returns that error, Complete ignores it. A removal or a listing that fails (`CleanupFail`) is modelled where it
leaves `upload.json`; part files that stay without it are out of every request's reach. `PutObject` is a single step, `Store`; that the object path
looks atomic is what `ObjectStoreRefinement` proves. `ListParts` changes nothing and is left out.
A Complete may name any subset of the parts, each with the ETag of any body sent so far, also none;
that it may name a part twice is not modelled.

### Properties and runs

| Run | Instance | Shows |
|---|---|---|
| `multipart` | 2 goroutines, 2 parts, 2 bodies, all operations, broken uploads, failing writes and removals, restart | `TypeOK`, `LateRequestsFail`, `SettledPartsStored` |
| `multipart_verify` | 1 client, 1 part, 2 bodies | `VerifiedPartsStored` is violated |

`LateRequestsFail`: a request that begins after the upload was completed, aborted or swept gets
"multipart upload not found". What could go wrong is that a slow `UploadPart` recreates the directory
after the cleanup; it does, but without `upload.json`. The exception is a cleanup that fails: Complete succeeds
all the same ("best effort", `multipart.go:242`), and the upload stays as if it had not been completed.

`SettledPartsStored`: what can be said of Complete in spite of its missing lock. If the last
`UploadPart` of a part worked on it alone and succeeded (`settled`), and none has begun to write it
since (`sure`), then a Complete that succeeds stores the body whose ETag it named, even if other
parts are torn, another Complete or an Abort runs beside it, or the upload fails in between.

`VerifiedPartsStored` is the same without the provisos, which is what the comment at
`multipart.go:195` says; one client suffices to break it: it uploads a part, uploads it again, the
second upload breaks off after the truncation, and a Complete with the first ETag stores the torn
data. The model also has, without a run, what the comment at `multipart.go:253` does not expect of an
Abort: an `UploadPart` past its Stat recreates the directory, gets 200, and its files remain until the
next start.

*Bounds.* Two parts make a Complete that verifies and reads more than one file, so that something can
happen between; two bodies let a part be uploaded twice, or two parts once each; two goroutines give
every pairwise race. A third body was tried (24 million states in five minutes without a
violation, unfinished) and is left out for time; with two the run has 9 million states.

### Proofs

`MultipartProofs` proves `TypeCorrect` (`Spec => []TypeOK`), `LateFails` (`Spec =>
[]LateRequestsFail`) and `SettledStored` (`Spec => []SettledPartsStored`) for any number of
goroutines, parts and bodies. The inductive invariant of the second is `Life`: an upload that
ended was created and has no `upload.json`; a request implies that the upload was created, so that
`Create` cannot happen again; a cleanup that does not have `upload.json` on its list found it gone
or has removed it; a late request is at its check, or was answered "not found".

The inductive invariant of the third is `Settling`, of four parts. `Role`: only an `UploadPart` runs
its steps. `AloneOK`: an `UploadPart` that has been alone on its part so far shares no file, and finds
in it what it wrote, or nothing if a cleanup removed it. `SettledOK`: both files of a settled part
are those of its body or absent, and nobody has them open. `SureOK`: what a Complete has verified
and read of a part that was settled all along is that body. The property alone is not inductive: it
says nothing of the files, nor of the Complete before its end. `WorkSettling` and `QuietSettling`
carry the steps that write the files of one part only, and those that write none.


## 5. Buckets

### State and steps

One bucket name, for names share nothing: `dir` (does its directory exist), `obj` (does it hold an
object), `rec` (the JSON file: a record, none, truncated, or two records written over each other),
`linked` (the goroutines whose open JSON file is the one at its path), `cached` (the policy in
the engine's cache). Every request may run beside every other, for none of them takes a lock.

| Request | Steps |
|---|---|
| create | `CreateStat`, `CreateMkdir`/`CreateMkdirFail`, `SaveTruncate`, `SaveWrite` or `SaveFail` and `CreateUndo`, `CreateShow` |
| delete | `DeleteFind`, `DeleteList`, `DeleteRemove`, `DeleteRecord`, or `DeleteFail` |
| put, delete policy | `PolicyExists`, `Load`, `SaveTruncate`, `SaveWrite`/`SaveFail`, `Publish` |
| set owner | `Load`, `SaveTruncate`, `SaveWrite`/`SaveFail` |
| object requests | `ObjectHead`, `ObjectScope` (which makes the directory), `ObjectTouch` |
| crash, start | `Crash`, `Start` (`LoadBucketPolicies`) |

`known` is history: what the requests that ran alone (no other request was in progress at any time
between their first and last step) tell of the bucket. It is what the properties compare with.

### Properties and runs

`buckets` (2 goroutines, 2 owners, 2 policies, all operations, failures, crashes; 1.77 million
states) checks `TypeOK`, `SettledBucket` and `SoloAnswers`. What two overlapping requests leave
is not promised by the code, and hardly anything can be said of it: two creations both succeed, an
update overlapping a delete and a creation carries the old owner into the new bucket, a GET that
passed its check recreates the directory of a bucket that is gone. So the properties say that this
does not last. `SettledBucket`: as soon as one request has run alone, directory, record and, from the
first policy update or restart on, the cached policy are what that request said, and they stay so
until requests overlap again. `SoloAnswers`: a request alone is answered as the bucket is; in
particular, nothing that a crash or a race leaves behind outlives one DELETE that runs alone. The answer to a
policy update on a bucket that is gone is an error of the server, for the handlers turn every error into
that (`http/api/s3/bucket_policy.go:40-47`, `:90-94`). A start that cannot read the policies only warns and serves
with none (`server.go:180-183`); `Start` may do so where `CanFail`, and what is cached is then known from the next
policy update on.

`buckets_policy_cache` (1 client) finds `CachedPolicyStored` violated, which the comment at
`policy/cache.go:15` ("Nothing in cache that's not on disk") states: `DeleteBucket` does not tell the
policy engine, and a bucket created later under the name is served under a policy its record does
not have.

*Bounds.* Two goroutines give every pairwise race, two policies and none are what one update can
leave of another, two owners are what an update can lose; requests are not counted, so that any
number of them follow one another.

### Proofs

`BucketsProofs` proves `TypeCorrect` (`Spec => []TypeOK`), `SoloAnswered` (`Spec => []SoloAnswers`) and
`Settled` (`Spec => []SettledBucket`) for any number of goroutines, owners and policies. Neither
property is inductive: they speak of the bucket between requests and of answers, and say nothing of
a request on its way. `IInv` adds that. `Role`: only a request of a kind runs the steps of the kind, and
only one that is writing has the record open. `Down`: without a process there are no requests.
`SoloOK`: at most one request is still alone, and what it found known of the bucket still is.
`NothingInvented`: of a bucket that is not known to exist no policy is known. `Calm`: while only object
requests are in progress, all that is known of disk and cache is so, and none of them can make a
directory where there was none; this carries `SettledBucket`. `Working`: what a create, delete,
policy or owner update that is still alone has done to directory and record at its program counter.

A step of such a request goes on (`Continue`), is answered rightly (`Answered`, and `Refused`, which
changes nothing), or fails, after which nothing is known (`Failed`); `BucketStep` goes through the
sixteen of them. `Object` and `ObjectStepInv` are about object requests, `BeginInv`, `ReplyInv`,
`CrashInv` and `StartInv` about the rest.


## 6. PolicyEngine and Authorization

`PolicyEngine` holds the decision as operators without state: patterns with a final `*` and the
variable `${aws:username}`, the clauses `Action`/`NotAction`, `Resource`/`NotResource` and
`Principal`, conditions, documents, the first named document that decides, the bucket policy before all
IAM policies, ownership last, and the table of permissions each route needs. Names are sequences of
tokens. Of the operators of conditions there is equality and its negation, for the others differ in how
they compare two values only.

The order is that of the code, where a comment says otherwise: an Allow of the bucket policy
is returned before any IAM policy is evaluated, although `engine.go:68` says "Explicit deny from IAM
beats everything"; of several IAM documents the first that decides wins, although `types.go:76`
calls an explicit deny "highest precedence, always wins". `DenyWins` (below) shows it. A condition whose key the request lacks
fails, which makes a `Deny` under such a condition not apply.

`Authorization` takes one request through the code, read by read: `LookUpUser`, `LookUpAccount`,
`AddContext`, `Classify`, `FetchBucketOwner`, `FetchObjectOwner`, `ConsultBucketPolicy`,
`ResolveNames`, `ResolveGroups`, `ResolveGroup` per group, `ConsultPolicy` per document, and again from
the owners on for the second check of a CopyObject. `conf` is everything these steps read, one entry per
file, cached document or credential; `Change` replaces one entry.

The run `authorization` (an administrator, a user, a service account of hers in inherit or
override mode, an anonymous client; one group, two policies, two objects, every value of eleven entries;
3.68 million states) checks `AnswerOfOneMoment` and `AllowedForReason`. The first says: whoever is allowed or denied is so by one
configuration, before the change or after it; reads of two moments never add up to an answer
that neither gives. `Answer` is the reference, the same decision taken at one moment. For
CopyObject this holds for each of the two checks; that both are of the same moment the code does not
ensure. The exceptions are those of `OwnKeyStable`, changes of what the requester's own key stands
for. `withSAContext` reads the service account a second time, and if it is gone by then the request
goes on as that of a user without parent. The administrator's credentials are read twice as well,
when the request is authenticated and when it is classified, and a reload (`UpdatePrimaryCredentials`,
`auth.go:120`) may fall in between. And `user.Create` does not ask whether its key is one of an account, so that a key may be
both.

`AllowedForReason` states what a decision needs, in terms of the statements that apply and without the engine's
order of evaluation. A request is allowed only if at one moment there is a reason to (`MayAllow`): the requester is
the administrator; or the bucket policy does not deny it, and a document in force (the bucket policy, the
attached documents, or the embedded policy of an account in override mode) grants it, or the requester owns the
object or its bucket and no document denies it. It is denied only if at one moment something was missing or against
it (`MustAllow`: a reason, and no Deny in any document in force). Between the two lies a request that one
document grants and another denies, which is left to `DenyWins`.

`DenyWins` says what the two comments say: nobody but the administrator is allowed what any document in force
denies. The run `authorization_deny` (the same instance without changes, `MaxOvertakes = 0`, so that no race is
involved) finds it violated: a request is allowed by the bucket policy, or by the first attached document, while
another attached one denies it. Of the bucket policy's own Deny, the part of the claim the code keeps,
`AllowedForReason` says that it wins.

*Bounds.* One change overtakes a request (`MaxOvertakes`); with two, mixed answers are to be expected
of any code without a snapshot. Before and after the request, changes are free, so that every
configuration of the instance is met. `TypeOK` also says that a request with two checks is never past its
second.

### Proofs

`AuthorizationProofs` proves `TypeCorrect`, `AnswersAtOneMoment` (`Spec => []AnswerOfOneMoment`) and
`ReasonsGiven` (`Spec => []AllowedForReason`) for any users, accounts, groups, policies, documents,
objects and queries, any number of documents attached and any number of groups.

*Assumptions.* The credentials, the bucket's policy, the owners, the groups and the policies have an entry
each, which may be empty or inactive, for a file that is not there reads as that; what is attached
names policies; the index holds a group of a user once, which `groupIndexAdd` ensures with
`slices.Contains`; at most one change overtakes a request; and the administrator's id is not that
of a request without a key.

*The invariant* (`IInv`) has two parts beside the types. `Moments`: `old` and `conf` differ in one entry at
most. `OneMoment`: the checks before the present one were each answered as in `old` or in `conf`, and
the present one follows one of the two configurations c (`Follows`): what the request has learned is so
in c (`Tracks`, which says for every program counter what that is), and if c is not the present
configuration, all it has yet to read is the same in both (`Ahead`), or else is one policy that was
attached twice and is behind the request as well as before it (`Reread`). This is needed because the
property speaks of the answer alone: `Tracks` is what makes a step of the request come to what `Answer` comes
to in one stroke, and `Ahead` is what makes it no matter that c is a moment ago.

`StepKept` shows that a step keeps it or ends the check as `Answer` does, `Overtaken` that a change of one
entry does: what it changes is either behind the request, which then follows `old`, or before it, so that it
follows `conf`. `NextCheck` begins the second check of a copy. `ReasonsGiven` follows from it and from a lemma
about one configuration, `AnswerJustified`: the engine's order of evaluation allows a request exactly if the
statements that apply or the owners give a reason in that order (`Justified`, a definition of the proof); `AnswerBetween`
puts it between `MustAllow` and `MayAllow`. Three consequences answer what an
administrator asks first: where a Deny of the bucket policy applies, she is allowed and nobody else
(`DenyStopsOthers`); a request without a key is allowed exactly if the bucket policy grants it
(`AnonymousByBucketPolicy`, which assumes that no key is the empty one); and a service account in override
mode has nothing of its parent's policies or ownership (`OverrideConfines`). The lemmas about `Gather` and `EvaluateNamed`,
which go through lists of any length, are by induction, see section 10.


## 7. IAMStore

### State and steps

`files` maps every user, group and service account to what its JSON file holds; `holder` is the index of
access keys, `member` that of group members; `linked` as in Buckets. A user's name is its key here, so
that the index of names and that of keys, which are always written together, are one. `told` is
history: what the answers so far tell of each user and account. `mixed` is history too: groups
whose changes have overlapped or failed, and keys whose deletion overlapped.

| Request | Steps |
|---|---|
| user: create | `Find`, `Claim` (index), `Truncate`, `Write`/`SaveFail` |
| user: enable, disable, attach | `Get`, `AttachedAlready` or `Claim`, `Truncate`, `Write`/`SaveFail` |
| user: delete | `FindGroups`, per group `LeaveGroup` with the steps of leave, `Load`, `Remove`/`RemoveFail`, `Unclaim`/`UnclaimFail` |
| group: create, delete | `StatFile`, `Truncate`, `Write`/`SaveFail`; `Get`, `Load`, `Remove`, `RemoveFromIndex`/`IndexFail` |
| group: join, leave | `CheckUser`, `ReadGroup`, `Truncate`, `Write`/`SaveFail`, `AddToIndex`, `RemoveFromIndex`/`IndexFail` |
| account: create; update; delete | `Find`, `StatFile`, then as above; `Get`, then as above; `Get`, `Remove`/`RemoveFail` |
| crash, start | `Crash`, `Start` (`reconcileIndexes`), `StartFail` |

A start reconciles in two transactions, and only logs it when one fails or the groups cannot be listed
(`index.go:135-143`, `:179-181`): `StartFail` leaves either index, or both, as it was. The keys are those
of the index of UUIDs built from the directory `users`; that this directory cannot be read, which empties the index of keys
(`metadata.go:210`), is not modelled, like other reads that fail.

Changes of a user's name or key, the policies of groups, the status of groups, and the named policies
(single files without an index) are left out.

### Properties and run

`iam_store` (2 goroutines, 2 users and 1 service account that compete for one key, 1 group,
12 operations, 5 requests, 2 failed writes or crashes; 783 thousand states):

* `AnswersHold`: what a request answered of a user or an account is so: the file has the status of the
  last answer, and the user's key signs in that user and no other, through the failures and crashes of
  everything else. Excepted are users whose requests overlapped, failed or died, and keys that a
  deletion freed while another request about the deleted user was in progress, for `DeleteUser` removes
  the index entry whoever holds it by then.
* `MembersAgree`: `member`, which alone decides whose policies a group gives, agrees with the files of
  the groups when no change of them is in progress, unless changes of the group overlapped, failed or died
  with the process (`mixed`) and no start has rebuilt the index since; a start whose reconciliation failed
  leaves it as diverged as it was. The empty name that `groupIndexAdd` puts before the first group
  of a user is in the model and is never taken for a group.

*Bounds.* Five requests are two users, a membership, and a deletion with one more request beside it;
`MaxRequests` and `MaxFaults` bound a run, which therefore ends (`CHECK_DEADLOCK FALSE`). Symmetry
permutes goroutines and UUIDs, which the code treats alike.

### Proofs

`IAMStoreProofs` proves `TypeCorrect`, `AnswersCorrect` (`Spec => []AnswersHold`) and `MembersCorrect`
(`Spec => []MembersAgree`) for any number of goroutines, users, keys, groups, requests and faults, from the
assumption that the sets of names are disjoint.

`TypeOK` alone is not inductive: what a goroutine writes next is in its locals, so `FilesTyped` says what the
file of a user, a group and an account can hold, and `Shape` what the locals of a request are at every
program counter.

`Accounts` strengthens `AnswersHold`, which speaks of what was answered and says nothing of a request on its
way. `Apart`: without a process there are no requests, a request that is alone shares no user, account or
group with another, and a group that two requests share is `mixed`. `Claimed`: not only the key of every user's file
signs in the user, unless it is `mixed`, but also that of a file about to be written, and that of one which
a deletion, alone, has read or removed. `Fresh`: while a UUID is new no file has it, and requests about it
but its creation find none. `Undisturbed`: what an update has read is still in the file, a file opened is
still at its path, and a file removed is not back, as long as the request is alone. `Known`: unless a
request has changed the file and not yet answered (`Committed`), the file is as the last answer told.

`Memberships` strengthens `MembersAgree` by `GroupKnown`: of a group that is not `mixed`, index and file agree
for every user while no request is changing it; while one is, they agree for every user but the one who
joins or leaves, and for that one the file, then the index, is as far as the request's program counter says
(`Halfway`; of a group just deleted the index holds no more users than its file did); and a deletion about to remove the file knows what it holds (`Removing`). Each of the two
invariants has one lemma per kind of step, on top of those for the types.


## 8. Listing

A client pages through a bucket of up to five keys (`a`, `a-b`, `a/a`, `a/b`, `a/b/a`: a name that sorts
before the separator, and a file that may take the name of a directory) with every prefix, delimiter,
marker and page size of the instance, while up to two objects are put or deleted and one page fails.
Keys are sequences of numbers, so that they compare as Go strings do.

`Descend` reads one directory, `Collect` takes one file to the callback of `collectEntries` with its
early stop, `Answer` rolls up, filters, sorts, cuts and gives the next marker. `Delete` leaves
directories for `Prune`, so that the walk may come to one that is gone: then, as when a read
fails (`Fail`), the page is an error and the client asks again (`Vanished`).

`listing` (285 thousand states, every bucket as initial state) checks `PagesAscend`, `OnlyWhatWasThere`,
`StableKeysListed`, `MarkersAdvance` and `ListingEnds`. `Shown`, the reference for what a key is listed as, is stated
without the steps of the code. A page that is exactly full counts as truncated: one more, empty
page follows. *Fairness*: weak fairness of `Serve`, a goroutine that runs and a client that asks for the
next page; changes, failures and prunings are not fair, and the number of changes is bounded, since a
client that lists an ever-growing bucket need not come to an end.

`listing_pages` finds `EveryKeyListed` violated: without a delimiter the walk stops after
max-keys + 1 files, in the order of directories, which is not that of keys: `a-b` sorts before `a/a`
and is walked after it where `a` is a directory, so that with one key per page it is on no page.
`StableKeysListed` therefore asks for a delimiter, or for keys that are walked in order.

`MarkersAdvance` is the reason why a listing ends, and holds without a bound on the changes: a page that is
not the last gives a marker beyond its own.

The filter by permission, which removes entries of a page afterwards, is left out, and so is
`ListObjectVersions`.

### Proofs

`ListingProofs` proves `TypeCorrect`, `PagesInOrder` (`Spec => []PagesAscend`), `ShownWasThere`
(`Spec => []OnlyWhatWasThere`), `NothingIsMissed` (`Spec => []StableKeysListed`) and `ForwardOnly`
(`Spec => MarkersAdvance`) for any finite set of keys, any prefixes, delimiters, markers and page sizes, and
any number of changes and faults. Of a key it is assumed that it is not empty and neither begins nor ends
with the separator.

First come the facts about data that the properties rest on, none of which the provers know: that `Less` is
a strict total order (`LessParts`: one key is less where the two part), that a finite set has one sorted
sequence (`SortedIs`, for sets whose members differ in their keys, which is why nodes and entries are shown
to), what a directory holds and what leads on from it to a key (`ReadDirIs`, `NextOnTheWay`), and that
`RollUp`, which cuts off the prefix, looks for the delimiter and puts the prefix back, comes to `Shown`
(`RollUpIs`).

*The invariant.* `Ordered` adds the marker to `PagesAscend`: what is listed is not beyond it. `Founded` is
`OnlyWhatWasThere`, with `Walks` for what the walk has in hand. `StableKeysListed` speaks of listings that
have ended, and needs most: `Covered`, that a key that stays was found or is under a node of the stack,
unless the walk has given up before it (`GivenUp`); `InTurn`, that the stack and what was found are in the
order of the walk, which compares as if the separator were less than every character (`Siblings` shows that
sorted names in each directory make it so); `Counted`, that the count of the walk is that of the keys found
beyond the marker; and `Delivered`, that what is not beyond the marker is listed. A walk that gives up has
more keys than the page takes, all before those it has not seen, so that the page is full and its marker
before them (`GivenUpIs`): this is where keys must be walked in order. `IInv` was checked by TLC on the
instance of the run before it was proved. One lemma for each action shows that it is kept; `AnswerKeeps` is
the one about the page.


## 9. MinioImport

### State and steps

`file` holds one entry per item to import, `config` and `state` stand for `config.json` and
`.import-state`; `torn` is a file created or truncated and not written. A configuration is where it comes from
(made up, or MinIO's) and whether it has credentials (`keyed`). `pc` follows `startup.Init`,
`MigrateMinIO` and what comes after it in both commands, `Prepare` of serve and `handleFirstInit` and
`handleExistingDir` of init; `given` is whether credentials are on the command line; `memory` is the
configuration the process has; `work` is the phase in progress. `failed`, `misloaded`, `lost`, `touched` and
`clobbered` are history.

Start-up: `Start`, `Detect`/`MigrateFail`, `PrepareSave`, `PrepareSaved`/`PrepareFail`, `Serve`. A configuration is
saved (`MustSave`) by either command if it was made up at this start, and by init if it lacks credentials
that are given. A phase: per item
`Pick` (the look whether it is there), `ItemTruncate`, `ItemWrite`/`ItemFail`; then `ConfigTruncate`,
`ConfigWrite` (phase 1), `RecordTruncate`, and `RecordWrite`, which loads the configuration again,
`ReloadFail` or `SaveFail`; `ReadFail` when MinIO's
files cannot be read. `ClientWrite` and `ClientRemove` are clients beside phase 2; `Stop` is a crash
or a shutdown, which does not wait for phase 2.

Abstractions: a user's file is the one its access key leads to, since the import gives every user a new UUID
and looks for users by key (`import.go:214`); built-in policies, which are always found, are no items; MinIO always
has a configuration, for `Import` makes up what it does not find. Reads of `startup.Init` that
fail end the process before it has done anything, which is no step here.
The commands that change a configuration afterwards ("credentials set", "config set"), and a second process on
the directory, are not modelled.

### Properties and run

`minio_import` (one item of each kind, three faults, two changes by clients, init and serve in any order with
and without credentials, MinIO's configuration without any; 3.29 million
states) checks `RecordedMeansImported`, `ClientsWin`, `ConfigAuthoritative`, `ImportResumed` and
`ImportsOnce`. Their exceptions are the code's:

* an item that cannot be saved is logged and given up, and the phase is recorded as complete (`lost`);
* a client that writes between the import's look and its write is overwritten (`raced`);
* a `.import-state` that a crash left torn is an error at every start, so that the import never goes on, while
  the server serves (`failed`);
* `dirio init` only warns when it cannot load the configuration it has just imported (`starter.go:208-211`,
  `init.go:65-67`), goes on with the one it made up or had before, and may save that over MinIO's, after phase 1
  was recorded (`misloaded`). `starter.go:12` promises "a consistent, authoritative DataConfig" to subsequent serve runs: that
  it is the one on disk holds even then, that it is MinIO's does not;
* once both phases are recorded, `dirio init` with credentials still writes `config.json`, if there are none in it
  ("Existing credentials are never overwritten", `init.go:27`): `ImportsOnce` allows this and nothing else;
* a torn `config.json` makes every start fail (`refused`, where the model stops: `CHECK_DEADLOCK FALSE`).

*Bounds.* The stages come one after another and an item meets no other of its kind, so one per stage
suffices; three faults are a torn file, a crash during the repair and one more. `MinioKeyed` is FALSE, for
with credentials in MinIO's configuration there is nothing for a later init to set; the theorems are for both.

### Proofs

`MinioImportProofs` proves all six (`TypeCorrect`, `RecordedImported`, `ClientsKept`, `ConfigKept`,
`Resumed`, `ImportedOnce`) for any sets of items and any number of faults and changes. Assumed is only
that the sets are disjoint, each account has a parent, `MinioKeyed` is a truth value, and the bounds are numbers. `IInv` ties the
phase in progress to the files: `PhaseKnown` (which phase is run tells `.import-state`, and the other way
round), `Imported` (all that is no longer to do is there, given up, or a client's), `InHand` and
`ClientsKnown` (the item in hand is not a client's unless the client raced, and once created it is there
or was removed by one), `ConfigKnown` (after a recorded phase 1 the configuration on disk is MinIO's or torn, and the
one in memory is the same, unless an init has gone on without it; a configuration made up at this start excludes a
recorded phase 1, with the same exception; whoever saves one in place is an init with credentials) and `Finished`.
TLC checked `IInv` on the instance of the run before it was proved. `RecordedMeansImported` alone
is not inductive, for it says nothing of the phase before it is recorded. One lemma for each part goes
through all actions.


## 10. What is only model-checked

* `RequestsReturn` and `ListingEnds`: liveness is out of the prover's reach. Of `ListingEnds` the part that is
  safety, `MarkersAdvance`, is proved.
* The violated properties, of course, are shown by TLC's counterexamples only.

Every invariant and every action property of the passing runs is proved. Where an induction over data was
needed, for the lists of documents and groups in `AuthorizationProofs` and for sorted sequences in
`ListingProofs`, it is stated over a set of natural numbers: a counterexample of least length, which exists
because the naturals are well-founded, or the rank of an entry among those before it.

## 11. What is not modelled

* The web console (`src/console`), with its generated templates and icon tables, and the adapter under
  it: forms over the services that are modelled, no state but sessions. Its lists take only the first
  1000 entries of a listing. Together with the command line client, the SDK, the XML and JSON formats
  and the parsers of MinIO's files it is the greater part of the lines of the repository, which is
  why the map covers only a small share of them: what those lines do is layout, transport and
  conversion.
* Signature verification, encryption and configuration: pure functions and cryptography. The
  expiry of accounts. The chunked body reader, a parser of one request.
* Server lifecycle: a credential reload replaces one slot as a whole, and shutdown is that of `net/http`.
* mDNS, telemetry, health and logging: observation only.
* Keys with slashes in ObjectStore: the making and pruning of directories is in Listing and, for the
  bucket's own, in Buckets, but not its race with a PUT on the same path.
* Durability: nothing in the code calls fsync, and a crash here is a crash of the process, after
  which the file system has everything that was written. A power failure can lose more.
* Several server processes on one directory.
* Times (`LastModified`), conditional requests and ranges.
