# home-store in TLA+

home-store is a small S3-compatible object store: an HTTP server (`internal/api`)
on top of a file-system backend (`internal/storage/fs`) that keeps everything in
one data directory. This directory holds TLA+ modules that model it, TLC
configurations that check them, and TLAPS proofs. The interesting part of the
program is what it does *not* have: there is no lock, no transaction and no
recovery at start. Every request is a goroutine that makes a sequence of
file-system calls, and the order of those calls is all that keeps an object's
data, its metadata and its bucket together.

## 1. Inventory

| component | state | operations | meets the others through |
|---|---|---|---|
| object storage, `fs/objects.go` | `<b>/.objects/<sha256(k)>`, `.tmp-*` | `PutObject`, `GetObject`, `DeleteObject`, `ListObjects`, `HeadObject`, `CopyObject`, `RenameObject` | the data directory; `BucketExists`; the metadata store |
| metadata store, `fs/metadata.go` | `<b>/.metadata/<sha256(k)>.json` | `PutMetadata`, `GetMetadata`, `DeleteMetadata`, `ListMetadata` | called by object storage |
| bucket storage, `fs/fs.go` | `<b>/`, `bucket_metadata/<b>/.bucket.json` | `CreateBucket`, `DeleteBucket`, `BucketExists`, `GetBucketLocation`, `ListBuckets` | its files contain those of the objects |
| multipart uploads, `fs/multipart.go`, `api/multipart.go` | `<b>/.multipart/<id>/` | create, upload part, list, complete, abort | ends in `PutObject` and `PutMetadata` |
| handlers, `api/*.go` | none | one per request kind; batch delete, copy and rename call storage several times | call the backend, map errors to S3 codes |
| routing, `api/handler.go` | none | `routeRequest` | calls the handlers |
| process, `main.go`, `server.go` | signal channel, listener, the two goroutines | start, serve, shut down, exit | net/http runs the handlers |
| bucket names, `storage.go` | none | `IsValidBucketName`, `isIPAddress` | called by bucket handlers and `CreateBucket` |
| configuration, wire types | none | flags, environment, XML | read once; formatting |

Hard behaviour: interleaved calls of concurrent requests; a process killed
between two calls; `os.WriteFile`, which truncates a live file and then writes
it; uploads that break off; a full disk; checks (`BucketExists`, the scan of
`.objects`) whose answer is old when it is used; temp files of dead processes;
two goroutines that can each end the process. `PROJECT.json` lists these hazards
with their lines. There are no timeouts or retries inside the program except the
30 s limit on shutdown.

What makes the components correct: an object is its body *and* its metadata, of
one and the same upload; a read returns one such version; a PUT repairs whatever
was there before; a DELETE and a batch remove what they name; a rename never
loses the only copy; listings show what is there, and a client that follows their
markers sees every key once; the parts of an upload are what was sent, whatever
happens to other parts, and a completion makes the object out of exactly the parts
selected; a bucket's registry entry and directory go together, and a bucket is deleted
only when it is empty, which the code ensures for the objects that were there when it
looked; exit status 0 means no request was cut off, a shutdown lets no connection in, and
a signal ends the process.

## 2. Modules

| module | models | lines of the source |
|---|---|---|
| `DataDir` | the directory, the requests, the state of a goroutine, history variables | `fs.go` 17-46, request forms of `api` |
| `ObjectStore` | the object calls, one action per file-system call | `objects.go`, `metadata.go`, `object.go`, `list.go` |
| `BucketStore` | the bucket calls | `fs.go`, `bucket.go` |
| `Backend` | composition: `Init`, `Begin`, `Respond`, `Crash`, `Next`, `Spec`; the properties | `handler.go`, `fs.go` 48-61 |
| `VersionStore` | the abstract store of whole versions that `Backend` implements | `storage.go` 10-36, the promise of the interface |
| `Multipart` | uploads, parts, completion, abort, and their listings, on top of `Backend` | `multipart.go` of `fs` and `api` |
| `Listing` | from the query to the next marker, and a client that pages | `objects.go` 118-180, `list.go` |
| `MCBackend`, `MCMultipart`, `MCListing` | instances for TLC | |
| `Lifecycle` | start, signals, shutdown, exit; at its end the proofs about it | `main.go`, `server.go` |
| `BackendInvariant`, `BackendAnswers` | inductive invariants of `Backend`: `IInv` of the files, `AnswersInv` of what the requests have in hand | |
| `BackendTypes`, `BackendAcked` | proofs: types; acknowledged state, the refinement, and who removes data | |
| `BackendRequests` | proofs: what the answers say | |
| `MultipartInvariant`, `MultipartProofs` | inductive invariant `PartsInv` of the upload directories, and its proofs | |
| `MultipartAnswers`, `UploadProofs` | inductive invariant `ServerInv` of the whole server, objects, buckets and uploads on one directory, and its proofs; in `MultipartAnswers` also `CompletionInv`, of what a completion has joined | |
| `CompletionProofs` | proofs: a completion makes the object of the parts selected | |
| `ListingProofs` | inductive invariant `ListInv` of a client that pages, and proofs of `Listing` | |

`ObjectStore` and `BucketStore` both extend `DataDir` and share its variables;
`Backend` composes them. `Multipart` extends `Backend`: its requests share the
workers, the directory and the object calls with all others. `Lifecycle` is on its
own: it meets `Backend` only in that the end of the process is `Crash` there, whatever
its cause. `Listing` is apart, too: `Backend` shows what a directory walk finds, and
`Listing` starts from that.

### State and code

* `bucketFile`, `dirs`, `data`, `meta`, `litter` are the data directory. A file is
  `None`, `Empty` (just truncated), `Garbled` (not a whole body, or JSON that does
  not parse), or a value. `dirs[b]` says which of the bucket's directories exist:
  `bucket`, `objects`, `metadata`, `registry`. `litter` are the buckets with a
  `.tmp-*` file of a process that is gone.
* `pc`, `req`, `got`, `temp`, `todo`, `scan`, `unlinked` are a goroutine: the next
  file-system call, the request, the local variables of the handler (and at the
  end its answer), the temp file, the keys still to delete, the directory entries
  still to visit, and whether the file it has open for writing was removed.
* `acked`, `dirty`, `quiet` are history; no action's guard reads them. A mutation
  of a resource is *quiet* if no request that mutates the same resource overlaps
  it. When a quiet mutation makes its last write, its result becomes `acked`; a
  mutation that is disturbed, that fails after its first write or that a crash cuts
  short makes the resource `dirty`, until a quiet mutation cleans it. So `acked`
  is what a client that saw its request succeed alone may count on, and the
  properties compare the disk and the answers with it. `dirty` is not a way
  to excuse the code: it covers only the overlaps and crashes for which the code
  does not promise anything, and the runs in section 4 marked *refuted* show what
  goes wrong there.

One action is one system call. A handler that fails early ends in `Fail` with the
code the handler answers. Abstractions, all of them in the data:

* An upload is a model value that stands for a body and its headers; `Md5` is the
  upload it was computed from. An ETag is of kind `md5` or `multipart`; the length
  goes with the ETag, the time stamp is left out.
* File names are the objects themselves: SHA-256 is taken to be injective.
* `os.MkdirAll` is one step, and so is the removal of all the files in one
  subdirectory by `os.RemoveAll` (`RemoveObjects`, `RemoveMetadata`). What
  `RemoveAll` does across directories is kept: it reads the names first, empties
  and removes the subdirectories in any order, goes on when one has been refilled,
  and fails at the end.
* `io.Copy` into a temp file nobody else sees is one step; the open file of a
  GET keeps its content, since data files are only ever replaced by `rename`.
* Injected faults are `"crash"`, `"write"` (`os.WriteFile` fails after the
  truncation), `"upload"` (`io.Copy` fails) and `"remove"` (`os.Remove` of the data
  or of the metadata of an object fails, `DelData` and `DelMeta`). Other errors of the
  file system are left out, but for "not there": those of `stat`, `readdir`, `open`,
  `mkdir`, `CreateTemp`, `Close` and `rename`, of a read from a file that was opened,
  and of an unlink within `os.RemoveAll` or of a temp file.
* A crash is the end of the process, not of the machine: what a call wrote stays
  (the code never calls `fsync`, and power loss is not modelled).
* Two `os.WriteFile` to the same file: the second write onto a file that is no
  longer empty may leave the longer tail of the first (`Written`).

### The abstract store

`VersionStore` knows no files. A request claims names (objects, buckets); only a
claimant changes a name, first to unknown and then, if nobody else claims it, to a
whole version at once; a restart drops the claims and changes nothing. `Backend`
instantiates it with the mapping `OnDisk`: a name is unknown while it is dirty or
in flux, and else what its files say, whole or not. `IsVersionStore` is the refinement
`Store!Spec`, checked as a property: every file-system call of every request, and
every crash, is a step of the store or a stutter. A call that touched the files of
a name its request does not claim, or that left half a version in place, would not be.

### Uploads

* `folders`, `doc`, `partData`, `chunk` are `.multipart`: the upload directories, the JSON
  files (`upload.json` is `doc[<<b, id>>]`, `part-n.json` is `doc[<<<<b, id>>, n>>]`), the
  part files, and the temp file of a worker. `job` is what the multipart handler has
  in hand beside `req` and `got`. `kept`, `unsure`, `calm` are to the items of an upload
  what `acked`, `dirty`, `quiet` are to objects.
* Here a body is a sequence over `Bytes`, as parts are joined (`BodiesAssumption`: `Bodies`
  is `Seq(Bytes)`, so what is joined is a body again); an ETag is named by the body it is
  computed from, and the ETag of a completion by the joined bodies. `Uploads`, what
  clients send, is a finite set of bodies.
* Ids are random 128-bit numbers. `Fresh` draws one that no directory and no running
  request uses, so an id may come back after its upload is gone.
* `CompleteMultipartUpload` calls `PutObject` and `PutMetadata`: these are the actions of
  `ObjectStore`, and `AfterPut` says where they return to. `UploadPartCopy` begins with
  those of `GetObject`.
* `RemoveAll` of one upload directory is taken apart: names, one unlink after the
  other, `rmdir`. Within `DeleteBucket` the removal of all upload directories is two
  steps (`SweepUploads`, `RmdirUploads`): unlinking, and removing the directories that
  have not been refilled.
* A temp file that a dead process left in an upload directory is not tracked: no
  code reads it, and whatever removes the directory removes it.

### Paging

* A string is a sequence of bytes and keys are ordered as Go compares strings.
* `Ask` reads the directory and `Answer` the documents. Of the keys found, those
  nobody touched in between are on the page; of the others any may be missing, as
  `ListMetadata` skips what it cannot read.
* V1 and V2 differ in how the marker travels. For a client that takes its marker
  from the answer, both give the rule of `listOptions`: a token that is not empty
  comes before the `marker` or `start-after` of the first request.
* `PageLimit` is 1000 in the code and 3 in the instance, so that pages of the limit are
  shorter than the bucket.
* `PUT /bucket/` stores an object under the empty key, so the instance has one.

## 3. Properties

Of `Backend`, apart from `TypeOK`:

* `AckedStateHolds` - data, metadata, registry entry and directory of every clean
  resource that no one is in the middle of are what the last quiet mutation left.
  This is the abstract statement of what the backend promises.
* `ReadsAreExact` - GET and HEAD, several calls each, answer with that version.
* `PutRepairs` - a quiet PUT that answers 200 leaves its version, reports its own
  MD5, and cleans what an earlier crash or failure left.
* `DeletesTakeEffect` - what a DELETE, a batch or a rename named is gone when it answers
  success; one that gives up at an error has deleted the keys before the one it was at.
* `CopiesAreExact` - a copy is its source with the ETag recomputed: that of a multipart
  object is not kept (nor is it by a rename, which begins with the same calls).
* `RenameKeepsACopy` (action property) - from the moment a rename has the body in hand,
  every step of the system, a failing call and a crash included, leaves a whole version
  with that body under the old name or the new one. It does not say which: a rename
  whose `DeleteMetadata` fails answers 500, and the data of the source is gone by then.
* `ListingsAreComplete` - listings neither miss a settled entry nor show a deleted one.
* `NoPartialBody` - a broken upload is never visible and leaves no temp file.
* `BucketAnswersAreExact` - HEAD, `?location` and PUT agree on a bucket. DELETE looks for
  the directory and the others for `.bucket.json`, so it agrees only in part: its 404 is
  right, its 409 has found a file, and after its 204 neither the bucket nor an
  acknowledged object is there; but 409 and 204 may also be given for a bucket that HEAD
  does not find, where a PUT went on under its deletion and made the directory again
  (`PutMkdir`), or a CreateBucket was killed past `CreateDir`.
* `OnlyDeletesRemoveData` (action property) - the data of an object, clean or not, is
  removed by `DeleteObject` called for it or by `DeleteBucket`, and by the latter only if a
  request that overlaps it has written the object. That it does take such an object
  along, with both requests answered as successes, is `EmptyBucketRemoved`, refuted.
* `IsVersionStore` (refinement) - see above; it subsumes that no request, failure or
  crash touches a name it was not asked to change.

Of `Multipart`, apart from `UploadTypeOK`:

* `PartsHold` - the data of a part, its ETag and what the client sent agree, whatever
  happens to other parts, to the object and to the process. An upload whose completion
  was killed can be completed again.
* `CompletesAreExact` - before a completion removes the upload, the object is made of
  exactly the selected parts in the order of their numbers, with the headers given
  when the upload was opened and the ETag of those parts, which is also the answer.
* `UploadAnswersAreExact` - `NoSuchUpload` and `InvalidPart` are given exactly where they
  are due, a copied part has the body of its source, and after success the upload is
  what the request made of it.
* `UploadListingsAreExact` - `ListParts` and `ListMultipartUploads`.
* `AckedStateHolds` of `Backend` holds with uploads on top.

Of `Listing`, apart from `ListTypeOK`:

* `PagesAreExact` - a page against a definition without a loop: the first entries of
  the keys of the query, each common prefix once. A key in which the delimiter shows
  is never an object of the page, not even the key that is the common prefix itself
  (`a/`), so nothing tells a client that asks with a delimiter whether there is such a key.
* `NothingIsMissed` - when the pager is through, each key that was left alone has been
  shown or is under a prefix that was.
* `NothingIsRepeated` (action property) - no key comes twice. A common prefix comes
  twice just when the page before ended in it: its marker is a key, so the next page
  begins inside the prefix. The empty key is no marker and is repeated.
* `PagerEnds` (liveness) - the pager comes to its end even though others add keys
  before it for ever, unless its pages consist of the empty key.

Of `Lifecycle`, apart from `TypeOK`:

* `ZeroMeansAllAnswered` - exit status 0 means that no handler was cut off, neither of the
  first request of a connection nor of one that came in during the shutdown.
* `DrainOnlyShrinks` (action property) - once `main` has begun the shutdown no
  connection is opened, also when that was before `Serve`; so what Shutdown waits for
  only becomes less. Requests may still come in on the connections there are.
* `SignalEndsProcess` (liveness) - a signal ends the process, whatever handlers do.

## 4. Runs

`tlc -workers 2 -config X.cfg M`

| run | instance | shows | states |
|---|---|---|---|
| `one_object` | 1 bucket, 1 key, 2 uploads, 2 goroutines; GET, HEAD, PUT, DELETE; all faults | types, acknowledged state, exact reads, repair by PUT, no partial body, refinement | 227 thousand |
| `two_objects` | 1 bucket, 2 keys, 1 upload, 2 goroutines; copy, rename, batch delete (0 and 2 keys), list; broken uploads, failing writes and removals | multi-step requests, also when one of their calls fails | 5.0 million |
| `buckets` | 1 bucket, 1 key, 2 goroutines; all bucket requests, PUT, DELETE; crash, failing writes | buckets come and go under their objects, refinement | 2.0 million |
| `multipart` | 1 bucket, 1 key, 1 id, 2 parts, 2 goroutines; six mixes of requests; all faults | uploads against each other, objects, buckets | 1.6 million |
| `listing` | 6 keys, 3 of them volatile; 3 prefixes, 2 delimiters, 2 starts, 5 values of max-keys | pages, and a client that follows the markers | 263 thousand |
| `lifecycle` | 3 connections with any number of requests | the process | 894 |
| `torn_metadata` | two PUTs, no fault | refuted: `MetadataMatchesData` | |
| `ghost_metadata` | DELETE, crash, DELETE | refuted: `DeleteRemovesBoth` | |
| `littered_bucket` | PUT, crash, DELETE bucket | refuted: `NotEmptyMeansObjects` | |
| `swept_object` | PUT under DELETE bucket; no fault | refuted: `EmptyBucketRemoved` | |
| `mixed_parts` | a part sent again, crash, completion | refuted: `CompletedIsSelected` | |
| `graceful` | a signal while a request runs | refuted: `ShutdownIsGraceful` | |

Bounds. Two goroutines are enough for every pairwise race, and the requests of
one goroutine follow each other without end, so histories of any length are
covered; the file-system state and the history are finite, and no constraint cuts
the state space. Three overlapping requests are left to the proofs, which hold
for any number. Two uploads tell one PUT from another; two keys make a copy or a
rename, a batch, and a listing with something to skip. The number of buckets is 1:
no call touches the files of two buckets except copy and rename across buckets,
which behave as within one as long as both exist. `Init` starts from every
data directory that an orderly server can leave, with objects of PUTs and of
completed multipart uploads. Symmetry (goroutines; in `two_objects` keys as well)
is used only in runs without liveness. `two_objects` leaves crashes to
the theorems: they hold for all faults together.

The requests of `multipart` come in mixes, one mix for a whole behaviour (`AllMixes` in
`MCMultipart`): `parts` (open, send a part twice with different bodies, a number out
of range, list, abort, a selection with a double and an empty one), `race` (any number
of completions and aborts of an open upload), `gap` (completions of the second of two
parts alone), `overwrite` (a completion of two parts,
selected in the wrong order, against a PUT of the key), `copy` (a part copied from an
object that is overwritten and deleted) and `bucket` (uploads under a bucket that is
deleted and created). All of them at once would be out of reach; the mixes put
together what shares files. `mixed_parts` runs a seventh, `again`. One upload id is
enough, as uploads share nothing but `.multipart` itself, and it comes back after its
upload is gone. Two parts make an order, a selection with a gap, and a part that is
not selected. `IsVersionStore` is checked in two runs only for time; that
it holds with the requests of `multipart` as well is a theorem.

In `listing`, the keys are the empty one, one that is itself a common prefix and one under
it, one in another folder, and one before and one after that, so pages end before, in and
after a common prefix; the values of
max-keys are -1, 0, 1, 2 and one above the limit. Volatile keys are written and deleted
at any time and without end, also behind and before the marker.

Refuted runs state what a comment or a message of the code says and TLC finds
a behaviour in which the code does not keep it. `PROJECT.json`
(`findings`) quotes the lines. In short: concurrent PUTs of one key can leave
the body of one with the ETag of the other; a DELETE that was cut short cannot be
repeated; a temp file makes a bucket undeletable; a PUT that is answered while its bucket
is being deleted loses its object, with both requests answered as successes; a part sent
again by a process that dies before the part's ETag is written is completed under the
old ETag with the new body; and shutdown is not graceful, since the goroutine that runs
`Server.Start` takes `ErrServerClosed` for a failure and exits with status 1.

Deadlock is checked in all runs of `Backend` (a goroutine can always go on or a
new request begin). `Lifecycle` ends when the process ends, hence
`CHECK_DEADLOCK FALSE` there.

Fairness. In `Listing`, weak fairness of `Ask \/ Answer`: a handler, which waits for
nobody, runs to its answer, and the client whose pages are the subject asks on. Others
may do what they like. In `Lifecycle`, the goroutine of `Start` and the one of `main` each
keep running (weak fairness on the disjunction of their steps), which is what the
Go scheduler gives and the timer of `context.WithTimeout` implies. Nothing is
assumed about handlers, which may never return, about clients, which need neither
send nor hang up, nor about signals.

Connections. A connection accepted before the shutdown may bring requests after it has
begun (`Receive`), as net/http serves them until it has closed the connection; `Answer`
keeps none alive by then, and `CloseIdle` closes those that wait. `http.Server.Shutdown`
waits without a limit for `Serve` to leave, which it does at once, and then, up to the
30 seconds, for the connections to end.

## 5. Proofs

`tlapm M.tla` for `M` among `BackendTypes`, `BackendAcked`, `BackendRequests`,
`MultipartProofs`, `UploadProofs`, `CompletionProofs`, `ListingProofs`, `Lifecycle`. What is proved holds for any
number of buckets, keys, uploads, parts, goroutines, requests and faults, instances that
no run of TLC reaches.

| theorem | says |
|---|---|
| `BackendTypes!TypeOKCorrect` | `Spec => []TypeOK` |
| `BackendTypes!NoPartialBodyCorrect` | `Spec => []NoPartialBody` |
| `BackendTypes!TypeCorrect` | `Spec => []TypeInv`, the strengthening of both |
| `BackendAcked!AckedStateCorrect` | `Spec => []AckedStateHolds` |
| `BackendAcked!InvariantHolds` | `Spec => []IInv`, the strengthening of all the above |
| `BackendAcked!ImplementsVersionStore` | `Spec => IsVersionStore`, the refinement |
| `BackendAcked!OnlyDeletesRemoveDataCorrect` | `Spec => OnlyDeletesRemoveData` |
| `BackendRequests!ReadsAreExactCorrect`, `PutRepairsCorrect`, `DeletesTakeEffectCorrect`, `CopiesAreExactCorrect`, `ListingsAreCompleteCorrect`, `BucketAnswersAreExactCorrect` | `Spec => []P` for the six state properties on answers |
| `BackendRequests!RenameKeepsACopyCorrect` | `Spec => RenameKeepsACopy` |
| `BackendRequests!AnswersInvariant` | `Spec => []AnswersInv`, the strengthening behind the seven |
| `MultipartProofs!PartsHoldCorrect` | `UploadSpec => []PartsHold` |
| `MultipartProofs!UploadListingsAreExactCorrect` | `UploadSpec => []UploadListingsAreExact` |
| `MultipartProofs!PartsInvariant` | `UploadSpec => []PartsInv`, the strengthening of both |
| `UploadProofs!ServerInvariant` | `UploadSpec => []ServerInv`: `IInv`, `AnswersInv`, `PartsInv` and `UploadInv` together |
| `UploadProofs!ServerAckedStateHolds` | `UploadSpec => []AckedStateHolds` |
| `UploadProofs!ServerImplementsVersionStore` | `UploadSpec => IsVersionStore`, the refinement with uploads |
| `UploadProofs!ServerOnlyDeletesRemoveData`, `ServerRenameKeepsACopy`, `ServerNoPartialBody` | `UploadSpec => OnlyDeletesRemoveData`, `UploadSpec => RenameKeepsACopy`, `UploadSpec => []NoPartialBody` |
| `UploadProofs!UploadTypeOKCorrect` | `UploadSpec => []UploadTypeOK` |
| `UploadProofs!UploadAnswersAreExactCorrect` | `UploadSpec => []UploadAnswersAreExact` |
| `UploadProofs!ServerAnswersAreExact` | `UploadSpec => []P` for the six state properties on answers: uploads take nothing from them |
| `CompletionProofs!CompletesAreExactCorrect` | `UploadSpec => []CompletesAreExact` |
| `CompletionProofs!CompletionInvariant` | `UploadSpec => []CompletionInv`, the strengthening of it |
| `ListingProofs!PagesAreExactCorrect` | `Spec => []PagesAreExact`, of `Listing` |
| `ListingProofs!NothingIsMissedCorrect` | `Spec => []NothingIsMissed` |
| `ListingProofs!NothingIsRepeatedCorrect` | `Spec => NothingIsRepeated` |
| `ListingProofs!ListTypeOKCorrect` | `Spec => []ListTypeOK` |
| `ListingProofs!ListInvariant` | `Spec => []ListInv`, the strengthening of these |
| `Lifecycle!TypeOKCorrect`, `ZeroMeansAllAnsweredCorrect`, `DrainOnlyShrinksCorrect` | the safety properties of `Lifecycle` |

**Assumptions.** Those of `DataDir`: the special file contents are no bodies, documents
or versions and differ from each other (`ValuesAssumption`); what is uploaded is a body; names of buckets and objects
are disjoint; faults are among the four; a request is well-formed (`IsRequest`: what
the router has made of a method and a path; e.g. a rename names two keys, as
`RenameObject` takes one onto itself apart). Those of `Multipart`: there are part
numbers; bodies are the sequences of bytes (`BodiesAssumption`); an upload directory is not named as a file in one (`UploadNamesAssumption`);
what `upload.json` says is no special content (`SessionsAssumption`); a multipart call
is well-formed (`CallsAssumption`: a number and a selection of a client may be
anything). Those of `Listing` (`StringsAssumption`): keys and what a client asks with are
strings; there are finitely many keys, since a key is also a file name, and of those there
are only so many; a page has room for something. `Lifecycle` needs none. TLC evaluates all
of them on the instances.

**Types.** `TypeInv` adds to `TypeOK` which request a goroutine can be serving at a
call (`ControlOK`), what is left in its queue (`TodoOK`), and what it has in
hand and in its temp file (`BodiesOK`). Calls that only look at the disk are about
half of all; each is shown to be an instance of one pattern, `Looks`, and the step is
proved once for the pattern (`LooksTypes`). The calls that write have one lemma each.

**Acknowledged state.** `AckedStateHolds` is silent about a resource in flux, so
it is not inductive: when a PUT writes its document, the data it renamed must
still be there. `IInv` adds `Exclusive` (nobody else mutates what is quiet for a
worker), `FluxUnique` (two requests are in the middle of one resource only if it
is dirty), `FluxShape` (what an undisturbed request has left so far, `Halfway`),
and `QuietShape` (what it found before its first write). The argument separates
the frame from the deed: `Effect(p, S)` says that a step writes only resources
`S` of its own request, `Owed(p, S)` what it must leave there, and the lemma
`EffectKeeps` turns the two into `IInv'`. Each call then has one short lemma.

**Refinement.** By `AckedStateHolds`, the value of a name under the mapping `OnDisk` is
*unknown* if the name is dirty or in flux and `acked` otherwise (`OnDiskIs`). So no file
appears in the proof: `Effect` says of each call which names change in `acked`, `dirty` and
flux, and `StoreWork` maps that to work of a claimant in `VersionStore` or to a stutter.
Begin, respond and crash map to claiming, releasing and restarting.
`OnlyDeletesRemoveData` is a fact about each single call (`StepRemovesData`); that the sweep of
a bucket finds only what overlapping requests have written is `QuietShape` of `IInv`: a key
that `DeleteScan` saw without data stays so for as long as it is quiet.

**Answers.** An answer is put together from several calls, and can be right only if
what each call left in the goroutine's hands is still true at the next. `AnswersInv` says
what that is for each kind of request (`ReadsAt`, `PutAt`, `DeletesAt`, `CopyAt`,
`ListingAt`, `BucketAt`), about resources that are quiet for the goroutine and not dirty.
It is kept in two ways. Others move: then the goroutine and what is quiet for it stand
still (`Still`, `StillKeeps`; this needs `Exclusive` of `IInv`). It moves itself: one
lemma for each kind of request goes through the calls of that kind and reads off
`IInv` what a look at the disk finds. `RenameKeepsACopy` compares the disk after a step, seen
through `OnDisk`, with the body in hand before it. Up to the last write of the copy
the source has it, from then on the destination (`Held`, `RenameHolds`): a step of the
rename either leaves that name alone or is the last write of the copy (`RenameMoves`), and
what others do, and a crash, cannot unsettle it (`RenameStays`, `RenameUndisturbed`).

**Uploads.** `PartsHold` is silent about items in flux, and a listing is read file by
file. `PartsInv` adds: who is at which call (`RequestOK`), that only one request rewrites
what is calm for a goroutine (`CalmExclusive`), what an undisturbed upload of a part or a
new upload has written so far (`HalfWritten`, `NewUpload`), what a listing has shown so far
(`ListedSoFar`), and that whatever is in an upload directory is in one that exists
(`InFolders`). A call of `p` changes items of `Mine(p)` at most, those its request may
rewrite, so what the invariant says of others, of whose calm items none is in
`Mine(p)`, is kept (`StillOK`), and `StepKeeps` leaves of the whole the items of `Mine(p)`.
A call that changes no item is `Quiet` and leaves still less. The forty calls of `ObjectStore`
and `BucketStore`, which `UploadSpec` may take as well, are shown to touch no upload
(`PlainMoves`), but the sweep of `DeleteBucket`, which has its lemmas.

**The whole server.** `IInv` and `AnswersInv` are stated for any request, those about uploads
included (`ControlAt`, `Moves`, `Flux` know the calls that a completion or a copied part
borrows from `PutObject` and `GetObject`), so the proofs of `Backend` carry over to the plain
steps of `UploadSpec`. What is new are the calls of `Multipart`, and one by one they are shown
to write no file of an object or bucket (`Beside`: the files and their history are as they
were, so `IInv` is kept). One call does write one: a completion, having stored the object
through `PutObject`, reads its metadata and writes it again with the headers given at
the opening. `AgainOK` says why that second write is harmless: unless the object is
dirty it is the one that was stored, and nobody else is in the middle of it. `UploadAt` says what a request
has found by the call it is at: an upload of its id and key, if nothing overlapped it
(`FoundOpen`); which part a completion has ticked off last; which files a listing
has still to read. It is kept for those who stand still (`Stands`) by `StandsKeeps`, and
for the one that moves by one lemma per call, which reads off `PartsInv` what the call
finds. `UploadAnswersAreExact` is a conjunct of the result. The refinement comes with it: a call
of `Multipart` acknowledges nothing and brings nobody into the middle of a name but a
completion, which claims it (`UploadStepUnsettles`), so to the store it is work of a claimant
(`StoreUploadWork`).

**Completion.** `CompletesAreExact` compares the object with `Joined`, a function defined by
recursion over the part numbers, while the code takes what is left of a selection in the
order of the numbers and appends. `CompletionInv` follows it. What is ticked off has
no larger number than the last part and what is left no smaller one, and the ETags are
joined up to that part (`TickedAt`), unless its number comes again among what is left: then the next
comparison refuses the selection. The bodies are joined in step with the ETags, as long as
nothing overlaps the completion (`JoinedAt`). Then the headers in hand are those of the upload
(`HeadersAt`), and past `PutObject` the object is what was joined (`StoredAt`), which the second
metadata write finds because of `AgainOK` and `AckedStateHolds`. The
recursive function is dealt with by `LeastNumber`: of the numbers at which it would be
something else one is the least (`NatLessThanWellFounded`, `WFMin`); it cannot be 0, and
it cannot follow on a number at which all is well (`Reaches`). In this way `JoinedUpTo` is shown to be defined
(`JoinedStep`), numbers that are not selected to add nothing (`JoinedOver`), and a number selected
once to add its part (`JoinedNext`).

**Paging.** Strings are sequences of numbers, and `Before` is shown to be a total order of them
(`BeforeIrreflexive`, `BeforeTransitive`, `BeforeTotal`). The sorted keys, `InOrder`, exist: a key
goes to the place whose number is that of the keys before it (`KeysBefore`, `OrderExists`). The
common prefix that the code cuts off at the first delimiter is the shortest string the
properties allow for the key (`CommonPrefixIs`). The loop of `ListObjects` is the recursive function
`PageUpTo`, and its invariant is `PageOf`: of the keys met so far take those that bring a new
entry (`Heads`); what is on the page are the first of them, all of them or as many as there is
room for (`Fits`), in order, the marker is the last one (`MarksLast`), and what is not shown
comes after it (`NoneLost`). A visit has five outcomes, one lemma each (`FullPage`, `ShownAlready`,
`NoRoom`, `NewObject`, `NewPrefix`); `VisitPage` joins them, and that the loop gets to its end
is `Reaches`, as for a completion. So a page is exact (`PageIsExact`). None of this
is enough for a client, which sees several pages of a bucket that changes in between. `ListInv`
adds that keys left alone are sure to be found (`LeftAlone`), that what it has not
seen is ahead of its marker (`NothingLost`) and that what it has seen is behind
(`AllBehind`); the empty key is the exception to the last, as it is no marker.

**Life cycle.** `LifeInv` adds that handlers are cut off only by an exit with a status other
than 0, and that once `main` has begun to shut down, a server that serves has lost
its listener; one that has not begun to serve never will.

All the invariants were checked by TLC on the instances of section 4 before they
were proved.

**Only model-checked**, and why:

* `SignalEndsProcess`, `PagerEnds`: liveness under fairness is out of the prover's reach.
* The refuted properties of section 4 have counterexamples, not proofs.

## 6. Not modelled

* The choice of the handler from method, path and query (`routeRequest`), and
  `IsValidBucketName`: pure functions of one request, without state; the models start
  from a request that has passed both.
* The times in documents, uploads and parts, and the order `ListMultipartUploads`
  derives from them.
* Header and query parsing, 400 answers, XML, logging, configuration: no state.
* What a listing reports beside its entries and its marker: the `MaxKeys` of an answer is
  0 where max-keys=0 was taken as 1000.
* The properties that pass say nothing about reads that a mutation overlaps (GET reads the
  metadata and then opens the data, and may mix two versions), nor about names that
  overlapping mutations share. Such overlaps are in the models, and the refuted runs
  show what some of them do (`torn_metadata`, `swept_object`); others, as
  two uploads of one part, or a DELETE under a PUT of its key, end in the same way.
* net/http, the file system and the signal delivery of Go are external; `Lifecycle`
  takes Accept and the closing of the listener as atomic with respect to each other: a
  connection is open from the return of Accept on, which net/http notes before `Serve` can
  leave, and Shutdown waits for that.

## 7. Plan

Done: all modules of section 2. Every invariant, action property and refinement that a passing
run checks is also a theorem, and those of `Backend` are theorems of `UploadSpec` as well (with
`UploadTypeOK` in the place of `TypeOK`). Left: the two liveness properties, which stay with TLC.
