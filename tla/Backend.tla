------------------------------ MODULE Backend ------------------------------
(***************************************************************************)
(* The server as its clients meet it: a pool of goroutines that serve      *)
(* object and bucket requests on one data directory, and a process that    *)
(* may be killed at any point and started again on what it left.           *)
(***************************************************************************)
EXTENDS ObjectStore, BucketStore

\* Objects as a PUT or a completed multipart upload leaves them.
Stored ==
    {[body |-> u, etag |-> [kind |-> k, of |-> u], attrs |-> u] :
        u \in Uploads, k \in {"md5", "multipart"}}

\* A server starts on the data directory an earlier one left in good order;
\* the buckets of uploading have a .multipart directory.
InitWith(uploading) ==
    /\ \E known \in SUBSET Buckets, stored \in [Objects -> Stored \cup {None}] :
           /\ \A a \in Objects : a[1] \notin known => stored[a] = None
           /\ acked = [x \in Resources |->
                          CASE x \in Objects -> stored[x]
                            [] x \in known -> Registered
                            [] OTHER -> None]
    /\ bucketFile = [b \in Buckets |-> acked[b]]
    /\ dirs = [b \in Buckets |->
                  IF acked[b] = None THEN {}
                  ELSE {"bucket", "registry"}
                       \cup (IF \E a \in ObjectsOf(b) : acked[a] # None
                             THEN {"objects", "metadata"} ELSE {})
                       \cup (IF b \in uploading THEN {"multipart"} ELSE {})]
    /\ data = [a \in Objects |->
                  IF acked[a] = None THEN None ELSE acked[a].body]
    /\ meta = [a \in Objects |->
                  IF acked[a] = None THEN None
                  ELSE [etag |-> acked[a].etag, attrs |-> acked[a].attrs]]
    /\ litter = {}
    /\ pc = [p \in Workers |-> "idle"]
    /\ req = [p \in Workers |-> None]
    /\ got = [p \in Workers |-> Nothing]
    /\ temp = [p \in Workers |-> None]
    /\ todo = [p \in Workers |-> <<>>]
    /\ scan = [p \in Workers |-> {}]
    /\ unlinked = [p \in Workers |-> FALSE]
    /\ dirty = {}
    /\ quiet = [p \in Workers |-> {}]

Init == InitWith({})

----------------------------------------------------------------------------
\* GET looks for the key before it looks for the bucket (a mutant).
FirstCall_NoBucketCheck ==
    [Get |-> "GetMeta", Head |-> "HeadExists", Put |-> "PutExists",
     Delete |-> "DelExists"]

\* The first call of the function each handler enters.
FirstCall ==
    [Get |-> "GetExists", Head |-> "HeadExists", Put |-> "PutExists",
     Copy |-> "GetExists", Rename |-> "GetExists", Delete |-> "DelExists",
     DeleteObjects |-> "ManyExists", ListObjects |-> "ListExists",
     CreateBucket |-> "CreateStat", DeleteBucket |-> "DeleteStat",
     HeadBucket |-> "HeadBucketStat", GetBucketLocation |-> "LocationRead",
     ListBuckets |-> "BucketsScan",
     CreateUpload |-> "UploadBucket", UploadPart |-> "PartNumber",
     UploadPartCopy |-> "GetExists",
     Complete |-> "UploadExists", Abort |-> "UploadExists",
     ListParts |-> "UploadExists", ListUploads |-> "UploadsExists"]

\* net/http starts a goroutine for the request and the handler is routed to.
Begin(p, r) ==
    /\ pc[p] = "idle"
    /\ Goto(p, FirstCall[r.op])
    /\ req' = [req EXCEPT ![p] = r]
    /\ got' = [got EXCEPT ![p] = [Nothing EXCEPT !.body = r.up, !.attrs = r.up]]
    /\ todo' = [todo EXCEPT ![p] = r.dels]
    /\ quiet' = [q \in Workers |->
           IF q = p
           THEN {x \in Touches(r) :
                    \A o \in Workers \ {p} : Active(o) => x \notin Mutates(req[o])}
           ELSE quiet[q] \ Mutates(r)]
    /\ UNCHANGED <<disk, temp, scan, unlinked, acked, dirty>>

\* The request outlives its answer (a mutant).
Respond_KeepsRequest(p) ==
    /\ pc[p] = "done"
    /\ Goto(p, "idle")
    /\ UNCHANGED <<disk, history, req, got, temp, todo, scan, unlinked>>

\* The answer reaches the client and the goroutine ends.
Respond(p) ==
    /\ pc[p] = "done"
    /\ Goto(p, "idle")
    /\ req' = [req EXCEPT ![p] = None]
    /\ got' = [got EXCEPT ![p] = Nothing]
    /\ todo' = [todo EXCEPT ![p] = <<>>]
    /\ scan' = [scan EXCEPT ![p] = {}]
    /\ quiet' = [quiet EXCEPT ![p] = {}]
    /\ UNCHANGED <<disk, temp, unlinked, acked, dirty>>

\* The process is killed and a new one starts: memory is gone, what the
\* calls wrote stays, temp files included.  Nothing is cleaned up at start.
Crash ==
    /\ "crash" \in Faults
    /\ \E p \in Workers : Active(p)
    /\ litter' = litter \cup
           {req[p].dst[1] : p \in {q \in Workers : temp[q] # None}}
    /\ dirty' = dirty \cup UNION {Flux(p) : p \in Workers}
    /\ pc' = [p \in Workers |-> "idle"]
    /\ req' = [p \in Workers |-> None]
    /\ got' = [p \in Workers |-> Nothing]
    /\ temp' = [p \in Workers |-> None]
    /\ todo' = [p \in Workers |-> <<>>]
    /\ scan' = [p \in Workers |-> {}]
    /\ unlinked' = [p \in Workers |-> FALSE]
    /\ quiet' = [p \in Workers |-> {}]
    /\ UNCHANGED <<bucketFile, dirs, data, meta, acked>>

Step(p) == ObjectStep(p) \/ BucketStep(p)

Next ==
    \/ \E p \in Workers : Step(p) \/ Respond(p) \/ \E r \in Requests : Begin(p, r)
    \/ Crash

Spec == Init /\ [][Next]_vars

----------------------------------------------------------------------------
(***************************************************************************)
(* Properties.                                                             *)
(***************************************************************************)
Entries(op) ==
    CASE op = "ListObjects" -> Objects
      [] op = "ListBuckets" -> Buckets
      [] OTHER -> SubDirs

DiskTypeOK ==
    /\ bucketFile \in [Buckets -> {None, Empty, Garbled, Registered}]
    /\ dirs \in [Buckets -> SUBSET DirNames]
    /\ data \in [Objects -> Bodies \cup {None, Garbled}]
    /\ meta \in [Objects -> Documents \cup {None, Empty, Garbled}]
    /\ litter \subseteq Buckets

WorkerTypeOK ==
    /\ pc \in [Workers -> Labels]
    /\ req \in [Workers -> Requests \cup {None}]
    /\ \A p \in Workers : pc[p] = "idle" <=> req[p] = None
    /\ got \in [Workers -> Answers]
    /\ temp \in [Workers -> Bodies \cup {None, Garbled}]
    /\ todo \in [Workers -> Seq(Objects)]
    /\ DOMAIN scan = Workers
    /\ \A p \in Workers :
           IF pc[p] = "idle" THEN scan[p] = {} ELSE scan[p] \subseteq Entries(req[p].op)
    /\ unlinked \in [Workers -> BOOLEAN]

HistoryTypeOK ==
    /\ acked \in [Resources -> Versions \cup {None, Registered}]
    /\ dirty \subseteq Resources
    /\ quiet \in [Workers -> SUBSET Resources]

\* Every variable holds a value of its kind, and a goroutine has a request
\* exactly while it is not idle.
TypeOK == DiskTypeOK /\ WorkerTypeOK /\ HistoryTypeOK

Settled(x) ==
    IF x \in Buckets
    THEN /\ bucketFile[x] = acked[x]
         /\ acked[x] = Registered => "bucket" \in dirs[x]
    ELSE IF acked[x] = None THEN data[x] = None /\ meta[x] = None
    ELSE /\ data[x] \in Bodies
         /\ meta[x] \in Documents
         /\ acked[x] = Version(data[x], meta[x])

\* What is on disk is what the last undisturbed mutation of a bucket or an
\* object left there: data, metadata and registry entry agree with each
\* other and with the acknowledged result, whatever requests on other
\* resources, reads, failures and crashes did in the meantime.
AckedStateHolds ==
    \A x \in Resources \ dirty :
        (\A p \in Workers : x \notin Flux(p)) => Settled(x)

\* What is on disk of x: unknown (Empty) where the code promises nothing and
\* between two writes, a version where data and document are whole.
OnDisk(x) ==
    IF x \in dirty \cup UNION {Flux(p) : p \in Workers} THEN Empty
    ELSE IF x \in Buckets THEN bucketFile[x]
    ELSE IF data[x] \in Bodies /\ meta[x] \in Documents THEN Version(data[x], meta[x])
    ELSE IF data[x] = None /\ meta[x] = None THEN None
    ELSE Garbled

Store == INSTANCE VersionStore WITH
    Clients <- Workers,
    Names <- Resources,
    Values <- Versions \cup {None, Registered},
    Unknown <- Empty,
    stored <- [x \in Resources |-> OnDisk(x)],
    claims <- [p \in Workers |-> IF Active(p) THEN Mutates(req[p]) ELSE {}]

\* The files implement a store of whole versions: a bucket or an object is
\* changed only by a request that names it, one call makes it unknown and a
\* later one settles it, and neither other requests nor a crash touch it.
IsVersionStore == Store!Spec

Answered(p, op, code) == pc[p] = "done" /\ req[p].op = op /\ got[p].code = code

\* x was neither mutated by an overlapping request nor dirty.
Undisturbed(p, x) == x \in quiet[p] \ dirty

\* GetObject and HeadObject, two and three separate calls, answer with one
\* version, the acknowledged one, when nothing overlapped them; 404 only
\* for what is not there.
ReadsAreExact ==
    \A p \in Workers :
        LET a == req[p].src
            alone == {a, a[1]} \subseteq quiet[p] \ dirty
            answer == [body |-> got[p].body, etag |-> got[p].etag,
                       attrs |-> got[p].attrs]
        IN /\ pc[p] = "done" /\ req[p].op \in Readers /\ alone
              => got[p].code = IF acked[a[1]] = None THEN "NoSuchBucket"
                               ELSE IF acked[a] = None THEN "NoSuchKey" ELSE "OK"
           /\ Answered(p, "Get", "OK") /\ alone => answer = acked[a]
           /\ Answered(p, "Head", "OK") /\ alone
              => answer = [acked[a] EXCEPT !.body = None]

\* A PUT that nothing overlapped reports the MD5 of its own body, and from
\* then on the object is what was sent, however it was left before: a retry
\* repairs what a crash or a failed write broke.
PutRepairs ==
    \A p \in Workers :
        Answered(p, "Put", "OK") /\ req[p].dst \in quiet[p]
        => /\ req[p].dst \notin dirty
           /\ acked[req[p].dst] = Version(req[p].up,
                  [etag |-> Md5(req[p].up), attrs |-> req[p].up])
           /\ got[p].etag = Md5(req[p].up)

\* After a DELETE, a batch or a rename, every key it named is gone.  One that
\* gives up at an error has still deleted the keys before the one it was at.
DeletesTakeEffect ==
    \A p \in Workers :
        LET left == IF got[p].code = "OK" THEN {} ELSE Range(todo[p]) IN
        pc[p] = "done"
        => \A a \in Range(req[p].dels) \ left : Undisturbed(p, a) => acked[a] = None

\* A copy has the body and headers of its source and the MD5 of that body,
\* and the answer reports it.
CopiesAreExact ==
    \A p \in Workers :
        LET s == req[p].src
            d == req[p].dst
        IN Answered(p, "Copy", "OK") /\ s # d /\ Undisturbed(p, s) /\ d \in quiet[p]
           => /\ acked[s] # None /\ d \notin dirty
              /\ acked[d] = [acked[s] EXCEPT !.etag = Md5(acked[s].body)]
              /\ got[p].etag = acked[d].etag

\* RenameObject copies and then deletes.  Once it has the body of its source
\* in hand, every step leaves a whole version with that body under one of the
\* two names: each of its calls, also the one that fails or is the last before
\* a crash.  A failing DeleteMetadata leaves it at the destination only.
RenameKeepsACopy ==
    [][\A p \in Workers, s, d \in Objects :
          /\ Active(p) /\ req[p].op = "Rename" /\ req[p].src = s /\ req[p].dst = d
          /\ got[p].body # None /\ {s, d} \subseteq quiet[p] /\ s \notin dirty
          => \E x \in {s, d} :
                 OnDisk(x)' \in Versions /\ OnDisk(x)'.body = got[p].body]_vars

\* ListObjects, a directory scan and a read per entry, and ListBuckets show
\* every acknowledged entry that nothing overlapped, and no deleted one.
ListingsAreComplete ==
    \A p \in Workers :
        /\ Answered(p, "ListObjects", "OK") =>
               \A a \in ObjectsOf(req[p].bucket) : Undisturbed(p, a) =>
                   (a \in got[p].listed <=> acked[a] # None)
        /\ Answered(p, "ListBuckets", "OK") =>
               \A b \in Buckets : Undisturbed(p, b) =>
                   (b \in got[p].listed <=> acked[b] # None)

\* Only whole bodies are ever renamed over a data file, and a request that
\* is over has removed its temp file.
NoPartialBody ==
    /\ \A a \in Objects : data[a] # Garbled
    /\ \A p \in Workers : ~Active(p) => temp[p] = None

\* The data of an object, acknowledged or not, is removed by DeleteObject called
\* for it and else by DeleteBucket alone, which takes along only what a request
\* that overlaps it has written: never an object that was there when it looked.
OnlyDeletesRemoveData ==
    [][\A a \in Objects : data[a] # None /\ data'[a] = None
          => \E p \in Workers :
                 \/ pc[p] = "DelData" /\ Head(todo[p]) = a
                 \/ pc[p] = "RemoveFiles" /\ req[p].bucket = a[1] /\ a \notin quiet[p]]_vars

\* HEAD, ?location and PUT of a bucket agree on whether it exists.  DELETE looks
\* for the directory and not for .bucket.json.  It agrees with them when it
\* answers 404, and when it answers 204 neither the bucket nor an acknowledged
\* object in it is left.  But it may answer 204 or 409 for a bucket that HEAD
\* does not find, where a PUT went on under its deletion or a PUT of the bucket
\* was cut short; all that a 409 says is that it has found a file.
BucketAnswersAreExact ==
    \A p \in Workers :
        LET b == req[p].bucket IN
        pc[p] = "done" =>
        /\ req[p].op \in {"HeadBucket", "GetBucketLocation"} /\ Undisturbed(p, b)
           => got[p].code = IF acked[b] = None THEN "NoSuchBucket" ELSE "OK"
        /\ Answered(p, "CreateBucket", "OK") /\ b \in quiet[p]
           => b \notin dirty /\ acked[b] = Registered
        /\ Answered(p, "CreateBucket", "BucketAlreadyExists") /\ Undisturbed(p, b)
           => acked[b] = Registered
        /\ Answered(p, "DeleteBucket", "OK")
           => /\ b \in quiet[p] => b \notin dirty /\ acked[b] = None
              /\ \A a \in ObjectsOf(b) : Undisturbed(p, a) => acked[a] = None
        /\ Answered(p, "DeleteBucket", "NoSuchBucket") /\ Undisturbed(p, b)
           => acked[b] = None
        /\ Answered(p, "DeleteBucket", "BucketNotEmpty")
              /\ {b} \cup ObjectsOf(b) \subseteq quiet[p]
           => b \in litter \/ \E a \in ObjectsOf(b) : data[a] # None

----------------------------------------------------------------------------
(***************************************************************************)
(* What the comments and messages of the code say and the code does not    *)
(* keep: each is refuted by a run of its own.                              *)
(***************************************************************************)
\* "PutObject stores an object's data and metadata in the bucket", and
\* "Metadata is stored alongside an object when it is written": when every
\* request is over, the ETag of an object is one of its body.
MetadataMatchesData ==
    (\A p \in Workers : ~Active(p))
    => \A a \in Objects :
           data[a] # None /\ meta[a] \in Documents => meta[a].etag.of = data[a]

\* "DeleteObject removes an object's data and metadata": after a successful
\* DELETE that nothing overlapped, neither is there.
DeleteRemovesBoth ==
    \A p \in Workers :
        Answered(p, "Delete", "OK") /\ req[p].dst \in quiet[p]
        => data[req[p].dst] = None /\ meta[req[p].dst] = None

\* "the bucket you tried to delete is not empty": the answer is given only
\* for a bucket with an object in it.
NotEmptyMeansObjects ==
    \A p \in Workers :
        /\ Answered(p, "DeleteBucket", "BucketNotEmpty")
        /\ ObjectsOf(req[p].bucket) \subseteq quiet[p]
        => \E a \in ObjectsOf(req[p].bucket) : data[a] # None \/ meta[a] # None

\* "Remove the empty bucket directory": when both a DELETE of a bucket and a
\* PUT into it have been answered with success, the object is not gone.
EmptyBucketRemoved ==
    \A p, q \in Workers :
        /\ Answered(p, "DeleteBucket", "OK")
        /\ Answered(q, "Put", "OK") /\ req[q].dst[1] = req[p].bucket
        => data[req[q].dst] # None

=============================================================================
