------------------------------ MODULE DataDir ------------------------------
(***************************************************************************)
(* The data directory of a home-store server and the requests that work on *)
(* it: the state every other module of the backend reads and writes.       *)
(*                                                                         *)
(* storage/fs keeps no object, bucket or lock in memory.  FSBackend holds  *)
(* a path, and each HTTP request runs in a goroutine of its own that makes *)
(* a sequence of file-system calls.  Those calls are the atomic steps of   *)
(* this specification; between two of them any other request may run, the  *)
(* process may be killed, and a write or a removal may fail.               *)
(*                                                                         *)
(*   bucket_metadata/<b>/.bucket.json   bucketFile[b], "registry" \in dirs *)
(*   <b>/                               "bucket" \in dirs[b]               *)
(*   <b>/.objects/<sha256(k)>           data[<<b, k>>]                     *)
(*   <b>/.objects/.tmp-*                temp[p] while p runs, then litter  *)
(*   <b>/.metadata/<sha256(k)>.json     meta[<<b, k>>]                     *)
(*   <b>/.multipart/<id>/               modelled in Multipart               *)
(***************************************************************************)
EXTENDS Naturals, Sequences, Functions

CONSTANTS
    Buckets,   \* bucket names
    Keys,      \* object keys
    Uploads,   \* what a client sends: one body with its own headers
    Bodies,    \* what an object may hold: those, and what joining parts gives
    Workers,   \* goroutines of the HTTP server
    Requests,  \* the requests clients send
    Faults,    \* subset of {"crash", "write", "upload", "remove"}
    None,      \* no file, no value
    Empty,     \* a file that was truncated and not written yet
    Garbled,   \* neither a whole body nor a JSON document
    Registered \* a well-formed .bucket.json

Objects == Buckets \X Keys
ObjectsOf(b) == {b} \X Keys
Resources == Objects \cup Buckets

\* PutObject stores the MD5 of the body.  CompleteMultipartUpload stores an
\* ETag of another form, so an object may hold either.
ETags == [kind: {"md5", "multipart"}, of: Bodies]
Md5(u) == [kind |-> "md5", of |-> u]

\* A metadata document: the ETag (and the length, which goes with it) and
\* the client's headers.
Documents == [etag: ETags, attrs: Uploads]

\* An object as a client may see it: body and document.
Versions == [body: Bodies, etag: ETags, attrs: Uploads]
Version(body, doc) == [body |-> body, etag |-> doc.etag, attrs |-> doc.attrs]

ASSUME ValuesAssumption ==
    /\ Uploads \subseteq Bodies
    /\ None \notin Bodies \cup Documents \cup Versions \cup ETags
    /\ Empty \notin Documents \cup Bodies \cup Versions
    /\ Garbled \notin Documents \cup Bodies \cup Versions
    /\ Registered \notin Versions
    /\ None # Empty /\ None # Garbled /\ None # Registered
    /\ Empty # Garbled /\ Empty # Registered /\ Garbled # Registered

ASSUME NamesAssumption == Buckets \cap Objects = {}

ASSUME FaultsAssumption == Faults \subseteq {"crash", "write", "upload", "remove"}

----------------------------------------------------------------------------
(***************************************************************************)
(* Requests.  A request names its bucket, the objects it reads (src) and   *)
(* writes (dst), what it uploads and, in order, the objects it deletes.    *)
(***************************************************************************)
Readers == {"Get", "Head"}
Writers == {"Put", "Copy", "Rename"}
Deleters == {"Delete", "DeleteObjects"}
BucketOps == {"CreateBucket", "DeleteBucket", "HeadBucket",
              "GetBucketLocation", "ListObjects"}
Ops == Readers \cup Writers \cup Deleters \cup BucketOps \cup {"ListBuckets"}

\* The requests of Multipart: about one upload, and all of them.
JobOps == {"CreateUpload", "UploadPart", "UploadPartCopy", "Complete", "Abort", "ListParts"}
UploadOps == JobOps \cup {"ListUploads"}

Request(op, b, src, dst, up, dels) ==
    [op |-> op, bucket |-> b, src |-> src, dst |-> dst, up |-> up,
     dels |-> dels]

GetObject(a)  == Request("Get", a[1], a, a, None, <<>>)
HeadObject(a) == Request("Head", a[1], a, a, None, <<>>)
PutObject(a, u) == Request("Put", a[1], a, a, u, <<>>)
CopyObject(s, d) == Request("Copy", d[1], s, d, None, <<>>)
RenameObject(s, d) ==
    IF s = d THEN HeadObject(s) ELSE Request("Rename", d[1], s, d, None, <<s>>)
DeleteObject(a) == Request("Delete", a[1], a, a, None, <<a>>)
DeleteObjects(b, dels) == Request("DeleteObjects", b, None, None, None, dels)
BucketRequest(op, b) == Request(op, b, None, None, None, <<>>)
ListBuckets == Request("ListBuckets", None, None, None, None, <<>>)

IsRequest(r) ==
    /\ r \in [op: Ops \cup UploadOps, bucket: Buckets \cup {None},
              src: Objects \cup {None}, dst: Objects \cup {None},
              up: Uploads \cup {None}, dels: Seq(Objects)]
    /\ r.op \in BucketOps \cup {"DeleteObjects"} \cup UploadOps =>
           r.bucket \in Buckets /\ Range(r.dels) \subseteq ObjectsOf(r.bucket)
    /\ r.op \in Readers \cup Writers \cup {"Delete"} \cup JobOps =>
           r.src \in Objects /\ r.dst \in Objects
    /\ r.op \in Readers \cup {"Put", "Delete"} => r.src = r.dst
    /\ r.op = "Rename" => r.src # r.dst
    /\ IF r.op \in {"Put", "CreateUpload", "UploadPart"} THEN r.up \in Uploads ELSE r.up = None
    /\ r.op \in {"Rename", "Delete"} => r.dels = <<r.src>>
    /\ r.op \notin {"Rename"} \cup Deleters => r.dels = <<>>

ASSUME RequestsAssumption ==
    ~IsRequest(None) /\ \A r \in Requests : IsRequest(r) /\ r.op \in Ops

\* The resources a request may change, and those its outcome depends on.
Mutates(r) ==
    (IF r.op \in Writers \cup {"Complete"} THEN {r.dst} ELSE {})
        \cup Range(r.dels)
        \cup (IF r.op \in {"CreateBucket", "DeleteBucket"} THEN {r.bucket} ELSE {})
        \cup (IF r.op = "DeleteBucket" THEN ObjectsOf(r.bucket) ELSE {})

Reads(r) ==
    CASE r.op = "ListBuckets" -> Buckets
      [] r.op = "ListObjects" -> {r.bucket} \cup ObjectsOf(r.bucket)
      [] r.op \in Readers \cup Writers \cup {"Delete", "UploadPartCopy"} ->
             {r.src, r.dst, r.src[1], r.dst[1]}
      [] OTHER -> {r.bucket}

Touches(r) == Mutates(r) \cup Reads(r)

----------------------------------------------------------------------------
VARIABLES
    \* the data directory
    bucketFile,  \* content of .bucket.json, by bucket
    dirs,        \* the directories of a bucket that exist
    data,        \* content of the data file, by object
    meta,        \* content of the metadata file, by object
    litter,      \* buckets whose .objects holds temp files of a dead process
    \* the request each worker is serving
    pc,          \* the next file-system call
    req,         \* the request
    got,         \* what the handler read so far, and its answer
    temp,        \* content of the worker's .tmp- file
    todo,        \* objects still to delete, in order
    scan,        \* directory entries still to visit
    unlinked,    \* the file the worker has open for writing was removed
    \* history, which no action of the code reads
    acked,       \* what the last undisturbed mutation left, by resource
    dirty,       \* resources about which the code promises nothing any more
    quiet        \* by worker: resources no overlapping request mutates

disk == <<bucketFile, dirs, data, meta, litter>>
history == <<acked, dirty, quiet>>
vars == <<bucketFile, dirs, data, meta, litter,
          pc, req, got, temp, todo, scan, unlinked, acked, dirty, quiet>>

SubDirs == {"objects", "metadata", "multipart"}
DirNames == SubDirs \cup {"bucket", "registry"}

Codes == {None, "OK", "NoSuchBucket", "NoSuchKey", "BucketAlreadyExists",
          "BucketNotEmpty", "NoSuchUpload", "InvalidPart", "InternalError"}
AnswersWith(lists) == [code: Codes, body: Bodies \cup {None}, etag: ETags \cup {None},
                       attrs: Uploads \cup {None}, listed: lists]
Answers == AnswersWith(SUBSET Resources)
Nothing == [code |-> None, body |-> None, etag |-> None, attrs |-> None,
            listed |-> {}]

Labels ==
    {"idle", "done",
     "GetExists", "GetMeta", "GetOpen",
     "PutExists", "PutMkdir", "PutTemp", "PutCopy", "PutRename",
     "MetaMkdir", "MetaOpen", "MetaWrite", "CopyMeta", "HeadExists", "HeadMeta",
     "ManyExists", "DelExists", "DelData", "DelMeta",
     "ListExists", "ListScan", "ListRead",
     "CreateStat", "CreateDir", "CreateRegistry", "CreateOpen", "CreateWrite",
     "DeleteStat", "DeleteScan", "RemoveList", "RemoveFiles", "RmdirObjects",
     "RmdirMetadata", "RegistryUnlink", "RegistryRmdir",
     "HeadBucketStat", "LocationRead", "BucketsScan", "BucketsRead"}

\* The calls of Multipart.
UploadLabels ==
    {"UploadBucket", "UploadMkdir", "DocOpen", "DocWrite", "PartNumber",
     "UploadExists", "UploadRead", "PartTemp", "PartCopy", "PartRename",
     "CombinedTemp", "CombineMeta", "CombineData", "CombinedOpen", "CompleteExists",
     "CompleteMeta", "RemoveNames", "RemoveEntries", "RmdirUploads", "PartsScan",
     "PartsRead", "UploadsExists", "UploadsScan", "UploadsRead"}

Active(p) == pc[p] \notin {"idle", "done"}

----------------------------------------------------------------------------
(***************************************************************************)
(* Moves of a worker.                                                      *)
(***************************************************************************)
Goto(p, label) == pc' = [pc EXCEPT ![p] = label]

Finish(p, answer) ==
    /\ Goto(p, "done")
    /\ got' = [got EXCEPT ![p] = answer]

Succeed(p) == Finish(p, [got[p] EXCEPT !.code = "OK"])
Fail(p, code) == Finish(p, [Nothing EXCEPT !.code = code])

\* A call that only looks at the disk.
Look == UNCHANGED <<disk, history, req, temp, todo, unlinked>>

\* Looking for the bucket's directory instead (a mutant).
BucketExists_Directory(b) == "bucket" \in dirs[b]

BucketExists(b) == bucketFile[b] # None

\* os.WriteFile truncates and then writes from the start.  Onto a file that
\* is still empty this gives the document; onto one that another writer
\* filled meanwhile, the longer tail of that writer may remain.
Written(old, new) == IF old = Empty THEN {new} ELSE {new, Garbled}

\* Workers that write a metadata file, when the files of S are removed.
LoseFiles(S) ==
    unlinked' = [q \in Workers |->
        unlinked[q] \/ (pc[q] = "MetaWrite" /\ req[q].dst \in S)]

\* Files under a bucket's .objects directory.
ObjectsEntries(b) ==
    \/ b \in litter
    \/ \E a \in ObjectsOf(b) : data[a] # None
    \/ \E q \in Workers : temp[q] # None /\ req[q].dst[1] = b

----------------------------------------------------------------------------
(***************************************************************************)
(* History.  A mutation of x is undisturbed when no other request that     *)
(* mutates x overlaps it.  An undisturbed mutation that goes through makes *)
(* its result the acknowledged content of x; a disturbed one, a failed one *)
(* and one that is cut short by a crash leave x dirty.                     *)
(***************************************************************************)
\* x is between two writes of the request p serves.
Flux(p) ==
    CASE pc[p] \in {"MetaMkdir", "MetaOpen", "MetaWrite"} -> {req[p].dst}
      [] pc[p] = "DelMeta" -> {Head(todo[p])}
      [] pc[p] \in {"CreateWrite", "RegistryUnlink"} -> {req[p].bucket}
      [] OTHER -> {}

Disturb(p, S) ==
    /\ dirty' = dirty \cup (S \ quiet[p])
    /\ UNCHANGED <<acked, quiet>>

Commit(p, S, value) ==
    /\ acked' = [x \in Resources |->
                    IF x \in S \cap quiet[p] THEN value ELSE acked[x]]
    /\ dirty' = (dirty \ (S \cap quiet[p])) \cup (S \ quiet[p])
    /\ UNCHANGED quiet

Spoil(S) ==
    /\ dirty' = dirty \cup S
    /\ UNCHANGED <<acked, quiet>>

=============================================================================
