------------------------------ MODULE Multipart ------------------------------
(***************************************************************************)
(* Multipart uploads, next to the object and bucket requests of Backend.   *)
(* An upload is a directory; like everything else it has no lock, and      *)
(* each file-system call of storage/fs/multipart.go is one action.         *)
(*                                                                         *)
(*   <b>/.multipart/<sha256(id)>/              <<b, id>> \in folders       *)
(*   .../upload.json                           doc[<<b, id>>]              *)
(*   .../part-<n>.json (the part's ETag)       doc[<<<<b, id>>, n>>]       *)
(*   .../part-<n>.data                         partData[<<<<b, id>>, n>>]  *)
(*   .../.part-*, .../.combined-*              chunk[p] of the worker      *)
(*                                                                         *)
(* CompleteMultipartUpload ends in PutObject, HeadObject, PutMetadata and  *)
(* RemoveAll: the first and the third are the actions of ObjectStore.      *)
(***************************************************************************)
EXTENDS Backend, Integers

CONSTANTS
    Bytes,      \* what bodies are made of
    UploadIDs,  \* ids that CreateMultipartUpload draws at random
    PartCount,  \* the largest part number (10000 in the code)
    Calls       \* the multipart requests clients send

ASSUME PartCountAssumption == PartCount \in Nat \ {0}

\* Bodies are sequences here, as parts are joined.
ASSUME BodiesAssumption == Bodies = Seq(Bytes)

Paths == Buckets \X UploadIDs
Parts == Paths \X (1..PartCount)
Items == Paths \cup Parts
ItemsOf(d) == {d} \cup ({d} \X (1..PartCount))
ItemsIn(b) == UNION {ItemsOf(d) : d \in {b} \X UploadIDs}

\* The directory of an upload and the files in it have different names.
ASSUME UploadNamesAssumption == Paths \cap Parts = {}

\* The last number is refused (a mutant).
validPartNumber_Below(n) == n \in 1..(PartCount - 1)

validPartNumber(n) == n \in 1..PartCount

\* What upload.json says.
Sessions == [key: Objects, attrs: Uploads]

ASSUME SessionsAssumption == {None, Empty, Garbled} \cap Sessions = {}

\* A request: what Backend knows of every request, the upload, the number of
\* the part, and the parts a completion selects, each with its ETag (named by
\* the body it is the MD5 of).
UploadCall(op, s, a, id, part, body, sel) ==
    [req |-> Request(op, a[1], s, a, body, <<>>),
     job |-> [path |-> <<a[1], id>>, part |-> part, sel |-> sel,
              left |-> DOMAIN sel, etags |-> None]]
CreateUpload(a, id, headers) == UploadCall("CreateUpload", a, a, id, 0, headers, <<>>)
UploadPart(a, id, n, body) == UploadCall("UploadPart", a, a, id, n, body, <<>>)
UploadPartCopy(s, a, id, n) == UploadCall("UploadPartCopy", s, a, id, n, None, <<>>)
Complete(a, id, sel) == UploadCall("Complete", a, a, id, 0, None, sel)
Abort(a, id) == UploadCall("Abort", a, a, id, 0, None, <<>>)
ListParts(a, id) == UploadCall("ListParts", a, a, id, 0, None, <<>>)
ListUploads(b) == [req |-> BucketRequest("ListUploads", b), job |-> None]

Selections == Seq([part: Int, etag: Bodies])
Jobs(b) == [path: {b} \X UploadIDs, part: Int, sel: Selections,
            left: SUBSET Nat, etags: {None}]

IsCall(c) ==
    LET r == c.req
        j == c.job
    IN /\ IsRequest(r) /\ r.op \in UploadOps
       /\ IF r.op = "ListUploads" THEN j = None
          ELSE /\ j # None /\ j \in Jobs(r.bucket) /\ j.left = DOMAIN j.sel
               /\ r.op \notin {"UploadPart", "UploadPartCopy"} => j.part = 0
               /\ r.dst \in ObjectsOf(r.bucket)

ASSUME CallsAssumption == \A c \in Calls : IsCall(c)

VARIABLES
    folders,   \* upload directories that exist
    doc,       \* content of the JSON files
    partData,  \* content of the part files
    chunk,     \* content of the temp file a worker has in an upload directory
    job,       \* the multipart side of the request a worker serves
    \* history
    kept,      \* what the last undisturbed request left, by item
    unsure,    \* items about which the code promises nothing any more
    calm       \* by worker: items no overlapping request rewrites

uploadDisk == <<folders, doc, partData>>
uploadHistory == <<kept, unsure, calm>>
uploadVars == <<vars, uploadDisk, chunk, job, uploadHistory>>

Path(p) == job[p].path
Item(p) == IF req[p].op = "CreateUpload" THEN Path(p) ELSE <<Path(p), job[p].part>>

\* The items a request may change.
Rewrites(r, j) ==
    CASE r.op \in {"CreateUpload", "Complete", "Abort"} -> ItemsOf(j.path)
      [] r.op \in {"UploadPart", "UploadPartCopy"} -> {<<j.path, j.part>>}
      [] r.op = "DeleteBucket" -> ItemsIn(r.bucket)
      [] OTHER -> {}

\* The items it reads or changes.
Concerns(r, j) ==
    CASE j # None -> ItemsOf(j.path)
      [] r.op \in {"DeleteBucket", "ListUploads"} -> ItemsIn(r.bucket)
      [] OTHER -> {}

\* p is between two changes of an item.
UploadFlux(p) ==
    CASE pc[p] \in {"DocOpen", "DocWrite"} -> Rewrites(req[p], job[p])
      [] pc[p] = "RemoveEntries" -> ItemsOf(Path(p))
      [] OTHER -> {}

Lose(S) ==
    /\ unsure' = unsure \cup S
    /\ kept' = [y \in Items |-> IF y \in S THEN None ELSE kept[y]]
    /\ UNCHANGED calm

Unsettle(p, S) == Lose(S \ calm[p])

\* x keeps the value it was given, all other items of S go.
Keep(p, S, x, value) ==
    /\ kept' = [y \in Items |-> IF y \notin S THEN kept[y]
                                ELSE IF y = x /\ y \in calm[p] THEN value ELSE None]
    /\ unsure' = (unsure \ (S \cap calm[p])) \cup (S \ calm[p])
    /\ UNCHANGED calm

\* Without the deferred call (a mutant).
FailUpload_KeepsTemp(p, code) == Fail(p, code) /\ UNCHANGED chunk

\* The deferred call removes the temp file, whichever way the function ends.
FailUpload(p, code) == Fail(p, code) /\ chunk' = [chunk EXCEPT ![p] = None]

Elsewhere == UNCHANGED <<disk, history, req, temp, todo>>
LookUpload == Look /\ UNCHANGED <<scan, uploadDisk, uploadHistory>>

BucketKnown(p, label, next) ==
    /\ pc[p] = label
    /\ \/ BucketExists(req[p].bucket) /\ Goto(p, next) /\ UNCHANGED <<got, chunk>>
       \/ ~BucketExists(req[p].bucket) /\ FailUpload(p, "NoSuchBucket")
    /\ LookUpload /\ UNCHANGED job

----------------------------------------------------------------------------
(***************************************************************************)
(* CreateMultipartUpload, and the WriteFile it shares with UploadPart.     *)
(***************************************************************************)
UploadBucket(p) == BucketKnown(p, "UploadBucket", "UploadMkdir")

UploadMkdir(p) ==
    /\ pc[p] = "UploadMkdir"
    /\ folders' = folders \cup {Path(p)}
    /\ dirs' = [dirs EXCEPT ![req[p].bucket] = @ \cup {"bucket", "multipart"}]
    /\ Goto(p, "DocOpen")
    /\ UNCHANGED <<bucketFile, data, meta, litter, history, req, got, temp, todo,
                   scan, unlinked, doc, partData, chunk, job, uploadHistory>>

\* os.WriteFile of upload.json or part-<n>.json, first half.
DocOpen(p) ==
    /\ pc[p] = "DocOpen"
    /\ \/ /\ Path(p) \in folders
          /\ doc' = [doc EXCEPT ![Item(p)] = Empty]
          /\ unlinked' = [unlinked EXCEPT ![p] = FALSE]
          /\ Goto(p, "DocWrite")
          /\ UNCHANGED <<got, chunk, uploadHistory>>
       \/ /\ Path(p) \notin folders
          /\ FailUpload(p, "InternalError")
          /\ Lose({Item(p)})
          /\ UNCHANGED <<doc, unlinked>>
    /\ Elsewhere /\ UNCHANGED <<scan, folders, partData, job>>

NewDoc(p) == IF req[p].op = "CreateUpload" THEN [key |-> Dst(p), attrs |-> got[p].attrs]
             ELSE got[p].body

\* Second half.
DocWrite(p) ==
    /\ pc[p] = "DocWrite"
    /\ \/ /\ \/ unlinked[p] /\ UNCHANGED doc
             \/ /\ ~unlinked[p]
                /\ \E content \in Written(doc[Item(p)], NewDoc(p)) :
                       doc' = [doc EXCEPT ![Item(p)] = content]
          /\ Keep(p, Rewrites(req[p], job[p]), Item(p), NewDoc(p))
          /\ Succeed(p) /\ UNCHANGED chunk
       \/ /\ "write" \in Faults
          /\ \/ UNCHANGED doc
             \/ ~unlinked[p] /\ doc' = [doc EXCEPT ![Item(p)] = Garbled]
          /\ Lose({Item(p)})
          /\ FailUpload(p, "InternalError")
    /\ unlinked' = [unlinked EXCEPT ![p] = FALSE]
    /\ Elsewhere /\ UNCHANGED <<scan, folders, partData, job>>

----------------------------------------------------------------------------
(***************************************************************************)
(* readUpload, with which UploadPart, Complete, Abort and ListParts begin. *)
(***************************************************************************)
PartNumber(p) ==
    /\ pc[p] = "PartNumber"
    /\ \/ validPartNumber(job[p].part) /\ Goto(p, "UploadExists") /\ UNCHANGED <<got, chunk>>
       \/ ~validPartNumber(job[p].part) /\ FailUpload(p, "InvalidPart")
    /\ LookUpload /\ UNCHANGED job

UploadExists(p) == BucketKnown(p, "UploadExists", "UploadRead")

AfterRead == [UploadPart |-> "PartTemp", UploadPartCopy |-> "PartTemp",
              Complete |-> "CombinedTemp", Abort |-> "RemoveNames",
              ListParts |-> "PartsScan"]

UploadRead(p) ==
    /\ pc[p] = "UploadRead"
    /\ LET state == doc[Path(p)] IN
       \/ /\ state \in Sessions /\ state.key = Dst(p)
          /\ Goto(p, AfterRead[req[p].op])
          /\ got' = [got EXCEPT ![p].attrs = state.attrs]
          /\ UNCHANGED chunk
       \/ /\ state = None \/ (state \in Sessions /\ state.key # Dst(p))
          /\ FailUpload(p, "NoSuchUpload")
       \/ state \in {Empty, Garbled} /\ FailUpload(p, "InternalError")
    /\ LookUpload /\ UNCHANGED job

\* os.CreateTemp in the upload directory; the name is a new one.
CreateTemp(p, next) ==
    /\ \/ /\ Path(p) \in folders
          /\ chunk' = [chunk EXCEPT ![p] = Garbled]
          /\ scan' = [q \in Workers |->
                 IF pc[q] = "RemoveEntries" THEN scan[q] \ {<<"temp", p>>} ELSE scan[q]]
          /\ Goto(p, next)
          /\ UNCHANGED got
       \/ /\ Path(p) \notin folders
          /\ FailUpload(p, "InternalError")
          /\ UNCHANGED scan
    /\ Elsewhere /\ UNCHANGED <<unlinked, uploadDisk, uploadHistory, job>>

----------------------------------------------------------------------------
(***************************************************************************)
(* UploadPart: data by rename, then metadata in place, as in PutObject.    *)
(***************************************************************************)
PartTemp(p) == pc[p] = "PartTemp" /\ CreateTemp(p, "PartCopy")

\* The error of io.Copy goes unnoticed (a mutant).
PartCopy_IgnoresError(p) ==
    /\ pc[p] = "PartCopy"
    /\ \E content \in {Garbled, got[p].body} : chunk' = [chunk EXCEPT ![p] = content]
    /\ Goto(p, "PartRename")
    /\ LookUpload /\ UNCHANGED <<got, job>>

PartCopy(p) ==
    /\ pc[p] = "PartCopy"
    /\ \/ /\ chunk' = [chunk EXCEPT ![p] = IF @ = None THEN None ELSE got[p].body]
          /\ Goto(p, "PartRename")
          /\ UNCHANGED got
       \/ "upload" \in Faults /\ FailUpload(p, "InternalError")
    /\ LookUpload /\ UNCHANGED job

PartRename(p) ==
    /\ pc[p] = "PartRename"
    /\ \/ /\ chunk[p] # None
          /\ partData' = [partData EXCEPT ![Item(p)] = chunk[p]]
          /\ chunk' = [chunk EXCEPT ![p] = None]
          /\ Unsettle(p, {Item(p)})
          /\ Goto(p, "DocOpen")
          /\ UNCHANGED got
       \/ /\ chunk[p] = None
          /\ FailUpload(p, "InternalError")
          /\ UNCHANGED <<partData, uploadHistory>>
    /\ Elsewhere /\ UNCHANGED <<scan, unlinked, folders, doc, job>>

----------------------------------------------------------------------------
(***************************************************************************)
(* CompleteMultipartUpload.                                                *)
(***************************************************************************)
CombinedTemp(p) ==
    /\ pc[p] = "CombinedTemp"
    /\ \/ job[p].sel # <<>> /\ CreateTemp(p, "CombineMeta")
       \/ /\ job[p].sel = <<>>
          /\ FailUpload(p, "InvalidPart")
          /\ LookUpload /\ UNCHANGED job

\* The selection is gone through as it was sent (a mutant).
NextSelected_AsSent(p, k) == k \in job[p].left /\ \A j \in job[p].left : k <= j

\* The selection is gone through by part number; of two entries with one
\* number either may come first.
NextSelected(p, k) ==
    k \in job[p].left /\ \A j \in job[p].left : job[p].sel[k].part <= job[p].sel[j].part

Accepted(p, s) ==
    /\ validPartNumber(s.part) /\ s.part # job[p].part
    /\ doc[<<Path(p), s.part>>] = s.etag

Join(bytes, more) == IF bytes = None THEN more ELSE bytes \o more

\* The metadata of the next part is read and compared ...
CombineMeta(p) ==
    /\ pc[p] = "CombineMeta"
    /\ \E k \in DOMAIN job[p].sel :
           LET s == job[p].sel[k] IN
           /\ NextSelected(p, k)
           /\ \/ /\ Accepted(p, s)
                 /\ job' = [job EXCEPT ![p].part = s.part, ![p].left = @ \ {k},
                                       ![p].etags = Join(@, s.etag)]
                 /\ Goto(p, "CombineData")
                 /\ UNCHANGED <<got, chunk>>
              \/ ~Accepted(p, s) /\ FailUpload(p, "InvalidPart") /\ UNCHANGED job
    /\ LookUpload

\* ... and then its data, by another call.
CombineData(p) ==
    /\ pc[p] = "CombineData"
    /\ LET body == partData[Item(p)] IN
       \/ /\ body # None
          /\ got' = [got EXCEPT ![p].body = Join(@, body)]
          /\ Goto(p, IF job[p].left = {} THEN "CombinedOpen" ELSE "CombineMeta")
          /\ UNCHANGED chunk
       \/ body = None /\ FailUpload(p, "InvalidPart")
       \/ "upload" \in Faults /\ FailUpload(p, "InternalError")
    /\ LookUpload /\ UNCHANGED job

\* The combined file is opened by its name, which may be gone.
CombinedOpen(p) ==
    /\ pc[p] = "CombinedOpen"
    /\ \/ chunk[p] # None /\ Goto(p, "PutExists") /\ UNCHANGED <<got, chunk>>
       \/ chunk[p] = None /\ FailUpload(p, "InternalError")
    /\ LookUpload /\ UNCHANGED job

\* HeadObject after PutObject.
CompleteExists(p) == BucketKnown(p, "CompleteExists", "CompleteMeta")

\* The document gets the ETag of the parts and is written again.
CompleteMeta(p) ==
    /\ pc[p] = "CompleteMeta"
    /\ LET found == meta[Dst(p)] IN
       \/ /\ found \in Documents
          /\ got' = [got EXCEPT ![p] = [@ EXCEPT
                 !.etag = [kind |-> "multipart", of |-> job[p].etags],
                 !.attrs = found.attrs]]
          /\ Goto(p, "MetaMkdir")
          /\ UNCHANGED chunk
       \/ found \notin Documents /\ FailUpload(p, "InternalError")
    /\ LookUpload /\ UNCHANGED job

----------------------------------------------------------------------------
(***************************************************************************)
(* RemoveAll of the upload directory, at the end of Complete and of Abort. *)
(***************************************************************************)
UploadEntries(d) ==
    {<<"json", x>> : x \in {y \in ItemsOf(d) : doc[y] # None}}
    \cup {<<"data", x>> : x \in {y \in {d} \X (1..PartCount) : partData[y] # None}}
    \cup {<<"temp", q>> : q \in {w \in Workers : chunk[w] # None /\ Path(w) = d}}

RemoveNames(p) ==
    /\ pc[p] = "RemoveNames"
    /\ scan' = [scan EXCEPT ![p] = UploadEntries(Path(p))]
    /\ Unsettle(p, ItemsOf(Path(p)))
    /\ Goto(p, "RemoveEntries")
    /\ Elsewhere /\ UNCHANGED <<got, unlinked, uploadDisk, chunk, job>>

\* The files of names go; who has one of them open writes into the void.
Unlink(names) ==
    /\ doc' = [x \in Items |-> IF <<"json", x>> \in names THEN None ELSE doc[x]]
    /\ partData' = [x \in Parts |-> IF <<"data", x>> \in names THEN None ELSE partData[x]]
    /\ chunk' = [q \in Workers |-> IF <<"temp", q>> \in names THEN None ELSE chunk[q]]
    /\ unlinked' = [q \in Workers |-> unlinked[q] \/
                       (pc[q] = "DocWrite" /\ <<"json", Item(q)>> \in names)]

RemoveEntry(p) ==
    /\ pc[p] = "RemoveEntries"
    /\ \E name \in scan[p] :
           Unlink({name}) /\ scan' = [scan EXCEPT ![p] = @ \ {name}]
    /\ Elsewhere /\ UNCHANGED <<pc, got, folders, job, uploadHistory>>

RemoveFolder(p) ==
    /\ pc[p] = "RemoveEntries" /\ scan[p] = {}
    /\ \/ /\ UploadEntries(Path(p)) = {}
          /\ folders' = folders \ {Path(p)}
          /\ Keep(p, ItemsOf(Path(p)), None, None)
          /\ Succeed(p)
          /\ UNCHANGED chunk
       \/ /\ UploadEntries(Path(p)) # {}
          /\ Lose(ItemsOf(Path(p)))
          /\ FailUpload(p, "InternalError")
          /\ UNCHANGED folders
    /\ Elsewhere /\ UNCHANGED <<scan, unlinked, doc, partData, job>>

\* DeleteBucket, which looks into .objects only, takes the uploads along.
SweepUploads(p) ==
    /\ pc[p] = "RemoveFiles" /\ "multipart" \in scan[p]
    /\ Unlink(UNION {UploadEntries(d) : d \in {req[p].bucket} \X UploadIDs})
    /\ Keep(p, ItemsIn(req[p].bucket), None, None)
    /\ Goto(p, "RmdirUploads")
    /\ Elsewhere /\ UNCHANGED <<got, scan, folders, job>>

RmdirUploads(p) ==
    LET b == req[p].bucket
        refilled == {d \in folders : d[1] = b /\ UploadEntries(d) # {}}
    IN
    /\ pc[p] = "RmdirUploads"
    /\ folders' = {d \in folders : d[1] = b => d \in refilled}
    /\ dirs' = IF refilled # {} THEN dirs ELSE [dirs EXCEPT ![b] = @ \ {"multipart"}]
    /\ scan' = [scan EXCEPT ![p] = @ \ {"multipart"}]
    /\ Goto(p, "RemoveFiles")
    /\ UNCHANGED <<bucketFile, data, meta, litter, history, req, got, temp, todo,
                   unlinked, doc, partData, chunk, job, uploadHistory>>

----------------------------------------------------------------------------
(***************************************************************************)
(* ListParts gives up at a part it cannot read; ListMultipartUploads skips *)
(* an upload it cannot read.                                               *)
(***************************************************************************)
PartsScan(p) ==
    /\ pc[p] = "PartsScan"
    /\ \/ /\ Path(p) \in folders
          /\ scan' = [scan EXCEPT ![p] = {x \in ItemsOf(Path(p)) \ {Path(p)} : doc[x] # None}]
          /\ Goto(p, "PartsRead")
          /\ UNCHANGED <<got, chunk>>
       \/ Path(p) \notin folders /\ FailUpload(p, "InternalError") /\ UNCHANGED scan
    /\ Look /\ UNCHANGED <<uploadDisk, uploadHistory, job>>

ReadEntry(p, x, content) ==
    /\ scan' = [scan EXCEPT ![p] = @ \ {x}]
    /\ got' = [got EXCEPT ![p].listed = @ \cup content]
    /\ UNCHANGED <<pc, chunk>>

\* The last entry is left out (a mutant).
PartsRead_ButOne(p) ==
    /\ pc[p] = "PartsRead"
    /\ \/ \E x \in scan[p] : /\ scan[p] # {x} /\ doc[x] \in Bodies
                             /\ ReadEntry(p, x, {<<x, doc[x]>>})
       \/ (\A x \in scan[p] : scan[p] = {x}) /\ Succeed(p) /\ UNCHANGED <<scan, chunk>>
    /\ Look /\ UNCHANGED <<uploadDisk, uploadHistory, job>>

PartsRead(p) ==
    /\ pc[p] = "PartsRead"
    /\ \/ \E x \in scan[p] : doc[x] \in Bodies /\ ReadEntry(p, x, {<<x, doc[x]>>})
       \/ \E x \in scan[p] : /\ doc[x] \notin Bodies
                             /\ FailUpload(p, "InternalError") /\ UNCHANGED scan
       \/ scan[p] = {} /\ Succeed(p) /\ UNCHANGED <<scan, chunk>>
    /\ Look /\ UNCHANGED <<uploadDisk, uploadHistory, job>>

UploadsExists(p) == BucketKnown(p, "UploadsExists", "UploadsScan")

UploadsScan(p) ==
    /\ pc[p] = "UploadsScan"
    /\ scan' = [scan EXCEPT ![p] = {d \in folders : d[1] = req[p].bucket}]
    /\ Goto(p, "UploadsRead")
    /\ Look /\ UNCHANGED <<got, chunk, uploadDisk, uploadHistory, job>>

UploadsRead(p) ==
    /\ pc[p] = "UploadsRead"
    /\ \/ \E d \in scan[p] :
              ReadEntry(p, d, IF doc[d] \in Sessions THEN {<<d, doc[d]>>} ELSE {})
       \/ scan[p] = {} /\ Succeed(p) /\ UNCHANGED <<scan, chunk>>
    /\ Look /\ UNCHANGED <<uploadDisk, uploadHistory, job>>

----------------------------------------------------------------------------
UploadStep(p) ==
    \/ UploadBucket(p) \/ UploadMkdir(p) \/ DocOpen(p) \/ DocWrite(p)
    \/ PartNumber(p) \/ UploadExists(p) \/ UploadRead(p)
    \/ PartTemp(p) \/ PartCopy(p) \/ PartRename(p)
    \/ CombinedTemp(p) \/ CombineMeta(p) \/ CombineData(p) \/ CombinedOpen(p)
    \/ CompleteExists(p) \/ CompleteMeta(p)
    \/ RemoveNames(p) \/ RemoveEntry(p) \/ RemoveFolder(p)
    \/ SweepUploads(p) \/ RmdirUploads(p)
    \/ PartsScan(p) \/ PartsRead(p)
    \/ UploadsExists(p) \/ UploadsScan(p) \/ UploadsRead(p)

\* A call of ObjectStore or BucketStore, on behalf of whatever request.
PlainStep(p) ==
    /\ Step(p)
    /\ chunk' = [chunk EXCEPT ![p] = IF pc'[p] = "done" THEN None ELSE @]
    /\ UNCHANGED <<uploadDisk, job, uploadHistory>>

\* An id is drawn that nothing on disk and no request uses.
Fresh(d) == d \notin folders \cup {Path(q) : q \in {w \in Workers : job[w] # None}}

BeginUpload(p, r, j) ==
    /\ Begin(p, r)
    /\ r.op = "CreateUpload" => Fresh(j.path)
    /\ job' = [job EXCEPT ![p] = j]
    /\ calm' = [q \in Workers |->
           IF q # p THEN calm[q] \ Rewrites(r, j)
           ELSE {x \in Concerns(r, j) : \A o \in Workers \ {p} :
                    Active(o) => x \notin Rewrites(req[o], job[o])}]
    /\ UNCHANGED <<uploadDisk, chunk, kept, unsure>>

RespondUpload(p) ==
    /\ Respond(p)
    /\ job' = [job EXCEPT ![p] = None]
    /\ calm' = [calm EXCEPT ![p] = {}]
    /\ UNCHANGED <<uploadDisk, chunk, kept, unsure>>

\* A temp file left in an upload directory is in nobody's way: whatever
\* removes the directory removes it too.
CrashUpload ==
    /\ Crash
    /\ chunk' = [p \in Workers |-> None]
    /\ job' = [p \in Workers |-> None]
    /\ LET torn == UNION {UploadFlux(p) : p \in Workers} IN
       /\ unsure' = unsure \cup torn
       /\ kept' = [y \in Items |-> IF y \in torn THEN None ELSE kept[y]]
    /\ calm' = [p \in Workers |-> {}]
    /\ UNCHANGED uploadDisk

\* Uploads may be under way when the server starts.
UploadInit ==
    /\ folders \in SUBSET Paths
    /\ InitWith({d[1] : d \in folders})
    /\ \A d \in folders : acked[d[1]] = Registered
    /\ \E state \in [folders -> Sessions],
          sent \in [folders \X (1..PartCount) -> Uploads \cup {None}] :
           doc = [x \in Items |-> IF x \in folders THEN state[x]
                                  ELSE IF x \in DOMAIN sent THEN sent[x] ELSE None]
    /\ \A d \in folders : doc[d].key[1] = d[1]
    /\ partData = [x \in Parts |-> doc[x]]
    /\ kept = doc /\ unsure = {}
    /\ chunk = [p \in Workers |-> None] /\ job = [p \in Workers |-> None]
    /\ calm = [p \in Workers |-> {}]

UploadNext ==
    \/ \E p \in Workers :
          \/ PlainStep(p) \/ UploadStep(p) \/ RespondUpload(p)
          \/ \E r \in Requests : BeginUpload(p, r, None)
          \/ \E c \in Calls : BeginUpload(p, c.req, c.job)
    \/ CrashUpload

UploadSpec == UploadInit /\ [][UploadNext]_uploadVars

----------------------------------------------------------------------------
(***************************************************************************)
(* Properties.                                                             *)
(***************************************************************************)
\* Every variable holds a value of its kind; a temp file belongs to a running
\* request, and whatever is in an upload directory is in one that exists.
UploadTypeOK ==
    /\ DiskTypeOK /\ HistoryTypeOK
    /\ pc \in [Workers -> Labels \cup UploadLabels]
    /\ folders \subseteq Paths
    /\ DOMAIN doc = Items /\ DOMAIN kept = Items
    /\ \A d \in Paths : /\ doc[d] \in Sessions \cup {None, Empty, Garbled}
                        /\ kept[d] \in Sessions \cup {None}
    /\ \A x \in Parts : /\ doc[x] \in Bodies \cup {None, Empty, Garbled}
                        /\ kept[x] \in Bodies \cup {None}
    /\ partData \in [Parts -> Bodies \cup {None}]
    /\ chunk \in [Workers -> Bodies \cup {None, Garbled}]
    /\ \A p \in Workers : ~Active(p) => chunk[p] = None
    /\ \A d \in Paths : UploadEntries(d) # {} => d \in folders
    /\ unsure \subseteq Items
    /\ calm \in [Workers -> SUBSET Items]

\* What an upload directory holds is what the last undisturbed request left
\* there: a part's data, its ETag and what the client sent agree, whatever
\* happens to other parts, to the object and to the process.  So an upload
\* whose completion was killed before its last step can be completed again.
PartsHold ==
    \A x \in Items \ unsure :
        (\A p \in Workers : x \notin UploadFlux(p))
        => doc[x] = kept[x] /\ (x \in Parts => partData[x] = kept[x])

\* Nothing overlapped p's use of S, and nothing had broken it before.
Sure(p, S) == S \subseteq calm[p] \ unsure

\* The bodies a selection names, in the order of the part numbers.
Chosen(sel, n) ==
    IF \E k \in DOMAIN sel : sel[k].part = n
    THEN sel[CHOOSE k \in DOMAIN sel : sel[k].part = n].etag ELSE <<>>
JoinedUpTo(sel) ==
    LET upTo[n \in 0..PartCount] ==
            IF n = 0 THEN <<>> ELSE upTo[n - 1] \o Chosen(sel, n)
    IN upTo
Joined(sel) == JoinedUpTo(sel)[PartCount]

\* Before it removes the upload, a completion that nothing overlapped has made
\* the object out of exactly the selected parts, by number, with the headers
\* of the upload and the ETag of those parts, and this ETag is its answer.
CompletesAreExact ==
    \A p \in Workers : req[p] # None /\ req[p].op = "Complete" /\ Dst(p) \in quiet[p] =>
        LET whole == Joined(job[p].sel) IN
        /\ pc[p] = "RemoveNames" /\ Sure(p, ItemsOf(Path(p)))
           => /\ Dst(p) \notin dirty
              /\ acked[Dst(p)] = [body |-> whole, attrs |-> kept[Path(p)].attrs,
                                 etag |-> [kind |-> "multipart", of |-> whole]]
        /\ Answered(p, "Complete", "OK")
           => Dst(p) \notin dirty /\ got[p].etag = acked[Dst(p)].etag

\* A selection the code must refuse: nothing, a number twice, a number or an
\* ETag that is not the one uploaded.
Refusable(d, sel) ==
    \/ sel = <<>>
    \/ \E j, k \in DOMAIN sel : j # k /\ sel[j].part = sel[k].part
    \/ \E k \in DOMAIN sel : \/ sel[k].part \notin 1..PartCount
                             \/ kept[<<d, sel[k].part>>] # sel[k].etag

\* What UploadPart, Complete, Abort and ListParts answer of an upload nothing
\* overlapped: NoSuchUpload just when there is none for this key, InvalidPart
\* just for what must be refused; after success the upload is what the
\* request makes of it, and no request fails for want of one that ran before.
UploadAnswersAreExact ==
    \A p \in Workers : pc[p] = "done" /\ job[p] # None /\ Sure(p, ItemsOf(Path(p))) =>
        LET d == Path(p)
            open == kept[d] # None /\ kept[d].key = Dst(p)
        IN /\ got[p].code = "NoSuchUpload" => ~open
           /\ req[p].op = "UploadPart" /\ got[p].code = "OK" =>
                  open /\ kept[Item(p)] = req[p].up
           /\ Answered(p, "UploadPartCopy", "OK") /\ Undisturbed(p, Src(p)) =>
                  open /\ acked[Src(p)] # None /\ kept[Item(p)] = acked[Src(p)].body
           /\ req[p].op = "Complete" /\ got[p].code = "InvalidPart" =>
                  open /\ Refusable(d, job[p].sel)
           /\ req[p].op \in {"Complete", "Abort"} /\ got[p].code = "OK" => kept[d] = None
           /\ req[p].op \in {"Abort", "ListParts"} => got[p].code # "InternalError"

\* ListParts shows the parts of an upload with their ETags, and
\* ListMultipartUploads the uploads of a bucket with key and headers.
UploadListingsAreExact ==
    \A p \in Workers :
        /\ Answered(p, "ListParts", "OK") =>
               \A x \in ItemsOf(Path(p)) \cap Parts : x \in calm[p] \ unsure =>
                   {e \in got[p].listed : e[1] = x}
                       = IF kept[x] = None THEN {} ELSE {<<x, kept[x]>>}
        /\ Answered(p, "ListUploads", "OK") =>
               \A d \in {req[p].bucket} \X UploadIDs : d \in calm[p] \ unsure =>
                   {e \in got[p].listed : e[1] = d}
                       = IF kept[d] = None THEN {} ELSE {<<d, kept[d]>>}

----------------------------------------------------------------------------
\* "CompleteMultipartUpload concatenates selected parts into the final
\* object": the object a successful completion left, with no other request on
\* it or on the upload at the time, is made of the parts whose ETags the
\* client selected.
CompletedIsSelected ==
    \A p \in Workers :
        /\ Answered(p, "Complete", "OK")
        /\ Dst(p) \in quiet[p] /\ ItemsOf(Path(p)) \subseteq calm[p]
        => acked[Dst(p)].body = Joined(job[p].sel)

=============================================================================
