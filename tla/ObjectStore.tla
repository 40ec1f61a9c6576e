---------------------------- MODULE ObjectStore ----------------------------
(***************************************************************************)
(* The object requests: one action per file-system call of PutObject,      *)
(* GetObject, HeadObject, CopyObject, RenameObject, DeleteObject and       *)
(* ListObjects of storage/fs, as the handlers of package api call them.    *)
(***************************************************************************)
EXTENDS DataDir

Src(p) == req[p].src
Dst(p) == req[p].dst

----------------------------------------------------------------------------
(***************************************************************************)
(* GetObject: bucket, then metadata, then data.  CopyObject and            *)
(* RenameObject start with it and go on to PutObject, a part that is       *)
(* copied from an object to UploadPart.                                    *)
(***************************************************************************)
\* multipartError has no answer of its own for a missing key.
Missing(p) == IF req[p].op = "UploadPartCopy" THEN "InternalError" ELSE "NoSuchKey"

\* A missing, half-written or unreadable document ends the request.
ReadDocument(p, a) ==
    /\ meta[a] \notin Documents
    /\ Fail(p, IF meta[a] = None THEN Missing(p) ELSE "InternalError")

GetExists(p) ==
    /\ pc[p] = "GetExists"
    /\ \/ BucketExists(Src(p)[1]) /\ Goto(p, "GetMeta") /\ UNCHANGED got
       \/ ~BucketExists(Src(p)[1]) /\ Fail(p, "NoSuchBucket")
    /\ Look /\ UNCHANGED scan

GetMeta(p) ==
    /\ pc[p] = "GetMeta"
    /\ LET doc == meta[Src(p)] IN
       \/ /\ doc \in Documents
          /\ Goto(p, "GetOpen")
          /\ got' = [got EXCEPT ![p] = [@ EXCEPT !.etag = doc.etag, !.attrs = doc.attrs]]
       \/ ReadDocument(p, Src(p))
    /\ Look /\ UNCHANGED scan

\* The open descriptor keeps the body: data files are only ever replaced.
GetOpen(p) ==
    /\ pc[p] = "GetOpen"
    /\ LET body == data[Src(p)] IN
       \/ body = None /\ Fail(p, Missing(p))
       \/ /\ body # None /\ req[p].op = "Get"
          /\ Finish(p, [got[p] EXCEPT !.body = body, !.code = "OK"])
       \/ /\ body # None /\ req[p].op # "Get"
          /\ Goto(p, IF req[p].op = "UploadPartCopy" THEN "PartNumber" ELSE "PutExists")
          /\ got' = [got EXCEPT ![p].body = body]
    /\ Look /\ UNCHANGED scan

----------------------------------------------------------------------------
(***************************************************************************)
(* PutObject: the body goes to a temp file that is renamed over the data   *)
(* file; then os.WriteFile rewrites the metadata file in place.            *)
(***************************************************************************)
PutExists(p) ==
    /\ pc[p] = "PutExists"
    /\ \/ BucketExists(Dst(p)[1]) /\ Goto(p, "PutMkdir") /\ UNCHANGED got
       \/ ~BucketExists(Dst(p)[1]) /\ Fail(p, "NoSuchBucket")
    /\ Look /\ UNCHANGED scan

\* MkdirAll also brings back a bucket directory that was removed meanwhile.
PutMkdir(p) ==
    /\ pc[p] = "PutMkdir"
    /\ Goto(p, "PutTemp")
    /\ dirs' = [dirs EXCEPT ![Dst(p)[1]] = @ \cup {"bucket", "objects"}]
    /\ UNCHANGED <<bucketFile, data, meta, litter, history,
                   req, got, temp, todo, scan, unlinked>>

PutTemp(p) ==
    /\ pc[p] = "PutTemp"
    /\ \/ /\ "objects" \in dirs[Dst(p)[1]]
          /\ Goto(p, "PutCopy")
          /\ temp' = [temp EXCEPT ![p] = Garbled]
          /\ UNCHANGED got
       \/ /\ "objects" \notin dirs[Dst(p)[1]]
          /\ Fail(p, "InternalError")
          /\ UNCHANGED temp
    /\ UNCHANGED <<disk, history, req, todo, scan, unlinked>>

\* The error of io.Copy goes unnoticed (a mutant).
PutCopy_IgnoresError(p) ==
    /\ pc[p] = "PutCopy"
    /\ Goto(p, "PutRename")
    /\ \E content \in {Garbled, got[p].body} : temp' = [temp EXCEPT ![p] = content]
    /\ UNCHANGED <<disk, history, req, got, todo, scan, unlinked>>

\* The client goes away or the disk is full: the deferred call removes the
\* temp file.  A temp file that DeleteBucket swept stays gone.
PutCopy(p) ==
    /\ pc[p] = "PutCopy"
    /\ \/ /\ Goto(p, "PutRename")
          /\ temp' = [temp EXCEPT ![p] = IF @ = None THEN None ELSE got[p].body]
          /\ UNCHANGED got
       \/ /\ "upload" \in Faults
          /\ Fail(p, "InternalError")
          /\ temp' = [temp EXCEPT ![p] = None]
    /\ UNCHANGED <<disk, history, req, todo, scan, unlinked>>

PutRename(p) ==
    /\ pc[p] = "PutRename"
    /\ \/ /\ temp[p] # None
          /\ data' = [data EXCEPT ![Dst(p)] = temp[p]]
          /\ temp' = [temp EXCEPT ![p] = None]
          /\ Disturb(p, {Dst(p)})
          /\ Goto(p, "MetaMkdir")
          /\ UNCHANGED got
       \/ /\ temp[p] = None
          /\ Fail(p, "InternalError")
          /\ UNCHANGED <<data, temp, history>>
    /\ UNCHANGED <<bucketFile, dirs, meta, litter, req, todo, scan, unlinked>>

MetaMkdir(p) ==
    /\ pc[p] = "MetaMkdir"
    /\ Goto(p, "MetaOpen")
    /\ dirs' = [dirs EXCEPT ![Dst(p)[1]] = @ \cup {"bucket", "metadata"}]
    /\ UNCHANGED <<bucketFile, data, meta, litter, history,
                   req, got, temp, todo, scan, unlinked>>

\* Open without O_TRUNC (a mutant).
MetaOpen_NoTruncate(p) ==
    /\ pc[p] = "MetaOpen"
    /\ meta' = [meta EXCEPT ![Dst(p)] = IF @ = None THEN Empty ELSE @]
    /\ Goto(p, "MetaWrite")
    /\ UNCHANGED <<bucketFile, dirs, data, litter, history,
                   req, got, temp, todo, scan, unlinked>>

\* os.WriteFile, first half: open with O_TRUNC.
MetaOpen(p) ==
    /\ pc[p] = "MetaOpen"
    /\ \/ /\ "metadata" \in dirs[Dst(p)[1]]
          /\ meta' = [meta EXCEPT ![Dst(p)] = Empty]
          /\ unlinked' = [unlinked EXCEPT ![p] = FALSE]
          /\ Goto(p, "MetaWrite")
          /\ UNCHANGED <<got, history>>
       \/ /\ "metadata" \notin dirs[Dst(p)[1]]
          /\ Fail(p, "InternalError")
          /\ Spoil({Dst(p)})
          /\ UNCHANGED <<meta, unlinked>>
    /\ UNCHANGED <<bucketFile, dirs, data, litter, req, temp, todo, scan>>

\* The call that follows PutMetadata: handlePutObject reads the ETag back,
\* CopyObject the whole document.  CompleteMultipartUpload reads the document
\* after its PutObject, writes it again with an ETag of its own and then
\* removes the upload.
AfterPut(p) ==
    CASE req[p].op = "Put" -> "HeadExists"
      [] req[p].op = "Complete" ->
             IF got[p].etag = None THEN "CompleteExists" ELSE "RemoveNames"
      [] OTHER -> "CopyMeta"

\* A copy that keeps the ETag of its source (a mutant).
NewDocument_SourceETag(p) ==
    [etag |-> IF got[p].etag = None THEN Md5(got[p].body) ELSE got[p].etag,
     attrs |-> got[p].attrs]

NewDocument(p) ==
    [etag |-> IF req[p].op = "Complete" /\ got[p].etag # None THEN got[p].etag
              ELSE Md5(got[p].body),
     attrs |-> got[p].attrs]

\* os.WriteFile, second half.  Writing to a removed file reaches nobody.
MetaWrite(p) ==
    /\ pc[p] = "MetaWrite"
    /\ \/ /\ \/ unlinked[p] /\ UNCHANGED meta
             \/ /\ ~unlinked[p]
                /\ \E doc \in Written(meta[Dst(p)], NewDocument(p)) :
                       meta' = [meta EXCEPT ![Dst(p)] = doc]
          /\ Commit(p, {Dst(p)}, Version(got[p].body, NewDocument(p)))
          /\ Goto(p, AfterPut(p))
          /\ UNCHANGED got
       \/ /\ "write" \in Faults
          /\ \/ UNCHANGED meta
             \/ ~unlinked[p] /\ meta' = [meta EXCEPT ![Dst(p)] = Garbled]
          /\ Spoil({Dst(p)})
          /\ Fail(p, "InternalError")
    /\ unlinked' = [unlinked EXCEPT ![p] = FALSE]
    /\ UNCHANGED <<bucketFile, dirs, data, litter, req, temp, todo, scan>>

\* CopyObject returns the document it finds at the destination.
CopyMeta(p) ==
    /\ pc[p] = "CopyMeta"
    /\ LET doc == meta[Dst(p)]
           answer == [got[p] EXCEPT !.etag = doc.etag]
       IN
       \/ /\ doc \in Documents /\ req[p].op = "Copy"
          /\ Finish(p, [answer EXCEPT !.code = "OK"])
       \/ /\ doc \in Documents /\ req[p].op = "Rename"
          /\ Goto(p, "DelExists")
          /\ got' = [got EXCEPT ![p] = answer]
       \/ ReadDocument(p, Dst(p))
    /\ Look /\ UNCHANGED scan

----------------------------------------------------------------------------
(***************************************************************************)
(* HeadObject, for HEAD requests, for ?attributes, and for                 *)
(* handlePutObject, which answers 200 without an ETag when it fails.       *)
(***************************************************************************)
HeadExists(p) ==
    /\ pc[p] = "HeadExists"
    /\ \/ BucketExists(Dst(p)[1]) /\ Goto(p, "HeadMeta") /\ UNCHANGED got
       \/ ~BucketExists(Dst(p)[1]) /\ req[p].op = "Put" /\ Succeed(p)
       \/ ~BucketExists(Dst(p)[1]) /\ req[p].op # "Put" /\ Fail(p, "NoSuchBucket")
    /\ Look /\ UNCHANGED scan

HeadMeta(p) ==
    /\ pc[p] = "HeadMeta"
    /\ LET doc == meta[Dst(p)] IN
       \/ /\ doc \in Documents
          /\ Finish(p, [got[p] EXCEPT !.etag = doc.etag, !.attrs = doc.attrs,
                                      !.code = "OK"])
       \/ doc \notin Documents /\ req[p].op = "Put" /\ Succeed(p)
       \/ req[p].op # "Put" /\ ReadDocument(p, Dst(p))
    /\ Look /\ UNCHANGED scan

----------------------------------------------------------------------------
(***************************************************************************)
(* DeleteObject: data first, then metadata; no data, nothing to do.        *)
(* handleDeleteObjects calls it for one key after another and gives up at  *)
(* the first error; RenameObject calls it last.                            *)
(***************************************************************************)
ManyExists(p) ==
    /\ pc[p] = "ManyExists"
    /\ \/ ~BucketExists(req[p].bucket) /\ Fail(p, "NoSuchBucket")
       \/ BucketExists(req[p].bucket) /\ todo[p] = <<>> /\ Succeed(p)
       \/ /\ BucketExists(req[p].bucket) /\ todo[p] # <<>>
          /\ Goto(p, "DelExists")
          /\ UNCHANGED got
    /\ Look /\ UNCHANGED scan

DelExists(p) ==
    /\ pc[p] = "DelExists"
    /\ LET found == BucketExists(Head(todo[p])[1]) IN
       \/ found /\ Goto(p, "DelData") /\ UNCHANGED got
       \/ /\ ~found
          /\ Fail(p, IF req[p].op = "DeleteObjects" THEN "InternalError"
                                                    ELSE "NoSuchBucket")
    /\ Look /\ UNCHANGED scan

\* A batch that stops after its first key (a mutant).
NextDelete_OnlyFirst(p) ==
    /\ todo' = [todo EXCEPT ![p] = <<>>]
    /\ Succeed(p)

NextDelete(p) ==
    /\ todo' = [todo EXCEPT ![p] = Tail(@)]
    /\ \/ Tail(todo[p]) # <<>> /\ Goto(p, "DelExists") /\ UNCHANGED got
       \/ Tail(todo[p]) = <<>> /\ Succeed(p)

\* The metadata file is forgotten (a mutant).
DelData_KeepsMetadata(p) ==
    /\ pc[p] = "DelData"
    /\ data' = [data EXCEPT ![Head(todo[p])] = None]
    /\ Disturb(p, {Head(todo[p])})
    /\ NextDelete(p)
    /\ UNCHANGED <<bucketFile, dirs, meta, litter, req, temp, scan, unlinked>>

DelData(p) ==
    /\ pc[p] = "DelData"
    /\ LET a == Head(todo[p]) IN
       \/ /\ data[a] # None
          /\ data' = [data EXCEPT ![a] = None]
          /\ Disturb(p, {a})
          /\ Goto(p, "DelMeta")
          /\ UNCHANGED <<got, todo>>
       \/ /\ data[a] = None
          /\ NextDelete(p)
          /\ UNCHANGED <<data, history>>
       \/ /\ "remove" \in Faults
          /\ Fail(p, "InternalError")
          /\ UNCHANGED <<data, todo, history>>
    /\ UNCHANGED <<bucketFile, dirs, meta, litter, req, temp, scan, unlinked>>

\* When DeleteMetadata fails, the data is already gone.
DelMeta(p) ==
    /\ pc[p] = "DelMeta"
    /\ LET a == Head(todo[p]) IN
       \/ /\ meta' = [meta EXCEPT ![a] = None]
          /\ LoseFiles({a})
          /\ Commit(p, {a}, None)
          /\ NextDelete(p)
       \/ /\ "remove" \in Faults
          /\ Spoil({a})
          /\ Fail(p, "InternalError")
          /\ UNCHANGED <<meta, todo, unlinked>>
    /\ UNCHANGED <<bucketFile, dirs, data, litter, req, temp, scan>>

----------------------------------------------------------------------------
(***************************************************************************)
(* ListObjects: one ReadDir of .metadata, then one ReadFile per entry;     *)
(* entries that cannot be read or parsed are skipped.  What the listing    *)
(* does with the documents afterwards touches no file.                     *)
(***************************************************************************)
ListExists(p) ==
    /\ pc[p] = "ListExists"
    /\ \/ BucketExists(req[p].bucket) /\ Goto(p, "ListScan") /\ UNCHANGED got
       \/ ~BucketExists(req[p].bucket) /\ Fail(p, "NoSuchBucket")
    /\ Look /\ UNCHANGED scan

ListScan(p) ==
    /\ pc[p] = "ListScan"
    /\ scan' = [scan EXCEPT ![p] =
                   {a \in ObjectsOf(req[p].bucket) : meta[a] # None}]
    /\ Goto(p, "ListRead")
    /\ Look /\ UNCHANGED got

\* The listing ends at an entry that cannot be parsed (a mutant).
ListRead_GivesUp(p) ==
    /\ pc[p] = "ListRead"
    /\ \/ \E a \in scan[p] :
             /\ meta[a] \in Documents
             /\ scan' = [scan EXCEPT ![p] = @ \ {a}]
             /\ got' = [got EXCEPT ![p].listed = @ \cup {a}]
             /\ UNCHANGED pc
       \/ /\ scan[p] = {} \/ \E a \in scan[p] : meta[a] \notin Documents
          /\ Succeed(p) /\ UNCHANGED scan
    /\ Look

ListRead(p) ==
    /\ pc[p] = "ListRead"
    /\ \/ \E a \in scan[p] :
             /\ scan' = [scan EXCEPT ![p] = @ \ {a}]
             /\ got' = [got EXCEPT ![p].listed =
                           IF meta[a] \in Documents THEN @ \cup {a} ELSE @]
             /\ UNCHANGED pc
       \/ scan[p] = {} /\ Succeed(p) /\ UNCHANGED scan
    /\ Look

ObjectStep(p) ==
    \/ GetExists(p) \/ GetMeta(p) \/ GetOpen(p)
    \/ PutExists(p) \/ PutMkdir(p) \/ PutTemp(p) \/ PutCopy(p) \/ PutRename(p)
    \/ MetaMkdir(p) \/ MetaOpen(p) \/ MetaWrite(p) \/ CopyMeta(p)
    \/ HeadExists(p) \/ HeadMeta(p)
    \/ ManyExists(p) \/ DelExists(p) \/ DelData(p) \/ DelMeta(p)
    \/ ListExists(p) \/ ListScan(p) \/ ListRead(p)

=============================================================================
