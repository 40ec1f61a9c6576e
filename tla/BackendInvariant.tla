-------------------------- MODULE BackendInvariant --------------------------
(***************************************************************************)
(* The inductive invariant behind TypeOK and AckedStateHolds.  It is kept  *)
(* by the multipart requests of Multipart as well, whose calls it knows.   *)
(*                                                                         *)
(* AckedStateHolds says nothing of a resource in flux, so it is not        *)
(* inductive: when the last write of a request settles x, what its earlier *)
(* calls left must still be there.  The invariant therefore follows a      *)
(* request through its calls, for as long as nothing disturbs it.          *)
(***************************************************************************)
EXTENDS Backend

GetCalls == {"GetExists", "GetMeta", "GetOpen"}
PutCalls == {"PutExists", "PutMkdir", "PutTemp", "PutCopy", "PutRename",
             "MetaMkdir", "MetaOpen", "MetaWrite"}
HeadCalls == {"HeadExists", "HeadMeta"}
DelCalls == {"DelExists", "DelData", "DelMeta"}
ListCalls == {"ListExists", "ListScan", "ListRead"}
CreateCalls == {"CreateStat", "CreateDir", "CreateRegistry", "CreateOpen",
                "CreateWrite"}
RemoveCalls == {"RemoveList", "RemoveFiles", "RmdirObjects", "RmdirMetadata",
                "RmdirUploads"}
DeleteCalls == RemoveCalls \cup
               {"DeleteStat", "DeleteScan", "RegistryUnlink", "RegistryRmdir"}

\* What a worker serves is a request, and it has an answer in the making.
\* What listings of uploads hold is not looked at here.
AllLabels == Labels \cup UploadLabels
IsAnswer(g) == g \in AnswersWith({g.listed})
ScanOK(op, names) == op \in Ops => names \subseteq Entries(op)

ServersOK ==
    /\ pc \in [Workers -> AllLabels]
    /\ req = [p \in Workers |-> req[p]]
    /\ \A p \in Workers : IF pc[p] = "idle" THEN req[p] = None ELSE IsRequest(req[p])
    /\ got = [p \in Workers |-> got[p]]
    /\ \A p \in Workers : IsAnswer(got[p])
    /\ temp \in [Workers -> Bodies \cup {None, Garbled}]
    /\ todo \in [Workers -> Seq(Objects)]
    /\ DOMAIN scan = Workers
    /\ \A p \in Workers :
           IF pc[p] = "idle" THEN scan[p] = {} ELSE ScanOK(req[p].op, scan[p])
    /\ unlinked \in [Workers -> BOOLEAN]

TypesOK == DiskTypeOK /\ ServersOK /\ HistoryTypeOK

\* A worker is at a call of the request it serves.
ControlAt(op, call) ==
    /\ call \in GetCalls => op \in {"Get", "Copy", "Rename", "UploadPartCopy"}
    /\ call \in PutCalls => op \in Writers \cup {"Complete"}
    /\ call \in HeadCalls => op \in {"Head", "Put"}
    /\ call = "CopyMeta" => op \in {"Copy", "Rename"}
    /\ call = "ManyExists" => op = "DeleteObjects"
    /\ call \in DelCalls => op \in Deleters \cup {"Rename"}
    /\ call \in ListCalls => op = "ListObjects"
    /\ call \in CreateCalls => op = "CreateBucket"
    /\ call \in DeleteCalls => op = "DeleteBucket"
    /\ call \in {"HeadBucketStat", "LocationRead"} =>
           op \in {"HeadBucket", "GetBucketLocation"}
    /\ call \in {"BucketsScan", "BucketsRead"} => op = "ListBuckets"
    /\ call \in UploadLabels \ {"RmdirUploads"} => op \in UploadOps

ControlOK == \A p \in Workers : ControlAt(req[p].op, pc[p])

\* What is left to delete is among what the request named, and there is
\* something left when DeleteObject runs.
TodoOK ==
    \A p \in Workers :
        /\ pc[p] # "idle" => todo[p] \in Seq(Range(req[p].dels))
        /\ Active(p) /\ req[p].op \in {"Rename", "Delete"} => todo[p] # <<>>
        /\ pc[p] \in DelCalls => todo[p] # <<>>

\* What a handler must have in hand at a call: PutObject a whole body and
\* the headers, GetObject the headers once it has read the document.
InHand(call, answer) ==
    /\ call \in PutCalls => answer.body \in Bodies
    /\ call \in PutCalls \cup {"GetOpen"} => answer.attrs \in Uploads

\* The temp file of PutObject holds the body when it is renamed, and no data
\* file holds anything but a whole body.
BodiesOK ==
    /\ \A a \in Objects : data[a] # Garbled
    /\ \A p \in Workers :
           /\ InHand(pc[p], got[p])
           /\ pc[p] = "PutRename" => temp[p] \in {None, got[p].body}
           /\ pc[p] \notin {"PutCopy", "PutRename"} => temp[p] = None

\* Nobody else mutates what is quiet for a worker.
Exclusive ==
    \A p, q \in Workers :
        p # q /\ Active(q) => quiet[p] \cap Mutates(req[q]) = {}

\* Two requests can only be in the middle of the same resource if it is dirty.
FluxUnique ==
    \A p, q \in Workers :
        p # q => Flux(p) \cap Flux(q) \subseteq dirty

\* What p has left of x so far, while nobody disturbed it.
Halfway(p, x) ==
    /\ pc[p] \in {"MetaMkdir", "MetaOpen", "MetaWrite"} => data[x] = got[p].body
    /\ pc[p] = "MetaWrite" => meta[x] = Empty /\ ~unlinked[p]
    /\ pc[p] = "DelMeta" => data[x] = None
    /\ pc[p] = "CreateWrite" =>
           bucketFile[x] = Empty /\ ~unlinked[p] /\ "bucket" \in dirs[x]

FluxShape ==
    \A p \in Workers : \A x \in Flux(p) :
        x \in quiet[p] \/ x \notin dirty => Halfway(p, x)

\* Before the first write: the bucket is still empty, the directory is there.
QuietShape ==
    \A p \in Workers :
        /\ pc[p] \in RemoveCalls =>
               \A a \in ObjectsOf(req[p].bucket) \cap quiet[p] : data[a] = None
        /\ pc[p] \in {"CreateRegistry", "CreateOpen"} /\ req[p].bucket \in quiet[p]
               => "bucket" \in dirs[req[p].bucket]

TypeInv == TypesOK /\ ControlOK /\ TodoOK /\ BodiesOK
DiskInv == FluxUnique /\ FluxShape /\ QuietShape /\ AckedStateHolds

IInv == TypeInv /\ Exclusive /\ DiskInv

=============================================================================
