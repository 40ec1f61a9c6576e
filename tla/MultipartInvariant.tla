------------------------- MODULE MultipartInvariant -------------------------
(***************************************************************************)
(* The inductive invariant behind PartsHold and UploadListingsAreExact.    *)
(*                                                                         *)
(* PartsHold says nothing of items that a request is about to write and    *)
(* nothing of what their requests have in hand.  The invariant follows an  *)
(* upload request through its calls: what it is at a call (RequestsOK),    *)
(* whose items it may write (CalmExclusive), what it has written so far    *)
(* (HalfWritten, NewUploads), and what it has read (ListedSoFar).          *)
(***************************************************************************)
EXTENDS Multipart

PartOps == {"UploadPart", "UploadPartCopy"}
PartCalls == {"PartNumber", "UploadExists", "UploadRead", "PartTemp", "PartCopy",
              "PartRename", "DocOpen", "DocWrite"}
CreateUploadCalls == {"UploadBucket", "UploadMkdir", "DocOpen", "DocWrite"}
CombineCalls == {"CombinedTemp", "CombineMeta", "CombineData", "CombinedOpen",
                 "CompleteExists", "CompleteMeta"}
SweepCalls == {"DeleteStat", "DeleteScan", "RemoveList", "RemoveFiles", "RmdirObjects",
               "RmdirMetadata", "RmdirUploads", "RegistryUnlink", "RegistryRmdir"}
ObjectGets == {"GetExists", "GetMeta", "GetOpen"}
ObjectPuts == {"PutExists", "PutMkdir", "PutTemp", "PutCopy", "PutRename",
               "MetaMkdir", "MetaOpen", "MetaWrite"}

\* A multipart request is at one of its own calls, or where it borrows from
\* the object requests; DeleteBucket alone is at the calls that sweep.
UploadControlAt(op, call) ==
    /\ call \in SweepCalls => op = "DeleteBucket"
    /\ op \in UploadOps /\ call \in Labels =>
          \/ call = "done"
          \/ op = "UploadPartCopy" /\ call \in ObjectGets
          \/ op = "Complete" /\ call \in ObjectPuts
    /\ call \in {"UploadBucket", "UploadMkdir"} => op = "CreateUpload"
    /\ call \in {"PartNumber", "PartTemp", "PartCopy", "PartRename"} => op \in PartOps
    /\ call \in {"DocOpen", "DocWrite"} => op \in PartOps \cup {"CreateUpload"}
    /\ call \in {"UploadExists", "UploadRead"}
           => op \in PartOps \cup {"Complete", "Abort", "ListParts"}
    /\ call \in CombineCalls => op = "Complete"
    /\ call \in {"RemoveNames", "RemoveEntries"} => op \in {"Complete", "Abort"}
    /\ call \in {"PartsScan", "PartsRead"} => op = "ListParts"
    /\ call \in {"UploadsExists", "UploadsScan", "UploadsRead"} => op = "ListUploads"

\* The variables are functions on what they are about.
Tables ==
    /\ pc \in [Workers -> Labels \cup UploadLabels]
    /\ DOMAIN req = Workers /\ DOMAIN got = Workers /\ DOMAIN scan = Workers
    /\ DOMAIN unlinked = Workers /\ DOMAIN chunk = Workers /\ DOMAIN job = Workers
    /\ \A p \in Workers : DOMAIN got[p] = DOMAIN Nothing
    /\ folders \subseteq Paths
    /\ DOMAIN doc = Items /\ DOMAIN kept = Items /\ DOMAIN partData = Parts
    /\ unsure \subseteq Items
    /\ calm \in [Workers -> SUBSET Items]

\* The upload a request is about, and what it must have in hand.
RequestOK(p) ==
    /\ UploadControlAt(req[p].op, pc[p])
    /\ req[p].op \in JobOps =>
          "path" \in DOMAIN job[p] /\ Path(p) \in Paths /\ Dst(p) \in Objects
    /\ req[p].op \in {"DeleteBucket", "ListUploads"} => req[p].bucket \in Buckets
    /\ req[p].op = "CreateUpload" /\ Active(p) => got[p].attrs \in Uploads
    /\ req[p].op \in PartOps =>
          /\ pc[p] \in PartCalls => got[p].body # None
          /\ pc[p] \in PartCalls \ {"PartNumber"} => job[p].part \in 1..PartCount
    /\ pc[p] = "PartRename" => chunk[p] \in {None, got[p].body}

\* A temp file is in the hands of a request that made it, in a directory that
\* exists; RemoveAll goes through the names of its own directory.
FilesOK(p) ==
    /\ chunk[p] # None =>
          /\ \/ pc[p] \in {"PartCopy", "PartRename"}
             \/ req[p].op = "Complete" /\ Active(p)
          /\ Path(p) \in folders
    /\ pc[p] = "RemoveEntries" =>
          \A name \in scan[p] : name[1] \in {"json", "data"} => name[2] \in ItemsOf(Path(p))
    /\ pc[p] = "DocWrite" /\ ~unlinked[p] => doc[Item(p)] # None

\* Whatever is in an upload directory is in one that exists.
InFolders ==
    \A d \in Paths : \A x \in ItemsOf(d) :
        doc[x] # None \/ (x \in Parts /\ partData[x] # None) => d \in folders

\* Nobody else rewrites what is calm for a worker.
CalmExclusive ==
    \A p, q \in Workers :
        p # q /\ Active(q) => calm[p] \cap Rewrites(req[q], job[q]) = {}

\* What a worker has written so far, while nobody disturbed it.
HalfWritten(p) ==
    pc[p] \in {"DocOpen", "DocWrite"} /\ Item(p) \in calm[p] =>
        /\ req[p].op \in PartOps => partData[Item(p)] = got[p].body
        /\ pc[p] = "DocWrite" => doc[Item(p)] = Empty /\ ~unlinked[p]

\* A new upload has no files but the one its request is writing.
NewUpload(p) ==
    pc[p] \in CreateUploadCalls /\ req[p].op = "CreateUpload" =>
        \A x \in ItemsOf(Path(p)) \cap calm[p] :
            /\ x \in Parts => partData[x] = None
            /\ x # Path(p) \/ pc[p] # "DocWrite" => doc[x] = None

\* A listing under way: an item that is still to be read is not listed, one
\* that is not shows what was left there.
ShownSoFar(p, S) ==
    \A x \in S : x \in calm[p] \ unsure =>
        {e \in got[p].listed : e[1] = x}
            = IF x \in scan[p] \/ kept[x] = None THEN {} ELSE {<<x, kept[x]>>}

ListedSoFar(p) ==
    /\ req[p].op \in {"ListParts", "ListUploads"}
       /\ pc[p] \notin {"PartsRead", "UploadsRead", "done"} => got[p].listed = {}
    /\ pc[p] = "PartsRead" => ShownSoFar(p, ItemsOf(Path(p)) \cap Parts)
    /\ pc[p] = "UploadsRead" => ShownSoFar(p, {req[p].bucket} \X UploadIDs)

\* UploadListingsAreExact, of one worker.
ListedExactly(p) ==
    /\ Answered(p, "ListParts", "OK") =>
           \A x \in ItemsOf(Path(p)) \cap Parts : x \in calm[p] \ unsure =>
               {e \in got[p].listed : e[1] = x}
                   = IF kept[x] = None THEN {} ELSE {<<x, kept[x]>>}
    /\ Answered(p, "ListUploads", "OK") =>
           \A d \in {req[p].bucket} \X UploadIDs : d \in calm[p] \ unsure =>
               {e \in got[p].listed : e[1] = d}
                   = IF kept[d] = None THEN {} ELSE {<<d, kept[d]>>}

WorkerOK(p) ==
    IF pc[p] = "idle" THEN chunk[p] = None
    ELSE /\ RequestOK(p) /\ FilesOK(p) /\ HalfWritten(p) /\ NewUpload(p)
         /\ ListedSoFar(p) /\ ListedExactly(p)

\* Items p is between two writes of.
Midway(p) ==
    CASE pc[p] \in {"DocOpen", "DocWrite"} -> {Item(p)}
      [] pc[p] = "RemoveEntries" -> ItemsOf(Path(p))
      [] OTHER -> {}

ItemSettled(x) == doc[x] = kept[x] /\ (x \in Parts => partData[x] = kept[x])

PartsSettled ==
    \A x \in Items \ unsure : (\A p \in Workers : x \notin Midway(p)) => ItemSettled(x)

\* An upload that is kept is a session.
SessionsKept == \A d \in Paths : kept[d] \in Sessions \cup {None}

PartsInv ==
    /\ Tables /\ InFolders /\ CalmExclusive /\ PartsSettled /\ SessionsKept
    /\ \A p \in Workers : WorkerOK(p)

=============================================================================
