-------------------------- MODULE MultipartProofs --------------------------
(***************************************************************************)
(* PartsHold and UploadListingsAreExact hold of every instance of          *)
(* Multipart.                                                              *)
(*                                                                         *)
(* A step of a worker p changes files, and what is kept of them, only in   *)
(* Mine(p), the items its request may rewrite.  So the other workers, none *)
(* of whose calm items is in Mine(p), keep what the invariant says of them *)
(* (StillThereOK), and of the whole only the items of Mine(p) are in       *)
(* question (ApartKeeps).  What remains is one lemma per call.             *)
(***************************************************************************)
EXTENDS MultipartInvariant, TLAPS

Mine(p) == Rewrites(req[p], job[p])

\* Nothing outside S changes.
Outside(S) ==
    \A x \in Items \ S :
        /\ doc'[x] = doc[x] /\ kept'[x] = kept[x]
        /\ x \in Parts => partData'[x] = partData[x]
        /\ x \in unsure' <=> x \in unsure

\* Worker q makes no step; another one changes items of S.
StillThere(q, S) ==
    /\ pc'[q] = pc[q] /\ req'[q] = req[q] /\ got'[q] = got[q] /\ job'[q] = job[q]
    /\ calm'[q] \subseteq calm[q] /\ calm[q] \cap S = {}
    /\ chunk'[q] \in {None, chunk[q]}
    /\ pc[q] # "RemoveEntries" => scan'[q] = scan[q]
    /\ pc[q] = "DocWrite" => Item(q) \in S \/ (unlinked'[q] <=> unlinked[q])

----------------------------------------------------------------------------
\* The files of an upload are among the items, those of a bucket's uploads too.
LEMMA ItemFacts ==
    /\ \A d \in Paths :
          /\ d \in ItemsOf(d) /\ d \notin Parts /\ ItemsOf(d) \subseteq Items
          /\ \A x \in ItemsOf(d) : x = d \/ x \in Parts
          /\ \A n \in 1..PartCount : <<d, n>> \in ItemsOf(d) \cap Parts
    /\ \A x \in Items : \E d \in Paths : x \in ItemsOf(d)
    /\ \A x \in Parts : x \in Items /\ x \notin Paths
BY UploadNamesAssumption DEF Paths, Parts, Items, ItemsOf

\* The uploads of a bucket.
LEMMA ItemsInFacts ==
    ASSUME NEW b \in Buckets
    PROVE  /\ ItemsIn(b) \subseteq Items
           /\ \A d \in {b} \X UploadIDs : d \in Paths /\ ItemsOf(d) \subseteq ItemsIn(b)
           /\ \A x \in ItemsIn(b) : \E d \in {b} \X UploadIDs : x \in ItemsOf(d)
<1>1. \A d \in {b} \X UploadIDs : d \in Paths
  BY DEF Paths
<1>. QED
  BY <1>1, ItemFacts DEF ItemsIn

\* Where a worker is between two writes, it is of items of its own.
LEMMA MidwayIsMine ==
    ASSUME NEW p \in Workers, pc[p] # "idle", RequestOK(p)
    PROVE  /\ Midway(p) \subseteq Mine(p)
           /\ pc[p] \in {"DocOpen", "DocWrite"} => Item(p) \in Items
           /\ pc[p] \in {"DocOpen", "DocWrite"} /\ req[p].op # "CreateUpload" =>
                 Item(p) \in Parts /\ Mine(p) = {Item(p)}
           /\ pc[p] \in {"DocOpen", "DocWrite"} /\ req[p].op = "CreateUpload" =>
                 Item(p) = Path(p) /\ Mine(p) = ItemsOf(Path(p))
           /\ pc[p] = "RemoveEntries" => Mine(p) = ItemsOf(Path(p))
<1> USE DEF RequestOK, UploadControlAt
<1>1. CASE pc[p] \in {"DocOpen", "DocWrite"}
  <2>1. req[p].op \in {"CreateUpload", "UploadPart", "UploadPartCopy"} /\ Path(p) \in Paths
    BY <1>1 DEF PartOps, JobOps
  <2>2. CASE req[p].op = "CreateUpload"
    BY <1>1, <2>1, <2>2, ItemFacts DEF Midway, Mine, Item, Rewrites, Path
  <2>3. CASE req[p].op # "CreateUpload"
    <3>1. job[p].part \in 1..PartCount
      BY <1>1, <2>1, <2>3 DEF PartOps, PartCalls
    <3>2. Item(p) = <<Path(p), job[p].part>>
      BY <2>3 DEF Item
    <3>. QED
      BY <1>1, <2>1, <2>3, <3>1, <3>2, ItemFacts DEF Midway, Mine, Rewrites, Path
  <2>. QED
    BY <2>2, <2>3
<1>2. CASE pc[p] = "RemoveEntries"
  BY <1>2 DEF Midway, Mine, Rewrites, Path
<1>3. CASE pc[p] \notin {"DocOpen", "DocWrite", "RemoveEntries"}
  BY <1>3 DEF Midway
<1>. QED
  BY <1>1, <1>2, <1>3

----------------------------------------------------------------------------
\* What holds of a worker goes on holding while others change no item that is
\* calm for it.
LEMMA StillThereOK ==
    ASSUME Tables, NEW q \in Workers, NEW S, WorkerOK(q), StillThere(q, S), Outside(S),
           pc[q] # "idle" => FilesOK(q)'
    PROVE  WorkerOK(q)'
<1> USE DEF StillThere
<1>1. CASE pc[q] = "idle"
  BY <1>1 DEF WorkerOK
<1>2. CASE pc[q] # "idle"
  <2>1. RequestOK(q) /\ HalfWritten(q) /\ NewUpload(q) /\ ListedSoFar(q) /\ ListedExactly(q)
    BY <1>2 DEF WorkerOK
  <2>2. calm[q] \subseteq Items /\ Path(q)' = Path(q) /\ Item(q)' = Item(q)
    BY DEF Tables, Path, Item
  <2>3. RequestOK(q)'
    BY <2>1, <2>2 DEF RequestOK, Active, Dst
  <2>4. HalfWritten(q)'
    BY <1>2, <2>1, <2>2, MidwayIsMine DEF HalfWritten, Outside, PartOps
  <2>5. NewUpload(q)'
    BY <2>1, <2>2 DEF NewUpload, Outside
  <2>6. ListedSoFar(q)'
    <3>1. ASSUME NEW T, ShownSoFar(q, T), scan'[q] = scan[q]
          PROVE  ShownSoFar(q, T)'
      BY <2>2, <3>1 DEF ShownSoFar, Outside
    <3>. QED
      BY <2>1, <2>2, <3>1 DEF ListedSoFar
  <2>7. ListedExactly(q)'
    BY <2>1, <2>2 DEF ListedExactly, Outside, Answered
  <2>. QED
    BY <1>2, <2>3, <2>4, <2>5, <2>6, <2>7 DEF WorkerOK
<1>. QED
  BY <1>1, <1>2

\* A step of p, as the others see it.
Apart(p) ==
    /\ Active(p) /\ Tables' /\ calm' = calm /\ req' = req
    /\ Mine(p)' = Mine(p)
    /\ Outside(Mine(p))
    /\ \A q \in Workers \ {p} :
           /\ pc'[q] = pc[q] /\ got'[q] = got[q] /\ job'[q] = job[q]
           /\ chunk'[q] \in {None, chunk[q]}
           /\ pc[q] # "RemoveEntries" => scan'[q] = scan[q]
           /\ pc[q] = "DocWrite" => Item(q) \in Mine(p) \/ (unlinked'[q] <=> unlinked[q])
           /\ pc[q] # "idle" => FilesOK(q)'

OwnSettled(p) ==
    \A x \in Items \cap Mine(p) :
        x \notin unsure' /\ (\A q \in Workers : x \notin Midway(q)') => ItemSettled(x)'

\* A step of p keeps the invariant if it keeps what the invariant says of p
\* and of the items of p.
LEMMA ApartKeeps ==
    ASSUME PartsInv, NEW p \in Workers, Apart(p), WorkerOK(p)', OwnSettled(p),
           InFolders', SessionsKept'
    PROVE  PartsInv'
<1> USE DEF PartsInv, Apart
<1>1. \A q \in Workers \ {p} : StillThere(q, Mine(p))
  BY DEF StillThere, CalmExclusive, Mine
<1>2. \A q \in Workers \ {p} : WorkerOK(q)'
  BY <1>1, StillThereOK
<1>3. CalmExclusive'
  <2>1. \A q \in Workers : /\ Mine(q)' = Mine(q)
                           /\ Active(q)' => Active(q)
    BY DEF Mine, Active
  <2>. QED
    BY <2>1 DEF CalmExclusive, Mine
<1>4. PartsSettled'
  <2> SUFFICES ASSUME NEW x \in Items, x \notin unsure', \A q \in Workers : x \notin Midway(q)'
               PROVE  ItemSettled(x)'
    BY DEF PartsSettled
  <2>1. CASE x \in Mine(p)
    BY <2>1 DEF OwnSettled
  <2>2. CASE x \notin Mine(p)
    <3>1. \A q \in Workers \ {p} : Midway(q)' = Midway(q)
      BY DEF Midway, Item, Path
    <3>2. x \notin Midway(p)
      BY <2>2, MidwayIsMine DEF WorkerOK, Active
    <3>3. ItemSettled(x)
      BY <2>2, <3>1, <3>2 DEF PartsSettled, Outside
    <3>. QED
      BY <2>2, <3>3 DEF ItemSettled, Outside
  <2>. QED
    BY <2>1, <2>2
<1>. QED
  BY <1>2, <1>3, <1>4

----------------------------------------------------------------------------
\* A call of p that changes no file except, at most, a temp file.
Quiet(p) ==
    /\ Active(p) /\ Tables'
    /\ UNCHANGED <<req, folders, doc, partData, uploadHistory>>
    /\ Mine(p)' = Mine(p)
    /\ \A q \in Workers \ {p} :
           /\ pc'[q] = pc[q] /\ got'[q] = got[q] /\ job'[q] = job[q]
           /\ chunk'[q] \in {None, chunk[q]} /\ scan'[q] \subseteq scan[q]
           /\ pc[q] # "RemoveEntries" => scan'[q] = scan[q]
           /\ pc[q] = "DocWrite" => (unlinked'[q] <=> unlinked[q])

\* Such a call only has to keep what the invariant says of p.
LEMMA QuietKeeps ==
    ASSUME PartsInv, NEW p \in Workers, Quiet(p), WorkerOK(p)',
           pc[p] \notin {"DocOpen", "DocWrite", "RemoveEntries"}
    PROVE  PartsInv'
<1> USE DEF Quiet, uploadHistory
<1>1. Apart(p)
  <2>1. ASSUME NEW q \in Workers \ {p}, pc[q] # "idle" PROVE FilesOK(q)'
    <3>1. FilesOK(q) /\ Path(q)' = Path(q) /\ Item(q)' = Item(q)
      BY <2>1 DEF PartsInv, WorkerOK, Path, Item
    <3>. QED
      BY <3>1 DEF FilesOK, Active
  <2>. QED
    BY <2>1 DEF Apart, Outside
<1>2. OwnSettled(p)
  <2>1. \A q \in Workers \ {p} : Midway(q)' = Midway(q)
    BY DEF Midway, Item, Path
  <2>2. Midway(p) = {}
    BY DEF Midway
  <2>. QED
    BY <2>1, <2>2 DEF OwnSettled, PartsInv, PartsSettled, ItemSettled
<1>3. InFolders' /\ SessionsKept'
  BY DEF PartsInv, InFolders, SessionsKept
<1>. QED
  BY <1>1, <1>2, <1>3, ApartKeeps

\* Nothing more is said of a request that failed.
LEMMA FailEnds ==
    ASSUME PartsInv, NEW p \in Workers, Active(p), pc'[p] = "done",
           got'[p].code # "OK", chunk'[p] = None, req' = req, job' = job
    PROVE  WorkerOK(p)'
<1>1. RequestOK(p)
  BY DEF PartsInv, WorkerOK, Active
<1>2. RequestOK(p)'
  BY <1>1 DEF RequestOK, UploadControlAt, Path, Dst, Active, PartCalls, SweepCalls, CombineCalls
<1>3. HalfWritten(p)' /\ NewUpload(p)' /\ ListedSoFar(p)' /\ FilesOK(p)'
  BY DEF HalfWritten, NewUpload, CreateUploadCalls, ListedSoFar, FilesOK
<1>4. ListedExactly(p)'
  BY DEF ListedExactly, Answered
<1>. QED
  BY <1>2, <1>3, <1>4 DEF WorkerOK

\* The step at which an upload request fails, having written nothing.
LEMMA FailKeeps ==
    ASSUME PartsInv, NEW p \in Workers, Active(p), NEW code, code # "OK",
           FailUpload(p, code), LookUpload, job' = job,
           pc[p] \notin {"DocOpen", "DocWrite", "RemoveEntries"}
    PROVE  PartsInv'
<1> USE DEF PartsInv, Tables, FailUpload, Fail, Finish, Goto, Nothing
<1>1. pc'[p] = "done" /\ got'[p].code # "OK" /\ chunk'[p] = None
  OBVIOUS
<1>2. req' = req
  BY DEF LookUpload, Look
<1>3. Tables'
  BY DEF LookUpload, Look, uploadDisk, uploadHistory, Labels
<1>4. Quiet(p)
  BY <1>3 DEF Quiet, LookUpload, Look, uploadDisk, uploadHistory, Mine
<1>. QED
  BY <1>1, <1>2, <1>4, FailEnds, QuietKeeps

\* The step of a request that goes on to a call before its first write.
LEMMA GoesOn ==
    ASSUME PartsInv, NEW p \in Workers, Quiet(p),
           pc[p] \notin {"DocOpen", "DocWrite", "RemoveEntries"},
           pc'[p] \notin {"idle", "done", "DocOpen", "DocWrite", "RemoveEntries",
                          "PartsRead", "UploadsRead", "PartRename"},
           UploadControlAt(req[p].op, pc'[p]),
           DOMAIN job'[p] = DOMAIN job[p], job'[p].path = job[p].path,
           req[p].op = "CreateUpload" =>
               pc[p] \in CreateUploadCalls /\ got'[p].attrs = got[p].attrs,
           req[p].op \in PartOps /\ pc'[p] \in PartCalls =>
               /\ got'[p].body # None
               /\ pc'[p] # "PartNumber" => job'[p].part \in 1..PartCount,
           req[p].op \in {"ListParts", "ListUploads"} =>
               got'[p].listed = got[p].listed /\ pc[p] \notin {"PartsRead", "UploadsRead"},
           chunk'[p] # None =>
               (pc'[p] = "PartCopy" \/ req[p].op = "Complete") /\ Path(p) \in folders
    PROVE  PartsInv'
<1>1. RequestOK(p) /\ NewUpload(p) /\ ListedSoFar(p)
  BY DEF PartsInv, WorkerOK, Quiet, Active
<1>2. req' = req /\ calm' = calm /\ doc' = doc /\ partData' = partData /\ folders' = folders
  BY DEF Quiet, uploadHistory
<1>3. RequestOK(p)'
  BY <1>1, <1>2 DEF RequestOK, Path, Dst, Quiet, Active
<1>4. FilesOK(p)' /\ HalfWritten(p)' /\ ListedExactly(p)'
  BY <1>2 DEF FilesOK, HalfWritten, ListedExactly, Answered, Active, Path
<1>5. NewUpload(p)'
  BY <1>1, <1>2 DEF NewUpload, Path
<1>6. ListedSoFar(p)'
  BY <1>1, <1>2 DEF ListedSoFar, Quiet, Active
<1>7. WorkerOK(p)'
  BY <1>3, <1>4, <1>5, <1>6 DEF WorkerOK
<1>. QED
  BY <1>7, QuietKeeps

----------------------------------------------------------------------------
\* A call of p that looks at the disk and goes on to the call next.
LEMMA LookGoesOn ==
    ASSUME PartsInv, NEW p \in Workers, Active(p), NEW l \in Labels \cup UploadLabels,
           Goto(p, l), LookUpload, DOMAIN got' = Workers, DOMAIN got'[p] = DOMAIN Nothing,
           \A q \in Workers \ {p} : got'[q] = got[q] /\ job'[q] = job[q],
           chunk' = chunk, DOMAIN job' = Workers, Mine(p)' = Mine(p)
    PROVE  Quiet(p) /\ pc'[p] = l
<1> USE DEF PartsInv, Tables, Goto, LookUpload, Look, uploadDisk, uploadHistory
<1>1. Tables'
  OBVIOUS
<1>. QED
  BY <1>1 DEF Quiet

\* The bucket of a request is looked for.
LEMMA BucketKnownKeeps ==
    ASSUME PartsInv, NEW p \in Workers, NEW label, NEW next, BucketKnown(p, label, next),
           <<label, next>> \in {<<"UploadBucket", "UploadMkdir">>,
                                <<"UploadExists", "UploadRead">>,
                                <<"CompleteExists", "CompleteMeta">>,
                                <<"UploadsExists", "UploadsScan">>}
    PROVE  PartsInv'
<1> USE DEF BucketKnown
<1>1. RequestOK(p) /\ FilesOK(p) /\ Active(p)
  BY DEF PartsInv, WorkerOK, Active
<1>2. CASE FailUpload(p, "NoSuchBucket")
  BY <1>1, <1>2, FailKeeps
<1>3. CASE Goto(p, next) /\ UNCHANGED <<got, chunk>>
  <2>1. next \in Labels \cup UploadLabels
    BY DEF UploadLabels
  <2>2. Quiet(p) /\ pc'[p] = next
    <3>1. req' = req
      BY DEF LookUpload, Look
    <3>. QED
      BY <1>1, <1>3, <2>1, <3>1, LookGoesOn DEF PartsInv, Tables, Mine
  <2>3. UploadControlAt(req[p].op, next)
    BY <1>1 DEF RequestOK, UploadControlAt, SweepCalls, CombineCalls, Labels
  <2>. QED
    BY <1>1, <1>3, <2>2, <2>3, GoesOn
       DEF RequestOK, FilesOK, UploadControlAt, PartOps, PartCalls, CreateUploadCalls, CombineCalls
<1>. QED
  BY <1>2, <1>3

\* The number of the part is checked.
LEMMA PartNumberKeeps ==
    ASSUME PartsInv, NEW p \in Workers, PartNumber(p)
    PROVE  PartsInv'
<1> USE DEF PartNumber
<1>1. RequestOK(p) /\ FilesOK(p) /\ Active(p)
  BY DEF PartsInv, WorkerOK, Active
<1>2. CASE FailUpload(p, "InvalidPart")
  BY <1>1, <1>2, FailKeeps
<1>3. CASE validPartNumber(job[p].part) /\ Goto(p, "UploadExists") /\ UNCHANGED <<got, chunk>>
  <2>1. Quiet(p) /\ pc'[p] = "UploadExists"
    <3>1. req' = req
      BY DEF LookUpload, Look
    <3>. QED
      BY <1>1, <1>3, <3>1, LookGoesOn DEF PartsInv, Tables, Mine, UploadLabels
  <2>2. UploadControlAt(req[p].op, "UploadExists") /\ req[p].op \in PartOps
    BY <1>1 DEF RequestOK, UploadControlAt, SweepCalls, CombineCalls, Labels
  <2>. QED
    BY <1>1, <1>3, <2>1, <2>2, GoesOn
       DEF RequestOK, FilesOK, PartOps, PartCalls, validPartNumber
<1>. QED
  BY <1>2, <1>3

\* upload.json is read.
LEMMA UploadReadKeeps ==
    ASSUME PartsInv, NEW p \in Workers, UploadRead(p)
    PROVE  PartsInv'
<1> USE DEF UploadRead
<1> DEFINE state == doc[Path(p)]
           l == AfterRead[req[p].op]
<1>1. RequestOK(p) /\ FilesOK(p) /\ ListedSoFar(p) /\ Active(p)
  BY DEF PartsInv, WorkerOK, Active
<1>2. CASE \E c \in {"NoSuchUpload", "InternalError"} : FailUpload(p, c)
  BY <1>1, <1>2, FailKeeps
<1>3. CASE Goto(p, l) /\ got' = [got EXCEPT ![p].attrs = state.attrs] /\ UNCHANGED chunk
  <2>1. req[p].op \in {"UploadPart", "UploadPartCopy", "Complete", "Abort", "ListParts"}
    BY <1>1 DEF RequestOK, UploadControlAt, PartOps
  <2>2. l = CASE req[p].op \in PartOps -> "PartTemp"
              [] req[p].op = "Complete" -> "CombinedTemp"
              [] req[p].op = "Abort" -> "RemoveNames"
              [] req[p].op = "ListParts" -> "PartsScan"
    BY <2>1 DEF AfterRead, PartOps
  <2>3. UploadControlAt(req[p].op, l) /\ l \in UploadLabels
    BY <2>1, <2>2
       DEF UploadControlAt, SweepCalls, CombineCalls, UploadLabels, Labels, PartOps
  <2>4. /\ DOMAIN got' = Workers /\ DOMAIN got'[p] = DOMAIN Nothing
        /\ \A q \in Workers \ {p} : got'[q] = got[q]
        /\ got'[p].body = got[p].body /\ got'[p].listed = got[p].listed
    BY <1>3 DEF PartsInv, Tables, Nothing
  <2>5. Quiet(p) /\ pc'[p] = l
    <3>1. req' = req
      BY DEF LookUpload, Look
    <3>. QED
      BY <1>1, <1>3, <2>3, <2>4, <3>1, LookGoesOn DEF PartsInv, Tables, Mine
  <2>6. chunk'[p] # None => req[p].op = "Complete" /\ Path(p) \in folders
    BY <1>1, <1>3 DEF FilesOK
  <2>. QED
    BY <1>1, <1>3, <2>1, <2>2, <2>3, <2>4, <2>5, <2>6, GoesOn
       DEF RequestOK, PartOps, PartCalls
<1>. QED
  BY <1>2, <1>3

\* A temp file is made in the directory of the upload, if it is still there.
LEMMA CreateTempKeeps ==
    ASSUME PartsInv, NEW p \in Workers, NEW next, CreateTemp(p, next),
           \/ pc[p] = "PartTemp" /\ next = "PartCopy"
           \/ pc[p] = "CombinedTemp" /\ next = "CombineMeta"
    PROVE  PartsInv'
<1> USE DEF CreateTemp, Elsewhere
<1>1. RequestOK(p) /\ Active(p) /\ req' = req
  BY DEF PartsInv, WorkerOK, Active
<1>2. ASSUME Tables' PROVE Quiet(p)
  BY <1>1, <1>2 DEF Quiet, uploadDisk, uploadHistory, PartsInv, Tables, FailUpload, Fail,
     Finish, Goto, Mine
<1>3. CASE Path(p) \notin folders
  <2>1. FailUpload(p, "InternalError") /\ UNCHANGED scan
    BY <1>3
  <2>2. Tables'
    BY <2>1 DEF PartsInv, Tables, FailUpload, Fail, Finish, Goto, Nothing, Labels,
       uploadDisk, uploadHistory
  <2>3. pc'[p] = "done" /\ got'[p].code # "OK" /\ chunk'[p] = None
    BY <2>1 DEF PartsInv, Tables, FailUpload, Fail, Finish, Goto, Nothing
  <2>4. WorkerOK(p)'
    BY <1>1, <2>3, FailEnds
  <2>. QED
    BY <1>2, <2>2, <2>4, QuietKeeps
<1>4. CASE Path(p) \in folders
  <2>1. Goto(p, next) /\ UNCHANGED got /\ chunk' = [chunk EXCEPT ![p] = Garbled]
    BY <1>4
  <2>2. Tables'
    BY <1>4, <2>1 DEF PartsInv, Tables, Goto, UploadLabels, uploadDisk, uploadHistory
  <2>3. pc'[p] = next
    BY <2>1 DEF PartsInv, Tables, Goto
  <2>4. UploadControlAt(req[p].op, next)
    BY <1>1 DEF RequestOK, UploadControlAt, SweepCalls, CombineCalls, Labels
  <2>5. IF next = "PartCopy" THEN req[p].op \in PartOps ELSE req[p].op = "Complete"
    BY <1>1 DEF RequestOK, UploadControlAt, CombineCalls
  <2>6. req[p].op \in PartOps => got[p].body # None /\ job[p].part \in 1..PartCount
    BY <1>1 DEF RequestOK, UploadControlAt, PartCalls, PartOps, CombineCalls
  <2>. QED
    BY <1>1, <1>2, <1>4, <2>1, <2>2, <2>3, <2>4, <2>5, <2>6, GoesOn DEF PartOps, UploadControlAt
<1>. QED
  BY <1>3, <1>4

\* The body of a part is copied to the temp file.
LEMMA PartCopyKeeps ==
    ASSUME PartsInv, NEW p \in Workers, PartCopy(p)
    PROVE  PartsInv'
<1> USE DEF PartCopy
<1>1. RequestOK(p) /\ FilesOK(p) /\ Active(p)
  BY DEF PartsInv, WorkerOK, Active
<1>2. CASE FailUpload(p, "InternalError")
  BY <1>1, <1>2, FailKeeps
<1>3. CASE /\ chunk' = [chunk EXCEPT ![p] = IF @ = None THEN None ELSE got[p].body]
           /\ Goto(p, "PartRename")
           /\ UNCHANGED got
  <2>1. req' = req /\ pc'[p] = "PartRename"
    BY <1>3 DEF LookUpload, Look, Goto, PartsInv, Tables
  <2>2. Tables'
    BY <1>3 DEF PartsInv, Tables, LookUpload, Look, Goto, UploadLabels, uploadDisk, uploadHistory
  <2>3. Quiet(p)
    BY <1>1, <1>3, <2>1, <2>2 DEF PartsInv, Tables, LookUpload, Look, Goto, uploadDisk,
       uploadHistory, Quiet, Mine
  <2>4. chunk'[p] \in {None, got[p].body} /\ (chunk'[p] # None => chunk[p] # None)
    BY <1>3 DEF PartsInv, Tables
  <2>5. req[p].op \in PartOps
    BY <1>1 DEF RequestOK, UploadControlAt
  <2>6. RequestOK(p)'
    BY <1>1, <1>3, <2>1, <2>4, <2>5
       DEF RequestOK, UploadControlAt, Path, Dst, PartCalls, PartOps, JobOps, SweepCalls,
           CombineCalls, Labels
  <2>7. FilesOK(p)' /\ HalfWritten(p)' /\ NewUpload(p)' /\ ListedSoFar(p)' /\ ListedExactly(p)'
    BY <1>1, <1>3, <2>1, <2>3, <2>4, <2>5
       DEF FilesOK, HalfWritten, NewUpload, ListedSoFar, ListedExactly, Answered, Path, Quiet,
           CreateUploadCalls, PartOps
  <2>8. WorkerOK(p)'
    BY <2>1, <2>6, <2>7 DEF WorkerOK
  <2>. QED
    BY <2>3, <2>8, QuietKeeps
<1>. QED
  BY <1>2, <1>3

\* No part is selected, or a temp file is made for the parts.
LEMMA CombinedTempKeeps ==
    ASSUME PartsInv, NEW p \in Workers, CombinedTemp(p)
    PROVE  PartsInv'
<1>1. Active(p)
  BY DEF CombinedTemp, Active
<1>. QED
  BY <1>1, FailKeeps, CreateTempKeeps DEF CombinedTemp

\* CompleteMultipartUpload looks at a selected part, at the temp file and at
\* the object it has put, and goes on.
LEMMA CompleteGoesOn ==
    ASSUME PartsInv, NEW p \in Workers, Active(p), req[p].op = "Complete", LookUpload,
           NEW l \in {"CombineMeta", "CombineData", "CombinedOpen", "PutExists", "MetaMkdir"},
           Goto(p, l), chunk' = chunk,
           DOMAIN got' = Workers, DOMAIN got'[p] = DOMAIN Nothing, DOMAIN job' = Workers,
           DOMAIN job'[p] = DOMAIN job[p], job'[p].path = job[p].path,
           \A q \in Workers \ {p} : got'[q] = got[q] /\ job'[q] = job[q],
           pc[p] \notin {"DocOpen", "DocWrite", "RemoveEntries"}
    PROVE  PartsInv'
<1>1. RequestOK(p) /\ FilesOK(p)
  BY DEF PartsInv, WorkerOK, Active
<1>2. req' = req
  BY DEF LookUpload, Look
<1>3. Quiet(p) /\ pc'[p] = l
  <2>1. Mine(p)' = Mine(p)
    BY <1>2 DEF Mine, Rewrites
  <2>. QED
    BY <2>1, LookGoesOn DEF PartsInv, Tables, Labels, UploadLabels
<1>4. UploadControlAt(req[p].op, l)
  BY DEF UploadControlAt, ObjectPuts, CombineCalls, SweepCalls, Labels, UploadOps, JobOps
<1>5. chunk'[p] # None => req[p].op = "Complete" /\ Path(p) \in folders
  BY <1>1 DEF FilesOK
<1>. QED
  BY <1>2, <1>3, <1>4, <1>5, GoesOn DEF PartOps

\* A selected part is looked up.
LEMMA CombineMetaKeeps ==
    ASSUME PartsInv, NEW p \in Workers, CombineMeta(p)
    PROVE  PartsInv'
<1> USE DEF CombineMeta
<1>1. RequestOK(p) /\ Active(p) /\ req[p].op = "Complete"
  BY DEF PartsInv, WorkerOK, Active, RequestOK, UploadControlAt, CombineCalls
<1>2. CASE FailUpload(p, "InvalidPart") /\ UNCHANGED job
  BY <1>1, <1>2, FailKeeps
<1>3. CASE ~(FailUpload(p, "InvalidPart") /\ UNCHANGED job)
  <2>1. PICK k \in DOMAIN job[p].sel :
            /\ job' = [job EXCEPT ![p].part = job[p].sel[k].part, ![p].left = @ \ {k},
                                  ![p].etags = Join(@, job[p].sel[k].etag)]
            /\ Goto(p, "CombineData") /\ UNCHANGED <<got, chunk>>
    BY <1>3
  <2>2. DOMAIN job' = Workers /\ DOMAIN job'[p] = DOMAIN job[p]
        /\ \A q \in Workers \ {p} : job'[q] = job[q]
    BY <2>1 DEF PartsInv, Tables
  <2>3. job'[p].path = job[p].path
    BY <1>1, <2>1 DEF RequestOK, JobOps, PartsInv, Tables
  <2>. QED
    BY <1>1, <2>1, <2>2, <2>3, CompleteGoesOn DEF PartsInv, Tables
<1>. QED
  BY <1>2, <1>3

\* The data of a selected part is read.
LEMMA CombineDataKeeps ==
    ASSUME PartsInv, NEW p \in Workers, CombineData(p)
    PROVE  PartsInv'
<1> USE DEF CombineData
<1> DEFINE l == IF job[p].left = {} THEN "CombinedOpen" ELSE "CombineMeta"
           body == Join(got[p].body, partData[Item(p)])
<1>1. Active(p) /\ req[p].op = "Complete"
  BY DEF PartsInv, WorkerOK, Active, RequestOK, UploadControlAt, CombineCalls
<1>2. CASE \E c \in {"InvalidPart", "InternalError"} : FailUpload(p, c)
  BY <1>1, <1>2, FailKeeps
<1>3. CASE got' = [got EXCEPT ![p].body = body] /\ Goto(p, l) /\ UNCHANGED chunk
  <2>1. DOMAIN got' = Workers /\ DOMAIN got'[p] = DOMAIN Nothing
        /\ \A q \in Workers \ {p} : got'[q] = got[q]
    BY <1>3 DEF PartsInv, Tables
  <2>. QED
    BY <1>1, <1>3, <2>1, CompleteGoesOn DEF PartsInv, Tables
<1>. QED
  BY <1>2, <1>3

\* The combined file is opened for PutObject.
LEMMA CombinedOpenKeeps ==
    ASSUME PartsInv, NEW p \in Workers, CombinedOpen(p)
    PROVE  PartsInv'
<1> USE DEF CombinedOpen
<1>1. Active(p) /\ req[p].op = "Complete"
  BY DEF PartsInv, WorkerOK, Active, RequestOK, UploadControlAt, CombineCalls
<1>. QED
  BY <1>1, FailKeeps, CompleteGoesOn DEF PartsInv, Tables

\* The document of the object that was put is read.
LEMMA CompleteMetaKeeps ==
    ASSUME PartsInv, NEW p \in Workers, CompleteMeta(p)
    PROVE  PartsInv'
<1> USE DEF CompleteMeta
<1>1. Active(p) /\ req[p].op = "Complete"
  BY DEF PartsInv, WorkerOK, Active, RequestOK, UploadControlAt, CombineCalls
<1>2. CASE FailUpload(p, "InternalError")
  BY <1>1, <1>2, FailKeeps
<1>3. CASE ~FailUpload(p, "InternalError")
  <2>1. DOMAIN got' = Workers /\ DOMAIN got'[p] = DOMAIN Nothing
        /\ \A q \in Workers \ {p} : got'[q] = got[q]
    BY <1>3 DEF PartsInv, Tables
  <2>. QED
    BY <1>1, <1>3, <2>1, CompleteGoesOn DEF PartsInv, Tables
<1>. QED
  BY <1>2, <1>3

----------------------------------------------------------------------------
\* An item that is calm for a worker, and about which the code promises
\* something, holds what is kept while that worker is not in the middle of it.
LEMMA CalmIsSettled ==
    ASSUME PartsInv, NEW p \in Workers, Midway(p) = {}, NEW x \in calm[p] \ unsure
    PROVE  x \in Items /\ ItemSettled(x)
<1>1. \A q \in Workers \ {p} : x \notin Midway(q)
  <2> SUFFICES ASSUME NEW q \in Workers \ {p}, x \in Midway(q) PROVE FALSE
    OBVIOUS
  <2>1. Active(q) /\ RequestOK(q) /\ pc[q] # "idle"
    BY DEF Midway, PartsInv, WorkerOK, Active
  <2>2. x \in Mine(q)
    BY <2>1, MidwayIsMine
  <2>. QED
    BY <2>1, <2>2 DEF PartsInv, CalmExclusive, Mine
<1>2. x \in Items
  BY DEF PartsInv, Tables
<1>. QED
  BY <1>1, <1>2 DEF PartsInv, PartsSettled

\* A listing that starts, goes on or ends.
LEMMA ListingKeeps ==
    ASSUME PartsInv, NEW p \in Workers, Quiet(p), req[p].op \in {"ListParts", "ListUploads"},
           pc[p] \notin {"DocOpen", "DocWrite", "RemoveEntries"}, job' = job, chunk'[p] = None,
           pc'[p] \in {"PartsRead", "UploadsRead", "done"},
           UploadControlAt(req[p].op, pc'[p]), ListedSoFar(p)', ListedExactly(p)'
    PROVE  PartsInv'
<1>1. RequestOK(p)
  BY DEF PartsInv, WorkerOK, Quiet, Active
<1>2. req' = req
  BY DEF Quiet
<1>3. RequestOK(p)'
  BY <1>1, <1>2 DEF RequestOK, Path, Dst, PartOps, PartCalls
<1>4. FilesOK(p)' /\ HalfWritten(p)' /\ NewUpload(p)'
  BY <1>2 DEF FilesOK, HalfWritten, NewUpload, CreateUploadCalls
<1>5. WorkerOK(p)'
  BY <1>3, <1>4 DEF WorkerOK
<1>. QED
  BY <1>5, QuietKeeps

\* The names in an upload directory are read.
LEMMA PartsScanKeeps ==
    ASSUME PartsInv, NEW p \in Workers, PartsScan(p)
    PROVE  PartsInv'
<1> USE DEF PartsScan
<1>1. /\ RequestOK(p) /\ FilesOK(p) /\ ListedSoFar(p) /\ Active(p) /\ req[p].op = "ListParts"
      /\ Midway(p) = {}
  BY DEF PartsInv, WorkerOK, Active, RequestOK, UploadControlAt, Midway
<1>2. CASE FailUpload(p, "InternalError") /\ UNCHANGED scan
  <2>1. LookUpload
    BY <1>2 DEF LookUpload
  <2>. QED
    BY <1>1, <1>2, <2>1, FailKeeps
<1>3. CASE /\ scan' = [scan EXCEPT ![p] = {x \in ItemsOf(Path(p)) \ {Path(p)} : doc[x] # None}]
           /\ Goto(p, "PartsRead")
           /\ UNCHANGED <<got, chunk>>
  <2> USE <1>3
  <2>1. req' = req /\ pc'[p] = "PartsRead" /\ calm' = calm /\ unsure' = unsure /\ kept' = kept
    BY DEF Look, Goto, PartsInv, Tables, uploadHistory
  <2>2. Tables'
    BY DEF PartsInv, Tables, Look, Goto, UploadLabels, uploadDisk, uploadHistory
  <2>3. Quiet(p)
    BY <1>1, <2>1, <2>2 DEF PartsInv, Tables, Look, Goto, uploadDisk, uploadHistory, Quiet, Mine
  <2>4. chunk'[p] = None
    BY <1>1 DEF FilesOK
  <2>5. ShownSoFar(p, ItemsOf(Path(p)) \cap Parts)'
    <3> SUFFICES ASSUME NEW x \in ItemsOf(Path(p)) \cap Parts, x \in calm[p] \ unsure
                 PROVE  {e \in got[p].listed : e[1] = x}
                           = IF x \in scan'[p] \/ kept[x] = None THEN {} ELSE {<<x, kept[x]>>}
      BY <2>1 DEF ShownSoFar, Path
    <3>1. got[p].listed = {}
      BY <1>1 DEF ListedSoFar
    <3>2. x # Path(p)
      BY <1>1, ItemFacts DEF RequestOK, JobOps
    <3>3. doc[x] = kept[x]
      BY <1>1, CalmIsSettled DEF ItemSettled
    <3>. QED
      BY <3>1, <3>2, <3>3 DEF PartsInv, Tables
  <2>6. ListedSoFar(p)' /\ ListedExactly(p)'
    BY <1>1, <2>1, <2>5 DEF ListedSoFar, ListedExactly, Answered
  <2>7. UploadControlAt(req[p].op, pc'[p])
    BY <1>1, <2>1 DEF UploadControlAt, SweepCalls, CombineCalls, Labels
  <2>. QED
    BY <1>1, <2>1, <2>3, <2>4, <2>6, <2>7, ListingKeeps
<1>. QED
  BY <1>2, <1>3

\* One entry is read: an item nothing disturbed is listed as it is kept.
LEMMA EntryShown ==
    ASSUME PartsInv, NEW p \in Workers, NEW S, ShownSoFar(p, S), NEW y \in scan[p],
           NEW content, \A e \in content : e[1] = y, ReadEntry(p, y, content),
           y \in S \cap (calm[p] \ unsure) =>
               content = IF kept[y] = None THEN {} ELSE {<<y, kept[y]>>},
           UNCHANGED <<calm, unsure, kept>>
    PROVE  ShownSoFar(p, S)'
<1>1. got'[p].listed = got[p].listed \cup content /\ scan'[p] = scan[p] \ {y}
  BY DEF ReadEntry, PartsInv, Tables, Nothing
<1> SUFFICES ASSUME NEW x \in S, x \in calm[p] \ unsure
             PROVE  {e \in got'[p].listed : e[1] = x}
                       = IF x \in scan'[p] \/ kept[x] = None THEN {} ELSE {<<x, kept[x]>>}
  BY DEF ShownSoFar
<1>2. {e \in got[p].listed : e[1] = x}
         = IF x \in scan[p] \/ kept[x] = None THEN {} ELSE {<<x, kept[x]>>}
  BY DEF ShownSoFar
<1>3. CASE x = y
  <2>1. {e \in got[p].listed : e[1] = x} = {}
    BY <1>2, <1>3
  <2>2. {e \in got'[p].listed : e[1] = x} = content
    BY <1>1, <1>3, <2>1
  <2>. QED
    BY <1>1, <1>3, <2>2
<1>4. CASE x # y
  <2>1. {e \in got'[p].listed : e[1] = x} = {e \in got[p].listed : e[1] = x}
    BY <1>1, <1>4
  <2>. QED
    BY <1>1, <1>2, <1>4, <2>1
<1>. QED
  BY <1>3, <1>4

\* A step of a listing that changes nothing but what it has listed and still
\* has to read, or that ends it.
LEMMA ReadIsQuiet ==
    ASSUME PartsInv, NEW p \in Workers, Active(p), Look, UNCHANGED <<uploadDisk, uploadHistory, job>>,
           \/ \E y, content : ReadEntry(p, y, content)
           \/ Succeed(p) /\ UNCHANGED <<scan, chunk>>
    PROVE  Quiet(p)
<1> USE DEF PartsInv, Tables, Look, uploadDisk, uploadHistory
<1>1. req' = req /\ Mine(p)' = Mine(p)
  BY DEF Mine
<1>2. CASE \E y, content : ReadEntry(p, y, content)
  <2>1. PICK y, content : ReadEntry(p, y, content)
    BY <1>2
  <2>2. Tables'
    BY <2>1 DEF ReadEntry, Nothing
  <2>. QED
    BY <1>1, <2>1, <2>2 DEF Quiet, ReadEntry
<1>3. CASE Succeed(p) /\ UNCHANGED <<scan, chunk>>
  <2>1. Tables'
    BY <1>3 DEF Succeed, Finish, Goto, Nothing, Labels
  <2>. QED
    BY <1>1, <1>3, <2>1 DEF Quiet, Succeed, Finish, Goto
<1>. QED
  BY <1>2, <1>3

\* The ETag of a part is read and listed, or the listing ends.
LEMMA PartsReadKeeps ==
    ASSUME PartsInv, NEW p \in Workers, PartsRead(p)
    PROVE  PartsInv'
<1> USE DEF PartsRead
<1> DEFINE S == ItemsOf(Path(p)) \cap Parts
<1>1. /\ RequestOK(p) /\ Active(p) /\ req[p].op = "ListParts" /\ chunk[p] = None
      /\ ShownSoFar(p, S) /\ Midway(p) = {}
  BY DEF PartsInv, WorkerOK, Active, RequestOK, UploadControlAt, Midway, FilesOK, ListedSoFar
<1>2. /\ req' = req /\ calm' = calm /\ unsure' = unsure /\ kept' = kept
      /\ Path(p)' = Path(p) /\ S' = S
  BY DEF Look, uploadHistory, Path
<1>3. CASE FailUpload(p, "InternalError") /\ UNCHANGED scan
  <2>1. LookUpload
    BY <1>3 DEF LookUpload
  <2>. QED
    BY <1>1, <1>3, <2>1, FailKeeps
<1>4. CASE \E x \in scan[p] : doc[x] \in Bodies /\ ReadEntry(p, x, {<<x, doc[x]>>})
  <2>1. PICK x \in scan[p] : doc[x] \in Bodies /\ ReadEntry(p, x, {<<x, doc[x]>>})
    BY <1>4
  <2>2. x \in calm[p] \ unsure => kept[x] = doc[x] /\ kept[x] # None
    BY <1>1, <2>1, CalmIsSettled, ValuesAssumption DEF ItemSettled
  <2>3. ShownSoFar(p, S)'
    BY <1>1, <1>2, <2>1, <2>2, EntryShown
  <2>4. pc' = pc /\ chunk' = chunk
    BY <2>1 DEF ReadEntry
  <2>5. ListedSoFar(p)' /\ ListedExactly(p)'
    BY <1>1, <1>2, <2>3, <2>4 DEF ListedSoFar, ListedExactly, Answered
  <2>6. Quiet(p)
    BY <1>1, <2>1, ReadIsQuiet
  <2>. QED
    BY <1>1, <2>4, <2>5, <2>6, ListingKeeps DEF RequestOK
<1>5. CASE scan[p] = {} /\ Succeed(p) /\ UNCHANGED <<scan, chunk>>
  <2>1. Quiet(p)
    BY <1>1, <1>5, ReadIsQuiet
  <2>2. pc'[p] = "done" /\ got'[p].listed = got[p].listed /\ chunk' = chunk
    BY <1>5 DEF Succeed, Finish, Goto, PartsInv, Tables, Nothing
  <2>3. ListedSoFar(p)' /\ ListedExactly(p)'
    BY <1>1, <1>2, <1>5, <2>2 DEF ListedSoFar, ListedExactly, ShownSoFar, Answered
  <2>4. UploadControlAt(req[p].op, "done")
    BY DEF UploadControlAt, SweepCalls, CombineCalls
  <2>. QED
    BY <1>1, <2>1, <2>2, <2>3, <2>4, ListingKeeps
<1>. QED
  BY <1>3, <1>4, <1>5

\* The directories of the uploads are read.
LEMMA UploadsScanKeeps ==
    ASSUME PartsInv, NEW p \in Workers, UploadsScan(p)
    PROVE  PartsInv'
<1> USE DEF UploadsScan
<1> DEFINE S == {req[p].bucket} \X UploadIDs
<1>1. /\ RequestOK(p) /\ FilesOK(p) /\ ListedSoFar(p) /\ Active(p) /\ req[p].op = "ListUploads"
      /\ Midway(p) = {} /\ req[p].bucket \in Buckets
  BY DEF PartsInv, WorkerOK, Active, RequestOK, UploadControlAt, Midway
<1>2. /\ req' = req /\ pc'[p] = "UploadsRead" /\ got' = got
      /\ calm' = calm /\ unsure' = unsure /\ kept' = kept
  BY DEF Look, Goto, PartsInv, Tables, uploadHistory
<1>3. Tables'
  BY DEF PartsInv, Tables, Look, Goto, UploadLabels, uploadDisk, uploadHistory
<1>4. Quiet(p)
  BY <1>1, <1>2, <1>3 DEF PartsInv, Tables, Look, Goto, uploadDisk, uploadHistory, Quiet, Mine
<1>5. chunk'[p] = None
  BY <1>1 DEF FilesOK
<1>6. ShownSoFar(p, S)'
  <2> SUFFICES ASSUME NEW d \in S, d \in calm[p] \ unsure
               PROVE  {e \in got[p].listed : e[1] = d}
                         = IF d \in scan'[p] \/ kept[d] = None THEN {} ELSE {<<d, kept[d]>>}
    BY <1>2 DEF ShownSoFar
  <2>1. got[p].listed = {}
    BY <1>1 DEF ListedSoFar
  <2>2. doc[d] = kept[d] /\ d[1] = req[p].bucket
    BY <1>1, CalmIsSettled DEF ItemSettled
  <2>3. d \notin folders => doc[d] = None
    BY <1>1, ItemsInFacts, ItemFacts DEF PartsInv, InFolders
  <2>. QED
    BY <2>1, <2>2, <2>3 DEF PartsInv, Tables
<1>7. ListedSoFar(p)' /\ ListedExactly(p)'
  BY <1>1, <1>2, <1>6 DEF ListedSoFar, ListedExactly, Answered
<1>8. UploadControlAt(req[p].op, pc'[p])
  BY <1>1, <1>2 DEF UploadControlAt, SweepCalls, CombineCalls, Labels
<1>. QED
  BY <1>1, <1>2, <1>4, <1>5, <1>7, <1>8, ListingKeeps

\* The upload.json of an upload is read and listed, or the listing ends.
LEMMA UploadsReadKeeps ==
    ASSUME PartsInv, NEW p \in Workers, UploadsRead(p)
    PROVE  PartsInv'
<1> USE DEF UploadsRead
<1> DEFINE S == {req[p].bucket} \X UploadIDs
           shown(d) == IF doc[d] \in Sessions THEN {<<d, doc[d]>>} ELSE {}
<1>1. /\ RequestOK(p) /\ Active(p) /\ req[p].op = "ListUploads" /\ chunk[p] = None
      /\ ShownSoFar(p, S) /\ Midway(p) = {} /\ req[p].bucket \in Buckets
  BY DEF PartsInv, WorkerOK, Active, RequestOK, UploadControlAt, Midway, FilesOK, ListedSoFar
<1>2. req' = req /\ calm' = calm /\ unsure' = unsure /\ kept' = kept
  BY DEF Look, uploadHistory
<1>3. CASE \E d \in scan[p] : ReadEntry(p, d, shown(d))
  <2>1. PICK d \in scan[p] : ReadEntry(p, d, shown(d))
    BY <1>3
  <2>2. ASSUME d \in S \cap (calm[p] \ unsure)
        PROVE  shown(d) = IF kept[d] = None THEN {} ELSE {<<d, kept[d]>>}
    <3>1. kept[d] = doc[d]
      BY <1>1, <2>2, CalmIsSettled DEF ItemSettled
    <3>2. kept[d] \in Sessions \cup {None}
      BY <1>1, <2>2, ItemsInFacts DEF PartsInv, SessionsKept
    <3>. QED
      BY <3>1, <3>2, SessionsAssumption
  <2>3. ShownSoFar(p, S)'
    BY <1>1, <1>2, <2>1, <2>2, EntryShown
  <2>4. pc' = pc /\ chunk' = chunk
    BY <2>1 DEF ReadEntry
  <2>5. ListedSoFar(p)' /\ ListedExactly(p)'
    BY <1>1, <1>2, <2>3, <2>4 DEF ListedSoFar, ListedExactly, Answered
  <2>6. Quiet(p)
    BY <1>1, <2>1, ReadIsQuiet
  <2>. QED
    BY <1>1, <2>4, <2>5, <2>6, ListingKeeps DEF RequestOK
<1>4. CASE scan[p] = {} /\ Succeed(p) /\ UNCHANGED <<scan, chunk>>
  <2>1. Quiet(p)
    BY <1>1, <1>4, ReadIsQuiet
  <2>2. pc'[p] = "done" /\ got'[p].listed = got[p].listed /\ chunk' = chunk
    BY <1>4 DEF Succeed, Finish, Goto, PartsInv, Tables, Nothing
  <2>3. ListedSoFar(p)' /\ ListedExactly(p)'
    BY <1>1, <1>2, <1>4, <2>2 DEF ListedSoFar, ListedExactly, ShownSoFar, Answered
  <2>4. UploadControlAt(req[p].op, "done")
    BY DEF UploadControlAt, SweepCalls, CombineCalls
  <2>. QED
    BY <1>1, <2>1, <2>2, <2>3, <2>4, ListingKeeps
<1>. QED
  BY <1>3, <1>4

----------------------------------------------------------------------------
\* Workers other than the one that makes a step keep their files when no file
\* of theirs goes unless it is marked, and their directory stays.
LEMMA FilesStay ==
    ASSUME PartsInv, NEW q \in Workers, pc[q] # "idle",
           pc'[q] = pc[q], req'[q] = req[q], job'[q] = job[q],
           chunk'[q] \in {None, chunk[q]}, scan'[q] \subseteq scan[q],
           chunk'[q] # None /\ Path(q) \in folders => Path(q) \in folders',
           pc[q] = "DocWrite" /\ ~unlinked'[q] => doc'[Item(q)] # None
    PROVE  FilesOK(q)'
<1>1. FilesOK(q) /\ Path(q)' = Path(q) /\ Item(q)' = Item(q)
  BY DEF PartsInv, WorkerOK, Path, Item
<1>. QED
  BY <1>1 DEF FilesOK, Active

\* The directory of a new upload is made.
LEMMA UploadMkdirKeeps ==
    ASSUME PartsInv, NEW p \in Workers, UploadMkdir(p)
    PROVE  PartsInv'
<1> USE DEF UploadMkdir
<1>1. /\ RequestOK(p) /\ FilesOK(p) /\ NewUpload(p) /\ Active(p) /\ req[p].op = "CreateUpload"
      /\ Path(p) \in Paths /\ Midway(p) = {}
  BY DEF PartsInv, WorkerOK, Active, RequestOK, UploadControlAt, Midway, JobOps
<1>2. /\ pc'[p] = "DocOpen" /\ req' = req /\ got' = got /\ job' = job /\ chunk' = chunk
      /\ doc' = doc /\ partData' = partData /\ kept' = kept /\ unsure' = unsure
      /\ calm' = calm /\ folders \subseteq folders' /\ scan' = scan /\ unlinked' = unlinked
      /\ \A q \in Workers \ {p} : pc'[q] = pc[q]
  BY DEF Goto, PartsInv, Tables, uploadHistory
<1>3. Path(p)' = Path(p) /\ Item(p)' = Item(p) /\ Mine(p)' = Mine(p)
  BY <1>2 DEF Path, Item, Mine
<1>4. Tables'
  BY <1>1, <1>2 DEF Goto, PartsInv, Tables, UploadLabels
<1>5. Apart(p)
  <2>1. ASSUME NEW q \in Workers \ {p}, pc[q] # "idle" PROVE FilesOK(q)'
    <3>1. FilesOK(q)
      BY <2>1 DEF PartsInv, WorkerOK
    <3>. QED
      BY <1>2, <2>1, <3>1, FilesStay DEF FilesOK
  <2>. QED
    BY <1>1, <1>2, <1>3, <1>4, <2>1 DEF Apart, Outside
<1>6. WorkerOK(p)'
  <2>1. RequestOK(p)'
    BY <1>1, <1>2, <1>3 DEF RequestOK, UploadControlAt, Dst, Active, PartOps, SweepCalls,
       CombineCalls, Labels
  <2>2. FilesOK(p)' /\ HalfWritten(p)' /\ NewUpload(p)' /\ ListedSoFar(p)' /\ ListedExactly(p)'
    BY <1>1, <1>2, <1>3 DEF FilesOK, HalfWritten, NewUpload, ListedSoFar, ListedExactly,
       Answered, CreateUploadCalls, PartOps
  <2>. QED
    BY <1>2, <2>1, <2>2 DEF WorkerOK
<1>7. OwnSettled(p)
  <2>1. \A q \in Workers \ {p} : Midway(q)' = Midway(q)
    BY <1>2 DEF Midway, Item, Path
  <2>. QED
    BY <1>1, <1>2, <2>1 DEF OwnSettled, PartsInv, PartsSettled, ItemSettled
<1>8. InFolders' /\ SessionsKept'
  BY <1>2 DEF PartsInv, InFolders, SessionsKept
<1>. QED
  BY <1>5, <1>6, <1>7, <1>8, ApartKeeps

\* What is known where a worker writes a document.
LEMMA AtDocument ==
    ASSUME PartsInv, NEW p \in Workers, pc[p] \in {"DocOpen", "DocWrite"}
    PROVE  /\ RequestOK(p) /\ FilesOK(p) /\ HalfWritten(p) /\ NewUpload(p) /\ Active(p)
           /\ chunk[p] = None /\ Path(p) \in Paths /\ Item(p) \in ItemsOf(Path(p))
           /\ Item(p) \in Items /\ Item(p) \in Mine(p) /\ Midway(p) = {Item(p)}
           /\ req[p].op \in {"CreateUpload", "UploadPart", "UploadPartCopy"}
           /\ IF req[p].op = "CreateUpload"
              THEN Item(p) = Path(p) /\ Mine(p) = ItemsOf(Path(p)) /\ got[p].attrs \in Uploads
              ELSE Item(p) \in Parts /\ Mine(p) = {Item(p)} /\ got[p].body # None
<1>1. RequestOK(p) /\ FilesOK(p) /\ HalfWritten(p) /\ NewUpload(p) /\ Active(p)
  BY DEF PartsInv, WorkerOK, Active
<1>2. /\ req[p].op \in {"CreateUpload", "UploadPart", "UploadPartCopy"} /\ Path(p) \in Paths
      /\ req[p].op = "CreateUpload" => got[p].attrs \in Uploads
      /\ req[p].op # "CreateUpload" => got[p].body # None /\ job[p].part \in 1..PartCount
  BY <1>1 DEF RequestOK, UploadControlAt, PartOps, JobOps, PartCalls
<1>3. chunk[p] = None
  BY <1>1, <1>2 DEF FilesOK
<1>4. Midway(p) = {Item(p)}
  BY DEF Midway
<1>5. Item(p) \in ItemsOf(Path(p))
  BY <1>2, ItemFacts DEF Item
<1>. QED
  BY <1>1, <1>2, <1>3, <1>4, <1>5, MidwayIsMine, ItemFacts

\* The document is opened and truncated, or the directory is gone.
LEMMA DocOpenKeeps ==
    ASSUME PartsInv, NEW p \in Workers, DocOpen(p)
    PROVE  PartsInv'
<1> USE DEF DocOpen, Elsewhere
<1>1. pc[p] = "DocOpen"
  OBVIOUS
<1>2. req' = req /\ job' = job /\ scan' = scan /\ folders' = folders /\ partData' = partData
  OBVIOUS
<1>3. Path(p)' = Path(p) /\ Item(p)' = Item(p) /\ Mine(p)' = Mine(p)
  BY <1>2 DEF Path, Item, Mine
<1>4. CASE /\ Path(p) \in folders
           /\ doc' = [doc EXCEPT ![Item(p)] = Empty]
           /\ unlinked' = [unlinked EXCEPT ![p] = FALSE]
           /\ Goto(p, "DocWrite")
           /\ UNCHANGED <<got, chunk, uploadHistory>>
  <2> USE <1>4
  <2>1. /\ pc'[p] = "DocWrite" /\ got' = got /\ chunk' = chunk /\ ~unlinked'[p]
        /\ kept' = kept /\ unsure' = unsure /\ calm' = calm
        /\ \A q \in Workers \ {p} : pc'[q] = pc[q] /\ unlinked'[q] = unlinked[q]
    BY DEF Goto, PartsInv, Tables, uploadHistory
  <2>2. doc'[Item(p)] = Empty /\ \A x \in Items \ {Item(p)} : doc'[x] = doc[x]
    BY <1>1, AtDocument DEF PartsInv, Tables
  <2>3. Tables'
    BY <1>2, <2>1 DEF Goto, PartsInv, Tables, UploadLabels
  <2>4. Apart(p)
    <3>1. ASSUME NEW q \in Workers \ {p}, pc[q] # "idle" PROVE FilesOK(q)'
      <4>1. FilesOK(q) /\ (pc[q] = "DocWrite" => Item(q) \in Items)
        BY <3>1, AtDocument DEF PartsInv, WorkerOK
      <4>. QED
        BY <1>2, <2>1, <2>2, <3>1, <4>1, FilesStay, ValuesAssumption DEF FilesOK
    <3>2. Outside(Mine(p))
      BY <1>1, <1>2, <2>1, <2>2, AtDocument DEF Outside
    <3>. QED
      BY <1>1, <1>2, <1>3, <2>1, <2>3, <3>1, <3>2, AtDocument DEF Apart
  <2>5. WorkerOK(p)'
    <3>1. RequestOK(p)'
      BY <1>1, <1>2, <1>3, <2>1, AtDocument
         DEF RequestOK, UploadControlAt, Dst, Active, PartOps, PartCalls, SweepCalls,
             CombineCalls, Labels
    <3>2. FilesOK(p)' /\ HalfWritten(p)'
      BY <1>1, <1>2, <1>3, <2>1, <2>2, AtDocument, ValuesAssumption
         DEF FilesOK, HalfWritten
    <3>3. NewUpload(p)'
      BY <1>1, <1>2, <1>3, <2>1, <2>2, AtDocument, ItemFacts DEF NewUpload, CreateUploadCalls
    <3>4. ListedSoFar(p)' /\ ListedExactly(p)'
      BY <1>1, <1>2, <2>1, AtDocument DEF ListedSoFar, ListedExactly, Answered
    <3>. QED
      BY <2>1, <3>1, <3>2, <3>3, <3>4 DEF WorkerOK
  <2>6. OwnSettled(p)
    <3>1. \A q \in Workers \ {p} : Midway(q)' = Midway(q)
      BY <1>2, <2>1 DEF Midway, Item, Path
    <3>2. Midway(p)' = {Item(p)} /\ Midway(p) = {Item(p)}
      BY <1>1, <1>3, <2>1 DEF Midway
    <3>. QED
      BY <1>2, <2>1, <2>2, <3>1, <3>2 DEF OwnSettled, PartsInv, PartsSettled, ItemSettled
  <2>7. InFolders' /\ SessionsKept'
    <3>1. ASSUME NEW d \in Paths, NEW x \in ItemsOf(d), doc'[x] # None, x = Item(p)
          PROVE  d = Path(p)
      BY <1>1, <3>1, AtDocument, UploadNamesAssumption DEF ItemsOf, Paths, Parts
    <3>. QED
      BY <1>2, <2>1, <2>2, <3>1, ItemFacts DEF PartsInv, InFolders, SessionsKept
  <2>. QED
    BY <2>4, <2>5, <2>6, <2>7, ApartKeeps
<1>5. CASE FailUpload(p, "InternalError") /\ Lose({Item(p)}) /\ UNCHANGED <<doc, unlinked>>
  <2> USE <1>5
  <2>1. /\ pc'[p] = "done" /\ got'[p].code # "OK" /\ chunk'[p] = None
        /\ \A q \in Workers \ {p} : pc'[q] = pc[q] /\ got'[q] = got[q] /\ chunk'[q] = chunk[q]
    BY DEF FailUpload, Fail, Finish, Goto, PartsInv, Tables, Nothing
  <2>2. calm' = calm /\ Item(p) \in unsure'
        /\ \A x \in Items \ {Item(p)} : kept'[x] = kept[x] /\ (x \in unsure' <=> x \in unsure)
    BY DEF Lose
  <2>3. Tables'
    BY <1>1, <1>2, <2>2, AtDocument DEF FailUpload, Fail, Finish, Goto, PartsInv, Tables, Nothing, Labels, Lose
  <2>4. Apart(p)
    <3>1. ASSUME NEW q \in Workers \ {p}, pc[q] # "idle" PROVE FilesOK(q)'
      <4>1. FilesOK(q)
        BY <3>1 DEF PartsInv, WorkerOK
      <4>. QED
        BY <1>2, <2>1, <3>1, <4>1, FilesStay DEF FilesOK
    <3>2. Outside(Mine(p))
      BY <1>1, <1>2, <2>2, AtDocument DEF Outside
    <3>. QED
      BY <1>1, <1>2, <1>3, <2>1, <2>2, <2>3, <3>1, <3>2, AtDocument DEF Apart
  <2>5. WorkerOK(p)'
    BY <1>1, <1>2, <2>1, AtDocument, FailEnds
  <2>6. OwnSettled(p)
    <3>1. \A q \in Workers \ {p} : Midway(q)' = Midway(q)
      BY <1>2, <2>1 DEF Midway, Item, Path
    <3>2. Midway(p) = {Item(p)}
      BY <1>1 DEF Midway
    <3>. QED
      BY <1>2, <2>2, <3>1, <3>2 DEF OwnSettled, PartsInv, PartsSettled, ItemSettled
  <2>7. InFolders' /\ SessionsKept'
    BY <1>2 DEF PartsInv, InFolders, SessionsKept, Lose, Tables, Items
  <2>. QED
    BY <2>4, <2>5, <2>6, <2>7, ApartKeeps
<1>. QED
  BY <1>4, <1>5

\* What a request writes into its document is a value, and a session if the
\* document is upload.json.
LEMMA NewDocIs ==
    ASSUME PartsInv, NEW p \in Workers, pc[p] = "DocWrite"
    PROVE  /\ NewDoc(p) # None
           /\ req[p].op = "CreateUpload" => NewDoc(p) \in Sessions
           /\ req[p].op # "CreateUpload" => NewDoc(p) = got[p].body
<1>1. CASE req[p].op = "CreateUpload"
  <2>1. Dst(p) \in Objects /\ got[p].attrs \in Uploads
    BY <1>1, AtDocument DEF RequestOK, JobOps
  <2>2. NewDoc(p) \in Sessions
    BY <1>1, <2>1 DEF NewDoc, Sessions
  <2>. QED
    BY <1>1, <2>2, SessionsAssumption
<1>2. CASE req[p].op # "CreateUpload"
  BY <1>2, AtDocument DEF NewDoc
<1>. QED
  BY <1>1, <1>2

\* The end of a document's write, whatever it leaves in the document.
LEMMA DocEndKeeps ==
    ASSUME PartsInv, NEW p \in Workers, pc[p] = "DocWrite",
           Goto(p, "done"), req' = req, job' = job, scan' = scan, folders' = folders,
           partData' = partData, chunk'[p] = None, Tables', calm' = calm,
           \A q \in Workers \ {p} :
               got'[q] = got[q] /\ chunk'[q] = chunk[q] /\ unlinked'[q] = unlinked[q],
           \A x \in Items \ {Item(p)} : doc'[x] = doc[x],
           doc' = doc \/ (~unlinked[p] /\ doc'[Item(p)] # None),
           Outside(Mine(p)), OwnSettled(p), SessionsKept'
    PROVE  PartsInv'
<1>1. Path(p)' = Path(p) /\ Item(p)' = Item(p) /\ Mine(p)' = Mine(p) /\ pc'[p] = "done"
  BY DEF Path, Item, Mine, Goto, PartsInv, Tables
<1>2. \A q \in Workers \ {p} : pc'[q] = pc[q]
  BY DEF Goto, PartsInv, Tables
<1>3. Apart(p)
  <2>1. ASSUME NEW q \in Workers \ {p}, pc[q] # "idle" PROVE FilesOK(q)'
    <3>1. FilesOK(q) /\ (pc[q] = "DocWrite" => Item(q) \in Items)
      BY <2>1, AtDocument DEF PartsInv, WorkerOK
    <3>2. pc[q] = "DocWrite" /\ ~unlinked'[q] => doc'[Item(q)] # None
      BY <3>1 DEF FilesOK
    <3>. QED
      BY <1>2, <2>1, <3>1, <3>2, FilesStay
  <2>. QED
    BY <1>1, <1>2, <2>1, AtDocument DEF Apart
<1>4. WorkerOK(p)'
  <2>1. RequestOK(p)'
    BY <1>1, AtDocument
       DEF RequestOK, UploadControlAt, Dst, Active, PartOps, PartCalls, SweepCalls, CombineCalls
  <2>2. /\ FilesOK(p)' /\ HalfWritten(p)' /\ NewUpload(p)' /\ ListedSoFar(p)'
        /\ ListedExactly(p)'
    BY <1>1, AtDocument DEF FilesOK, HalfWritten, NewUpload, ListedSoFar, ListedExactly,
       Answered, CreateUploadCalls
  <2>. QED
    BY <1>1, <2>1, <2>2 DEF WorkerOK
<1>5. InFolders'
  <2>1. doc' # doc => Path(p) \in folders
    BY AtDocument DEF PartsInv, InFolders, FilesOK
  <2>2. ASSUME NEW d \in Paths, NEW x \in ItemsOf(d), x = Item(p)
        PROVE  d = Path(p)
    BY <2>2, AtDocument, UploadNamesAssumption DEF ItemsOf, Paths, Parts
  <2>. QED
    BY <2>1, <2>2, ItemFacts DEF PartsInv, InFolders
<1>. QED
  BY <1>3, <1>4, <1>5, ApartKeeps

\* The document is written, or the write fails.
LEMMA DocWriteKeeps ==
    ASSUME PartsInv, NEW p \in Workers, DocWrite(p)
    PROVE  PartsInv'
<1> USE DEF DocWrite, Elsewhere
<1>1. /\ pc[p] = "DocWrite" /\ req' = req /\ job' = job /\ scan' = scan /\ folders' = folders
      /\ partData' = partData /\ \A q \in Workers \ {p} : unlinked'[q] = unlinked[q]
  BY DEF PartsInv, Tables
<1>2. Item(p) \in Items /\ Item(p) \in Mine(p) /\ Midway(p) = {Item(p)}
  BY <1>1, AtDocument
<1>3. ASSUME Goto(p, "done") PROVE \A q \in Workers \ {p} : Midway(q)' = Midway(q)
  BY <1>1, <1>3 DEF Midway, Item, Path, Goto, PartsInv, Tables
<1>4. CASE /\ \/ unlinked[p] /\ UNCHANGED doc
              \/ /\ ~unlinked[p]
                 /\ \E content \in Written(doc[Item(p)], NewDoc(p)) :
                        doc' = [doc EXCEPT ![Item(p)] = content]
           /\ Keep(p, Mine(p), Item(p), NewDoc(p))
           /\ Succeed(p) /\ UNCHANGED chunk
  <2> USE <1>4
  <2>1. /\ Goto(p, "done") /\ chunk'[p] = None /\ calm' = calm /\ Tables'
        /\ \A q \in Workers \ {p} : got'[q] = got[q] /\ chunk'[q] = chunk[q]
    <3>1. Mine(p) \subseteq Items
      BY <1>1, AtDocument, ItemFacts
    <3>2. pc' \in [Workers -> Labels \cup UploadLabels] /\ chunk[p] = None
      BY <1>1, AtDocument DEF Succeed, Finish, Goto, PartsInv, Tables, Labels
    <3>3. /\ DOMAIN doc' = Items /\ DOMAIN got' = Workers
          /\ \A q \in Workers : DOMAIN got'[q] = DOMAIN Nothing
      BY DEF Succeed, Finish, PartsInv, Tables, Nothing
    <3>. QED
      BY <1>1, <3>1, <3>2, <3>3 DEF Succeed, Finish, PartsInv, Tables, Keep
  <2>2. /\ \A x \in Items \ {Item(p)} : doc'[x] = doc[x]
        /\ doc' = doc \/ (~unlinked[p] /\ doc'[Item(p)] # None)
        /\ Item(p) \in calm[p] => doc'[Item(p)] = NewDoc(p)
    <3>1. NewDoc(p) # None /\ Garbled # None
      BY <1>1, NewDocIs, ValuesAssumption
    <3>2. Item(p) \in calm[p] => doc[Item(p)] = Empty /\ ~unlinked[p]
      BY <1>1, AtDocument DEF HalfWritten
    <3>. QED
      BY <1>1, <1>2, <3>1, <3>2 DEF Written, PartsInv, Tables
  <2>3. Outside(Mine(p))
    BY <1>1, <1>2, <2>2 DEF Outside, Keep
  <2>4. OwnSettled(p)
    <3> SUFFICES ASSUME NEW x \in Items \cap Mine(p), x \notin unsure'
                 PROVE  ItemSettled(x)'
      BY DEF OwnSettled
    <3>1. x \in calm[p] /\ kept'[x] = IF x = Item(p) THEN NewDoc(p) ELSE None
      BY DEF Keep
    <3>2. CASE x = Item(p)
      <4>1. x \in Parts => partData[x] = NewDoc(p)
        BY <1>1, <3>1, <3>2, AtDocument, NewDocIs, ItemFacts DEF HalfWritten, PartOps
      <4>. QED
        BY <1>1, <2>2, <3>1, <3>2, <4>1 DEF ItemSettled
    <3>3. CASE x # Item(p)
      <4>1. req[p].op = "CreateUpload" /\ Item(p) = Path(p) /\ x \in ItemsOf(Path(p))
        BY <1>1, <3>3, AtDocument
      <4>2. doc[x] = None /\ (x \in Parts => partData[x] = None)
        BY <1>1, <3>1, <3>3, <4>1, AtDocument DEF NewUpload, CreateUploadCalls
      <4>. QED
        BY <1>1, <2>2, <3>1, <3>3, <4>2 DEF ItemSettled
    <3>. QED
      BY <3>2, <3>3
  <2>5. SessionsKept'
    <3>1. ASSUME NEW d \in Paths, d = Item(p) PROVE NewDoc(p) \in Sessions
      BY <1>1, <3>1, AtDocument, NewDocIs, ItemFacts
    <3>2. \A d \in Paths : d \in Items
      BY DEF Items
    <3>. QED
      BY <3>1, <3>2 DEF SessionsKept, Keep, PartsInv
  <2>. QED
    BY <1>1, <2>1, <2>2, <2>3, <2>4, <2>5, DocEndKeeps
<1>5. CASE /\ \/ UNCHANGED doc
              \/ ~unlinked[p] /\ doc' = [doc EXCEPT ![Item(p)] = Garbled]
           /\ Lose({Item(p)})
           /\ FailUpload(p, "InternalError")
  <2> USE <1>5
  <2>1. /\ Goto(p, "done") /\ chunk'[p] = None /\ calm' = calm /\ Tables'
        /\ \A q \in Workers \ {p} : got'[q] = got[q] /\ chunk'[q] = chunk[q]
    BY <1>1, <1>2
       DEF FailUpload, Fail, Finish, Goto, PartsInv, Tables, Lose, Nothing, Labels
  <2>2. /\ \A x \in Items \ {Item(p)} : doc'[x] = doc[x]
        /\ doc' = doc \/ (~unlinked[p] /\ doc'[Item(p)] # None)
    BY <1>2, ValuesAssumption DEF PartsInv, Tables
  <2>3. Outside(Mine(p))
    BY <1>1, <1>2, <2>2 DEF Outside, Lose
  <2>4. OwnSettled(p)
    <3> SUFFICES ASSUME NEW x \in Items \cap Mine(p), x \notin unsure',
                        \A q \in Workers : x \notin Midway(q)'
                 PROVE  ItemSettled(x)'
      BY DEF OwnSettled
    <3>1. x # Item(p) /\ x \notin unsure
      BY DEF Lose
    <3>2. ItemSettled(x)
      BY <1>2, <1>3, <2>1, <3>1 DEF PartsInv, PartsSettled
    <3>. QED
      BY <1>1, <2>2, <3>1, <3>2 DEF ItemSettled, Lose
  <2>5. SessionsKept'
    BY DEF SessionsKept, Lose, PartsInv, Items
  <2>. QED
    BY <1>1, <2>1, <2>2, <2>3, <2>4, <2>5, DocEndKeeps
<1>. QED
  BY <1>4, <1>5 DEF Mine

----------------------------------------------------------------------------
\* The data of a part replaces what was there.
LEMMA PartRenameKeeps ==
    ASSUME PartsInv, NEW p \in Workers, PartRename(p)
    PROVE  PartsInv'
<1> USE DEF PartRename, Elsewhere
<1>1. /\ RequestOK(p) /\ FilesOK(p) /\ ListedSoFar(p) /\ Active(p)
      /\ req[p].op \in {"UploadPart", "UploadPartCopy"}
      /\ Path(p) \in Paths /\ job[p].part \in 1..PartCount /\ Midway(p) = {}
      /\ chunk[p] \in {None, got[p].body}
  BY DEF PartsInv, WorkerOK, Active, RequestOK, UploadControlAt, Midway, JobOps, PartOps, PartCalls
<1>2. req' = req /\ job' = job /\ scan' = scan /\ folders' = folders /\ doc' = doc
      /\ unlinked' = unlinked
  OBVIOUS
<1>3. /\ Path(p)' = Path(p) /\ Item(p)' = Item(p) /\ Mine(p)' = Mine(p) /\ Mine(p) = {Item(p)}
      /\ Item(p) = <<Path(p), job[p].part>> /\ Item(p) \in Parts /\ Item(p) \in Items
      /\ Item(p) \in ItemsOf(Path(p)) /\ Item(p) # Path(p)
  BY <1>1, <1>2, ItemFacts DEF Path, Item, Mine, Rewrites
<1>4. CASE chunk[p] = None
  <2>1. FailUpload(p, "InternalError") /\ LookUpload
    BY <1>4 DEF LookUpload, Look, uploadDisk
  <2>. QED
    BY <1>1, <2>1, FailKeeps
<1>5. CASE chunk[p] # None
  <2>1. /\ partData' = [partData EXCEPT ![Item(p)] = chunk[p]]
        /\ chunk' = [chunk EXCEPT ![p] = None]
        /\ Lose({Item(p)} \ calm[p])
        /\ Goto(p, "DocOpen") /\ got' = got
    BY <1>5 DEF Unsettle
  <2>2. /\ pc'[p] = "DocOpen" /\ chunk'[p] = None /\ calm' = calm
        /\ \A q \in Workers \ {p} : pc'[q] = pc[q] /\ chunk'[q] = chunk[q]
    BY <2>1 DEF Goto, PartsInv, Tables, Lose
  <2>3. partData'[Item(p)] = got[p].body /\ \A x \in Parts \ {Item(p)} : partData'[x] = partData[x]
    BY <1>1, <1>3, <1>5, <2>1 DEF PartsInv, Tables
  <2>4. Tables'
    BY <1>2, <1>3, <2>1 DEF Goto, PartsInv, Tables, UploadLabels, Lose
  <2>5. Apart(p)
    <3>1. ASSUME NEW q \in Workers \ {p}, pc[q] # "idle" PROVE FilesOK(q)'
      <4>1. FilesOK(q)
        BY <3>1 DEF PartsInv, WorkerOK
      <4>. QED
        BY <1>2, <2>2, <3>1, <4>1, FilesStay DEF FilesOK
    <3>2. Outside(Mine(p))
      BY <1>2, <1>3, <2>1, <2>3 DEF Outside, Lose
    <3>. QED
      BY <1>1, <1>2, <1>3, <2>1, <2>2, <2>4, <3>1, <3>2 DEF Apart
  <2>6. WorkerOK(p)'
    <3>1. RequestOK(p)'
      BY <1>1, <1>2, <1>3, <2>1, <2>2
         DEF RequestOK, UploadControlAt, Dst, Active, PartOps, PartCalls, SweepCalls,
             CombineCalls, Labels
    <3>2. FilesOK(p)' /\ NewUpload(p)' /\ ListedSoFar(p)' /\ ListedExactly(p)'
      BY <1>1, <1>2, <2>2 DEF FilesOK, NewUpload, ListedSoFar, ListedExactly, Answered
    <3>3. HalfWritten(p)'
      BY <1>3, <2>1, <2>2, <2>3 DEF HalfWritten
    <3>. QED
      BY <2>2, <3>1, <3>2, <3>3 DEF WorkerOK
  <2>7. OwnSettled(p)
    BY <1>3, <2>2 DEF OwnSettled, Midway
  <2>8. InFolders' /\ SessionsKept'
    <3>1. Path(p) \in folders
      BY <1>1, <1>5 DEF FilesOK
    <3>2. ASSUME NEW d \in Paths, NEW x \in ItemsOf(d), x = Item(p)
          PROVE  d = Path(p)
      BY <1>3, <3>2, UploadNamesAssumption DEF ItemsOf, Paths, Parts
    <3>3. InFolders'
      BY <1>2, <2>3, <3>1, <3>2 DEF PartsInv, InFolders
    <3>. QED
      BY <2>1, <3>3 DEF PartsInv, SessionsKept, Lose, Items
  <2>. QED
    BY <2>5, <2>6, <2>7, <2>8, ApartKeeps
<1>. QED
  BY <1>4, <1>5

----------------------------------------------------------------------------
\* What is known where RemoveAll of an upload directory is at work.
LEMMA AtRemoval ==
    ASSUME PartsInv, NEW p \in Workers, pc[p] \in {"RemoveNames", "RemoveEntries"}
    PROVE  /\ RequestOK(p) /\ FilesOK(p) /\ Active(p) /\ req[p].op \in {"Complete", "Abort"}
           /\ Path(p) \in Paths /\ Mine(p) = ItemsOf(Path(p)) /\ Mine(p) \subseteq Items
<1>1. RequestOK(p) /\ FilesOK(p) /\ Active(p)
  BY DEF PartsInv, WorkerOK, Active
<1>2. req[p].op \in {"Complete", "Abort"} /\ Path(p) \in Paths
  BY <1>1 DEF RequestOK, UploadControlAt, JobOps
<1>3. Mine(p) = ItemsOf(Path(p))
  BY <1>2 DEF Mine, Rewrites, Path
<1>. QED
  BY <1>1, <1>2, <1>3, ItemFacts

\* A request that is about to remove, or is removing, an upload: all that is
\* said of it is what it has in hand.
LEMMA RemovalOK ==
    ASSUME PartsInv, NEW p \in Workers, pc[p] \in {"RemoveNames", "RemoveEntries"},
           pc'[p] = "RemoveEntries", req' = req, job' = job, FilesOK(p)'
    PROVE  WorkerOK(p)'
<1>1. RequestOK(p)'
  BY AtRemoval
     DEF RequestOK, UploadControlAt, Dst, Path, Active, PartOps, PartCalls, SweepCalls,
         CombineCalls, Labels
<1>2. HalfWritten(p)' /\ NewUpload(p)' /\ ListedSoFar(p)' /\ ListedExactly(p)'
  BY AtRemoval DEF HalfWritten, NewUpload, CreateUploadCalls, ListedSoFar, ListedExactly, Answered
<1>. QED
  BY <1>1, <1>2 DEF WorkerOK

\* RemoveAll reads the names.
LEMMA RemoveNamesKeeps ==
    ASSUME PartsInv, NEW p \in Workers, RemoveNames(p)
    PROVE  PartsInv'
<1> USE DEF RemoveNames, Elsewhere
<1>1. /\ req' = req /\ job' = job /\ got' = got /\ unlinked' = unlinked /\ chunk' = chunk
      /\ folders' = folders /\ doc' = doc /\ partData' = partData
      /\ pc'[p] = "RemoveEntries" /\ calm' = calm /\ scan'[p] = UploadEntries(Path(p))
      /\ \A q \in Workers \ {p} : pc'[q] = pc[q] /\ scan'[q] = scan[q]
  BY DEF uploadDisk, Goto, PartsInv, Tables, Unsettle, Lose
<1>2. Path(p)' = Path(p) /\ Mine(p)' = Mine(p)
  BY <1>1 DEF Path, Mine
<1>3. Tables'
  BY <1>1, AtRemoval DEF Goto, PartsInv, Tables, UploadLabels, Unsettle, Lose
<1>4. Apart(p)
  <2>1. ASSUME NEW q \in Workers \ {p}, pc[q] # "idle" PROVE FilesOK(q)'
    <3>1. FilesOK(q)
      BY <2>1 DEF PartsInv, WorkerOK
    <3>. QED
      BY <1>1, <2>1, <3>1, FilesStay DEF FilesOK
  <2>2. Outside(Mine(p))
    BY <1>1, AtRemoval DEF Outside, Unsettle, Lose
  <2>. QED
    BY <1>1, <1>2, <1>3, <2>1, <2>2, AtRemoval DEF Apart
<1>5. WorkerOK(p)'
  <2>1. \A name \in UploadEntries(Path(p)) :
            name[1] \in {"json", "data"} => name[2] \in ItemsOf(Path(p))
    BY DEF UploadEntries, ItemsOf
  <2>2. FilesOK(p)'
    BY <1>1, <1>2, <2>1, AtRemoval DEF FilesOK, Active
  <2>. QED
    BY <1>1, <2>2, RemovalOK
<1>6. OwnSettled(p)
  BY <1>1, <1>2, AtRemoval DEF OwnSettled, Midway
<1>7. InFolders' /\ SessionsKept'
  BY <1>1 DEF PartsInv, InFolders, SessionsKept, Unsettle, Lose, Items
<1>. QED
  BY <1>4, <1>5, <1>6, <1>7, ApartKeeps

\* What the removal of files of p's items does to the others.
LEMMA UnlinkFacts ==
    ASSUME PartsInv, NEW p \in Workers, NEW names, Unlink(names),
           \A x : <<"json", x>> \in names \/ <<"data", x>> \in names => x \in Mine(p),
           req' = req, job' = job, folders' = folders,
           \A q \in Workers \ {p} : pc'[q] = pc[q] /\ scan'[q] \subseteq scan[q]
    PROVE  /\ DOMAIN doc' = Items /\ DOMAIN partData' = Parts
           /\ DOMAIN chunk' = Workers /\ DOMAIN unlinked' = Workers
           /\ \A x \in Items : /\ doc'[x] \in {None, doc[x]}
                               /\ x \notin Mine(p) => doc'[x] = doc[x]
           /\ \A x \in Parts : /\ partData'[x] \in {None, partData[x]}
                               /\ x \notin Mine(p) => partData'[x] = partData[x]
           /\ \A q \in Workers : chunk'[q] \in {None, chunk[q]}
           /\ \A q \in Workers \ {p} : pc[q] # "idle" => FilesOK(q)'
           /\ \A q \in Workers \ {p} : pc[q] = "DocWrite" =>
                  Item(q) \in Mine(p) \/ (unlinked'[q] <=> unlinked[q])
           /\ InFolders'
<1> USE DEF Unlink
<1>1. /\ \A x \in Items : /\ doc'[x] \in {None, doc[x]}
                          /\ x \notin Mine(p) => doc'[x] = doc[x]
                          /\ <<"json", x>> \notin names => doc'[x] = doc[x]
      /\ \A x \in Parts : /\ partData'[x] \in {None, partData[x]}
                          /\ x \notin Mine(p) => partData'[x] = partData[x]
      /\ \A q \in Workers : chunk'[q] \in {None, chunk[q]}
  OBVIOUS
<1>2. ASSUME NEW q \in Workers \ {p}, pc[q] # "idle" PROVE FilesOK(q)'
  <2>1. FilesOK(q) /\ (pc[q] = "DocWrite" => Item(q) \in Items)
    BY <1>2, AtDocument DEF PartsInv, WorkerOK
  <2>2. pc[q] = "DocWrite" /\ ~unlinked'[q] => doc'[Item(q)] # None
    BY <1>1, <2>1 DEF FilesOK
  <2>. QED
    BY <1>1, <1>2, <2>2, FilesStay
<1>3. \A q \in Workers \ {p} : pc[q] = "DocWrite" =>
          Item(q) \in Mine(p) \/ (unlinked'[q] <=> unlinked[q])
  OBVIOUS
<1>4. InFolders'
  BY <1>1, ItemFacts DEF PartsInv, InFolders
<1>. QED
  BY <1>1, <1>2, <1>3, <1>4

\* RemoveAll removes one of the files it read the names of.
LEMMA RemoveEntryKeeps ==
    ASSUME PartsInv, NEW p \in Workers, RemoveEntry(p)
    PROVE  PartsInv'
<1> USE DEF RemoveEntry, Elsewhere
<1>1. PICK name \in scan[p] : Unlink({name}) /\ scan' = [scan EXCEPT ![p] = @ \ {name}]
  OBVIOUS
<1>2. /\ req' = req /\ job' = job /\ got' = got /\ pc' = pc /\ folders' = folders
      /\ kept' = kept /\ unsure' = unsure /\ calm' = calm
      /\ scan'[p] \subseteq scan[p] /\ \A q \in Workers \ {p} : scan'[q] = scan[q]
  BY <1>1 DEF PartsInv, Tables, uploadHistory
<1>3. Path(p)' = Path(p) /\ Mine(p)' = Mine(p)
  BY <1>2 DEF Path, Mine
<1>4. \A x : <<"json", x>> \in {name} \/ <<"data", x>> \in {name} => x \in Mine(p)
  BY AtRemoval DEF FilesOK
<1>5. /\ \A x \in Items : x \notin Mine(p) => doc'[x] = doc[x]
      /\ \A x \in Parts : x \notin Mine(p) => partData'[x] = partData[x]
      /\ \A q \in Workers : chunk'[q] \in {None, chunk[q]}
      /\ \A q \in Workers \ {p} : pc[q] # "idle" => FilesOK(q)'
      /\ \A q \in Workers \ {p} : pc[q] = "DocWrite" =>
             Item(q) \in Mine(p) \/ (unlinked'[q] <=> unlinked[q])
      /\ InFolders'
      /\ DOMAIN doc' = Items /\ DOMAIN partData' = Parts
      /\ DOMAIN chunk' = Workers /\ DOMAIN unlinked' = Workers
  BY <1>1, <1>2, <1>4, UnlinkFacts
<1>6. Tables'
  BY <1>1, <1>2, <1>5 DEF PartsInv, Tables
<1>7. Apart(p)
  BY <1>2, <1>3, <1>5, <1>6, AtRemoval DEF Apart, Outside
<1>8. WorkerOK(p)'
  <2>1. FilesOK(p)'
    BY <1>2, <1>3, <1>5, AtRemoval DEF FilesOK, Active
  <2>. QED
    BY <1>2, <2>1, RemovalOK
<1>9. OwnSettled(p)
  BY <1>2, <1>3, AtRemoval DEF OwnSettled, Midway
<1>10. SessionsKept'
  BY <1>2 DEF PartsInv, SessionsKept
<1>. QED
  BY <1>5, <1>7, <1>8, <1>9, <1>10, ApartKeeps

\* What is said of a request that is over and was no listing.
LEMMA DoneOK ==
    ASSUME NEW p \in Workers, RequestOK(p), pc'[p] = "done", req' = req, job' = job,
           chunk'[p] = None, req[p].op \notin {"ListParts", "ListUploads"}
    PROVE  WorkerOK(p)'
<1>1. RequestOK(p)'
  BY DEF RequestOK, UploadControlAt, Dst, Path, Active, PartOps, PartCalls, SweepCalls,
         CombineCalls
<1>2. /\ FilesOK(p)' /\ HalfWritten(p)' /\ NewUpload(p)' /\ ListedSoFar(p)'
      /\ ListedExactly(p)'
  BY DEF FilesOK, HalfWritten, NewUpload, CreateUploadCalls, ListedSoFar, ListedExactly, Answered
<1>. QED
  BY <1>1, <1>2 DEF WorkerOK

\* RemoveAll removes the directory, unless something new is in it.
LEMMA RemoveFolderKeeps ==
    ASSUME PartsInv, NEW p \in Workers, RemoveFolder(p)
    PROVE  PartsInv'
<1> USE DEF RemoveFolder, Elsewhere
<1>1. /\ req' = req /\ job' = job /\ scan' = scan /\ unlinked' = unlinked /\ doc' = doc
      /\ partData' = partData /\ pc[p] = "RemoveEntries"
  OBVIOUS
<1>2. Path(p)' = Path(p) /\ Mine(p)' = Mine(p)
  BY <1>1 DEF Path, Mine
<1>3. CASE /\ UploadEntries(Path(p)) = {}
           /\ folders' = folders \ {Path(p)}
           /\ Keep(p, ItemsOf(Path(p)), None, None)
           /\ Succeed(p)
           /\ UNCHANGED chunk
  <2> USE <1>3
  <2>1. /\ pc'[p] = "done" /\ calm' = calm /\ chunk' = chunk
        /\ \A q \in Workers \ {p} : pc'[q] = pc[q] /\ got'[q] = got[q]
    BY DEF Succeed, Finish, Goto, PartsInv, Tables, Keep
  <2>2. Tables'
    <3>1. /\ pc' \in [Workers -> Labels \cup UploadLabels] /\ DOMAIN got' = Workers
          /\ \A q \in Workers : DOMAIN got'[q] = DOMAIN Nothing
      BY DEF Succeed, Finish, Goto, PartsInv, Tables, Nothing, Labels
    <3>2. DOMAIN kept' = Items /\ unsure' \subseteq Items
      BY <1>1, AtRemoval DEF Keep, PartsInv, Tables
    <3>. QED
      BY <1>1, <2>1, <3>1, <3>2 DEF PartsInv, Tables
  <2>3. /\ \A x \in ItemsOf(Path(p)) : doc[x] = None /\ (x \in Parts => partData[x] = None)
        /\ \A q \in Workers : chunk[q] # None => Path(q) # Path(p)
    <3>1. ASSUME NEW x \in ItemsOf(Path(p)) PROVE doc[x] = None
      <4>1. doc[x] # None => <<"json", x>> \in UploadEntries(Path(p))
        BY DEF UploadEntries
      <4>. QED
        BY <4>1
    <3>2. ASSUME NEW x \in ItemsOf(Path(p)), x \in Parts PROVE partData[x] = None
      <4>1. x \in {Path(p)} \X (1..PartCount)
        BY <1>1, <3>2, AtRemoval, ItemFacts DEF ItemsOf
      <4>2. partData[x] # None => <<"data", x>> \in UploadEntries(Path(p))
        BY <4>1 DEF UploadEntries
      <4>. QED
        BY <4>2
    <3>3. ASSUME NEW q \in Workers, chunk[q] # None, Path(q) = Path(p) PROVE FALSE
      <4>1. <<"temp", q>> \in UploadEntries(Path(p))
        BY <3>3 DEF UploadEntries
      <4>. QED
        BY <4>1
    <3>. QED
      BY <3>1, <3>2, <3>3
  <2>4. Apart(p)
    <3>1. ASSUME NEW q \in Workers \ {p}, pc[q] # "idle" PROVE FilesOK(q)'
      <4>1. FilesOK(q)
        BY <3>1 DEF PartsInv, WorkerOK
      <4>. QED
        BY <1>1, <2>1, <2>3, <3>1, <4>1, FilesStay DEF FilesOK
    <3>2. Outside(Mine(p))
      BY <1>1, AtRemoval DEF Outside, Keep
    <3>. QED
      BY <1>1, <1>2, <2>1, <2>2, <3>1, <3>2, AtRemoval DEF Apart
  <2>5. WorkerOK(p)'
    BY <1>1, <2>1, <2>3, AtRemoval, DoneOK
  <2>6. OwnSettled(p)
    BY <1>1, <2>3, AtRemoval DEF OwnSettled, ItemSettled, Keep
  <2>7. InFolders'
    <3>1. ASSUME NEW d \in Paths, NEW x \in ItemsOf(d),
                 doc[x] # None \/ (x \in Parts /\ partData[x] # None)
          PROVE  d \in folders /\ d # Path(p)
      BY <2>3, <3>1 DEF PartsInv, InFolders
    <3>. QED
      BY <1>1, <3>1 DEF InFolders
  <2>8. SessionsKept'
    BY DEF PartsInv, SessionsKept, Keep, Items
  <2>. QED
    BY <2>4, <2>5, <2>6, <2>7, <2>8, ApartKeeps
<1>4. CASE Lose(ItemsOf(Path(p))) /\ FailUpload(p, "InternalError") /\ UNCHANGED folders
  <2> USE <1>4
  <2>1. /\ pc'[p] = "done" /\ calm' = calm /\ chunk'[p] = None /\ got'[p].code # "OK"
        /\ \A q \in Workers \ {p} : pc'[q] = pc[q] /\ got'[q] = got[q] /\ chunk'[q] = chunk[q]
    BY DEF FailUpload, Fail, Finish, Goto, PartsInv, Tables, Lose, Nothing
  <2>2. Tables'
    BY <1>1, <2>1, AtRemoval
       DEF FailUpload, Fail, Finish, Goto, PartsInv, Tables, Nothing, Labels, Lose
  <2>3. Apart(p)
    <3>1. ASSUME NEW q \in Workers \ {p}, pc[q] # "idle" PROVE FilesOK(q)'
      <4>1. FilesOK(q)
        BY <3>1 DEF PartsInv, WorkerOK
      <4>. QED
        BY <1>1, <2>1, <3>1, <4>1, FilesStay DEF FilesOK
    <3>2. Outside(Mine(p))
      BY <1>1, AtRemoval DEF Outside, Lose
    <3>. QED
      BY <1>1, <1>2, <2>1, <2>2, <3>1, <3>2, AtRemoval DEF Apart
  <2>4. WorkerOK(p)'
    BY <1>1, <2>1, AtRemoval, FailEnds
  <2>5. OwnSettled(p)
    BY <1>1, AtRemoval DEF OwnSettled, Lose
  <2>6. InFolders' /\ SessionsKept'
    BY <1>1 DEF PartsInv, InFolders, SessionsKept, Lose, Items
  <2>. QED
    BY <2>3, <2>4, <2>5, <2>6, ApartKeeps
<1>. QED
  BY <1>3, <1>4

----------------------------------------------------------------------------
\* What is known where DeleteBucket removes the uploads of its bucket.
LEMMA AtSweep ==
    ASSUME PartsInv, NEW p \in Workers, pc[p] \in {"RemoveFiles", "RmdirUploads"}
    PROVE  /\ RequestOK(p) /\ FilesOK(p) /\ Active(p) /\ req[p].op = "DeleteBucket"
           /\ req[p].bucket \in Buckets /\ Mine(p) = ItemsIn(req[p].bucket)
           /\ Mine(p) \subseteq Items /\ Midway(p) = {} /\ chunk[p] = None
<1>1. RequestOK(p) /\ FilesOK(p) /\ Active(p) /\ Midway(p) = {}
  BY DEF PartsInv, WorkerOK, Active, Midway
<1>2. req[p].op = "DeleteBucket" /\ req[p].bucket \in Buckets /\ chunk[p] = None
  BY <1>1 DEF RequestOK, UploadControlAt, SweepCalls, FilesOK
<1>3. Mine(p) = ItemsIn(req[p].bucket)
  BY <1>2 DEF Mine, Rewrites
<1>. QED
  BY <1>1, <1>2, <1>3, ItemsInFacts

\* DeleteBucket between its calls: nothing is said of its answer.
LEMMA SweepOK ==
    ASSUME PartsInv, NEW p \in Workers, pc[p] \in {"RemoveFiles", "RmdirUploads"},
           pc'[p] \in {"RemoveFiles", "RmdirUploads"}, req' = req, job' = job,
           chunk'[p] \in {None, chunk[p]}
    PROVE  WorkerOK(p)'
<1>1. RequestOK(p)'
  BY AtSweep
     DEF RequestOK, UploadControlAt, Dst, Path, Active, PartOps, PartCalls, SweepCalls,
         CombineCalls, UploadOps, JobOps
<1>2. /\ FilesOK(p)' /\ HalfWritten(p)' /\ NewUpload(p)' /\ ListedSoFar(p)'
      /\ ListedExactly(p)'
  BY AtSweep
     DEF FilesOK, HalfWritten, NewUpload, CreateUploadCalls, ListedSoFar, ListedExactly, Answered
<1>. QED
  BY <1>1, <1>2 DEF WorkerOK

\* The files in the uploads of a bucket go.
LEMMA SweepUploadsKeeps ==
    ASSUME PartsInv, NEW p \in Workers, SweepUploads(p)
    PROVE  PartsInv'
<1> USE DEF SweepUploads, Elsewhere
<1> DEFINE uploads == {req[p].bucket} \X UploadIDs
           names == UNION {UploadEntries(d) : d \in uploads}
<1>1. /\ req' = req /\ job' = job /\ got' = got /\ folders' = folders /\ scan' = scan
      /\ pc[p] = "RemoveFiles" /\ pc'[p] = "RmdirUploads" /\ calm' = calm
      /\ \A q \in Workers \ {p} : pc'[q] = pc[q]
  BY DEF Goto, PartsInv, Tables, Keep
<1>2. Path(p)' = Path(p) /\ Mine(p)' = Mine(p)
  BY <1>1 DEF Path, Mine
<1>3. \A x : <<"json", x>> \in names \/ <<"data", x>> \in names => x \in Mine(p)
  <2>1. \A d \in uploads : ItemsOf(d) \subseteq Mine(p)
    BY <1>1, AtSweep, ItemsInFacts
  <2>2. \A d \in uploads : \A x :
            <<"json", x>> \in UploadEntries(d) \/ <<"data", x>> \in UploadEntries(d)
            => x \in ItemsOf(d)
    BY DEF UploadEntries, ItemsOf
  <2>. QED
    BY <2>1, <2>2
<1>4. Unlink(names)
  OBVIOUS
<1> HIDE DEF names
<1>5. /\ \A x \in Items : x \notin Mine(p) => doc'[x] = doc[x]
      /\ \A x \in Parts : x \notin Mine(p) => partData'[x] = partData[x]
      /\ \A q \in Workers : chunk'[q] \in {None, chunk[q]}
      /\ \A q \in Workers \ {p} : pc[q] # "idle" => FilesOK(q)'
      /\ \A q \in Workers \ {p} : pc[q] = "DocWrite" =>
             Item(q) \in Mine(p) \/ (unlinked'[q] <=> unlinked[q])
      /\ InFolders'
      /\ DOMAIN doc' = Items /\ DOMAIN partData' = Parts
      /\ DOMAIN chunk' = Workers /\ DOMAIN unlinked' = Workers
  BY <1>1, <1>3, <1>4, UnlinkFacts
<1>6. Tables'
  BY <1>1, <1>5, AtSweep DEF PartsInv, Tables, Goto, UploadLabels, Keep
<1>7. Apart(p)
  BY <1>1, <1>2, <1>5, <1>6, AtSweep DEF Apart, Outside, Keep
<1>8. WorkerOK(p)'
  BY <1>1, <1>5, SweepOK
<1>9. OwnSettled(p)
  <2> SUFFICES ASSUME NEW x \in Items \cap Mine(p), x \notin unsure'
               PROVE  ItemSettled(x)'
    BY DEF OwnSettled
  <2>1. PICK d \in uploads : x \in ItemsOf(d)
    BY <1>1, AtSweep, ItemsInFacts
  <2>2. doc[x] # None => <<"json", x>> \in names
    BY <2>1 DEF UploadEntries, names
  <2>3. x \in Parts /\ partData[x] # None => <<"data", x>> \in names
    <3>1. d \in Paths
      BY <1>1, AtSweep, ItemsInFacts
    <3>2. x \in Parts => x \in {d} \X (1..PartCount)
      BY <2>1, <3>1, ItemFacts DEF ItemsOf
    <3>. QED
      BY <2>1, <3>2 DEF UploadEntries, names
  <2>4. doc'[x] = None /\ (x \in Parts => partData'[x] = None)
    BY <1>4, <2>2, <2>3 DEF Unlink
  <2>5. kept'[x] = None
    BY <1>1, AtSweep DEF Keep
  <2>. QED
    BY <2>4, <2>5 DEF ItemSettled
<1>10. SessionsKept'
  BY DEF PartsInv, SessionsKept, Keep, Items
<1>. QED
  BY <1>5, <1>7, <1>8, <1>9, <1>10, ApartKeeps

\* The directories of those uploads go, unless something new is in them.
LEMMA RmdirUploadsKeeps ==
    ASSUME PartsInv, NEW p \in Workers, RmdirUploads(p)
    PROVE  PartsInv'
<1> USE DEF RmdirUploads
<1>1. /\ req' = req /\ job' = job /\ got' = got /\ unlinked' = unlinked /\ chunk' = chunk
      /\ doc' = doc /\ partData' = partData /\ kept' = kept /\ unsure' = unsure /\ calm' = calm
      /\ pc[p] = "RmdirUploads" /\ pc'[p] = "RemoveFiles"
      /\ \A q \in Workers \ {p} : pc'[q] = pc[q] /\ scan'[q] = scan[q]
  BY DEF Goto, PartsInv, Tables, uploadHistory
<1>2. Path(p)' = Path(p) /\ Mine(p)' = Mine(p)
  BY <1>1 DEF Path, Mine
<1>3. \A d \in folders : UploadEntries(d) # {} => d \in folders'
  OBVIOUS
<1>4. Tables'
  BY <1>1 DEF PartsInv, Tables, Goto, Labels
<1>5. Apart(p)
  <2>1. ASSUME NEW q \in Workers \ {p}, pc[q] # "idle" PROVE FilesOK(q)'
    <3>1. FilesOK(q)
      BY <2>1 DEF PartsInv, WorkerOK
    <3>2. chunk[q] # None => <<"temp", q>> \in UploadEntries(Path(q))
      BY DEF UploadEntries
    <3>. QED
      BY <1>1, <1>3, <2>1, <3>1, <3>2, FilesStay DEF FilesOK
  <2>. QED
    BY <1>1, <1>2, <1>4, <2>1, AtSweep DEF Apart, Outside
<1>6. WorkerOK(p)'
  BY <1>1, SweepOK
<1>7. OwnSettled(p)
  <2>1. \A q \in Workers \ {p} : Midway(q)' = Midway(q)
    BY <1>1 DEF Midway, Item, Path
  <2>. QED
    BY <1>1, <2>1, AtSweep DEF OwnSettled, PartsInv, PartsSettled, ItemSettled
<1>8. InFolders'
  <2>1. ASSUME NEW d \in Paths, NEW x \in ItemsOf(d),
               doc[x] # None \/ (x \in Parts /\ partData[x] # None)
        PROVE  d \in folders'
    <3>1. d \in folders
      BY <2>1 DEF PartsInv, InFolders
    <3>2. doc[x] # None => <<"json", x>> \in UploadEntries(d)
      BY DEF UploadEntries
    <3>3. x \in Parts /\ partData[x] # None => <<"data", x>> \in UploadEntries(d)
      <4>1. x \in Parts => x \in {d} \X (1..PartCount)
        BY <2>1, ItemFacts DEF ItemsOf
      <4>. QED
        BY <2>1, <4>1 DEF UploadEntries
    <3>. QED
      BY <1>3, <2>1, <3>1, <3>2, <3>3
  <2>. QED
    BY <1>1, <2>1 DEF InFolders
<1>9. SessionsKept'
  BY <1>1 DEF PartsInv, SessionsKept
<1>. QED
  BY <1>5, <1>6, <1>7, <1>8, <1>9, ApartKeeps

----------------------------------------------------------------------------
\* How a call of ObjectStore or BucketStore leaves the other workers.
PlainFrame(p) ==
    /\ req' = req /\ pc[p] \in Labels \ {"idle", "done"}
    /\ pc' \in [Workers -> Labels \cup UploadLabels]
    /\ DOMAIN got' = Workers /\ DOMAIN scan' = Workers
    /\ DOMAIN unlinked' = Workers /\ DOMAIN got'[p] = DOMAIN Nothing
    /\ \A q \in Workers \ {p} :
           /\ pc'[q] = pc[q] /\ got'[q] = got[q] /\ scan'[q] = scan[q]
           /\ pc[q] = "DocWrite" => (unlinked'[q] <=> unlinked[q])

\* Who is at a call of ObjectStore or BucketStore.
PlainControl(op, call) ==
    /\ call \in SweepCalls => op = "DeleteBucket"
    /\ op \in UploadOps =>
          \/ call = "done"
          \/ op = "UploadPartCopy" /\ call \in ObjectGets
          \/ op = "Complete" /\ call \in ObjectPuts

\* Where it leaves its own worker: at another such call, or where a multipart
\* request goes on after the calls it borrows.
PlainNext(p) ==
    LET op == req[p].op
        next == pc'[p]
    IN \/ next \in Labels \ {"idle"} /\ PlainControl(op, next)
       \/ next = "PartNumber" /\ op = "UploadPartCopy" /\ got'[p].body # None
       \/ next \in {"CompleteExists", "RemoveNames"} /\ op = "Complete"

\* A call that writes nothing keeps to PlainFrame.
LEMMA LookFrame ==
    ASSUME PartsInv, NEW p \in Workers, pc[p] \in Labels \ {"idle", "done"},
           Look, scan' = scan, NEW l \in Labels \cup UploadLabels, Goto(p, l),
           NEW g, DOMAIN g = DOMAIN Nothing, got' = [got EXCEPT ![p] = g]
    PROVE  PlainFrame(p)
BY DEF PlainFrame, PartsInv, Tables, Goto, Look

\* So does one that finds that the request is over.
LEMMA FinishFrame ==
    ASSUME PartsInv, NEW p \in Workers, pc[p] \in Labels \ {"idle", "done"},
           Look, scan' = scan,
           \/ \E c : Fail(p, c)
           \/ Succeed(p)
           \/ \E g : Finish(p, g) /\ DOMAIN g = DOMAIN got[p]
    PROVE  PlainFrame(p)
<1>1. DOMAIN got[p] = DOMAIN Nothing /\ "done" \in Labels
  BY DEF PartsInv, Tables, Labels
<1>2. PICK g : Finish(p, g) /\ DOMAIN g = DOMAIN Nothing
  BY <1>1 DEF Fail, Succeed, Nothing
<1>. QED
  BY <1>1, <1>2, LookFrame DEF Finish

\* The calls of ObjectStore and BucketStore keep to that.
LEMMA PlainMoves ==
    ASSUME PartsInv, NEW p \in Workers, Step(p)
    PROVE  PlainFrame(p) /\ PlainNext(p)
<1>0. pc[p] # "idle" => UploadControlAt(req[p].op, pc[p])
  BY DEF PartsInv, WorkerOK, RequestOK
<1> USE DEF Goto, Finish, Succeed, Fail, Nothing, Labels, SweepCalls
<1>1. ASSUME GetExists(p) PROVE PlainFrame(p) /\ PlainNext(p)
  <2>1. PlainFrame(p)
    BY <1>1 DEF GetExists, PlainFrame, Look, PartsInv, Tables, UploadLabels
  <2>2. PlainNext(p)
    BY <1>0, <1>1
       DEF GetExists, PlainNext, PlainControl, UploadControlAt, PartsInv, Tables,
           ObjectGets, ObjectPuts, UploadOps, JobOps
  <2>. QED
    BY <2>1, <2>2
<1>2. ASSUME GetMeta(p) PROVE PlainFrame(p) /\ PlainNext(p)
  <2>1. PlainFrame(p)
    <3>1. pc[p] = "GetMeta" /\ Look /\ scan' = scan /\ DOMAIN got[p] = DOMAIN Nothing
      BY <1>2 DEF GetMeta, PartsInv, Tables
    <3>2. CASE ReadDocument(p, Src(p))
      BY <3>1, <3>2, FinishFrame DEF ReadDocument
    <3>3. CASE ~ReadDocument(p, Src(p))
      <4> DEFINE g == [got[p] EXCEPT !.etag = meta[Src(p)].etag, !.attrs = meta[Src(p)].attrs]
      <4>1. Goto(p, "GetOpen") /\ got' = [got EXCEPT ![p] = g]
        BY <1>2, <3>3 DEF GetMeta
      <4>2. DOMAIN g = DOMAIN Nothing
        BY <3>1
      <4>. QED
        BY <3>1, <4>1, <4>2, LookFrame
    <3>. QED
      BY <3>2, <3>3
  <2>2. PlainNext(p)
    BY <1>0, <1>2
       DEF GetMeta, ReadDocument, Missing, PlainNext, PlainControl, UploadControlAt, PartsInv, Tables,
           ObjectGets, ObjectPuts, UploadOps, JobOps
  <2>. QED
    BY <2>1, <2>2
<1>3. ASSUME GetOpen(p) PROVE PlainFrame(p) /\ PlainNext(p)
  <2>1. PlainFrame(p)
    <3>1. pc[p] = "GetOpen" /\ Look /\ scan' = scan /\ DOMAIN got[p] = DOMAIN Nothing
      BY <1>3 DEF GetOpen, PartsInv, Tables
    <3>2. CASE pc' = [pc EXCEPT ![p] = "done"]
      BY <1>3, <3>1, <3>2, FinishFrame DEF GetOpen
    <3>3. CASE pc' # [pc EXCEPT ![p] = "done"]
      <4> DEFINE g == [got[p] EXCEPT !.body = data[Src(p)]]
      <4>1. /\ Goto(p, "PutExists") \/ Goto(p, "PartNumber")
            /\ got' = [got EXCEPT ![p] = g]
        BY <1>3, <3>3 DEF GetOpen
      <4>2. DOMAIN g = DOMAIN Nothing
        BY <3>1
      <4>. QED
        BY <3>1, <4>1, <4>2, LookFrame DEF UploadLabels
    <3>. QED
      BY <3>2, <3>3
  <2>2. PlainNext(p)
    BY <1>0, <1>3
       DEF GetOpen, Missing, PlainNext, PlainControl, UploadControlAt, PartsInv, Tables,
           ObjectGets, ObjectPuts, UploadOps, JobOps
  <2>. QED
    BY <2>1, <2>2
<1>4. ASSUME PutExists(p) PROVE PlainFrame(p) /\ PlainNext(p)
  <2>1. PlainFrame(p)
    BY <1>4 DEF PutExists, PlainFrame, Look, PartsInv, Tables, UploadLabels
  <2>2. PlainNext(p)
    BY <1>0, <1>4
       DEF PutExists, PlainNext, PlainControl, UploadControlAt, PartsInv, Tables,
           ObjectGets, ObjectPuts, UploadOps, JobOps
  <2>. QED
    BY <2>1, <2>2
<1>5. ASSUME PutMkdir(p) PROVE PlainFrame(p) /\ PlainNext(p)
  <2>1. PlainFrame(p)
    BY <1>5 DEF PutMkdir, PlainFrame, Look, PartsInv, Tables, UploadLabels
  <2>2. PlainNext(p)
    BY <1>0, <1>5
       DEF PutMkdir, PlainNext, PlainControl, UploadControlAt, PartsInv, Tables,
           ObjectGets, ObjectPuts, UploadOps, JobOps
  <2>. QED
    BY <2>1, <2>2
<1>6. ASSUME PutTemp(p) PROVE PlainFrame(p) /\ PlainNext(p)
  <2>1. PlainFrame(p)
    BY <1>6 DEF PutTemp, PlainFrame, Look, PartsInv, Tables, UploadLabels
  <2>2. PlainNext(p)
    BY <1>0, <1>6
       DEF PutTemp, PlainNext, PlainControl, UploadControlAt, PartsInv, Tables,
           ObjectGets, ObjectPuts, UploadOps, JobOps
  <2>. QED
    BY <2>1, <2>2
<1>7. ASSUME PutCopy(p) PROVE PlainFrame(p) /\ PlainNext(p)
  <2>1. PlainFrame(p)
    BY <1>7 DEF PutCopy, PlainFrame, Look, PartsInv, Tables, UploadLabels
  <2>2. PlainNext(p)
    BY <1>0, <1>7
       DEF PutCopy, PlainNext, PlainControl, UploadControlAt, PartsInv, Tables,
           ObjectGets, ObjectPuts, UploadOps, JobOps
  <2>. QED
    BY <2>1, <2>2
<1>8. ASSUME PutRename(p) PROVE PlainFrame(p) /\ PlainNext(p)
  <2>1. PlainFrame(p)
    BY <1>8 DEF PutRename, Disturb, PlainFrame, Look, PartsInv, Tables, UploadLabels
  <2>2. PlainNext(p)
    BY <1>0, <1>8
       DEF PutRename, Disturb, PlainNext, PlainControl, UploadControlAt, PartsInv, Tables,
           ObjectGets, ObjectPuts, UploadOps, JobOps
  <2>. QED
    BY <2>1, <2>2
<1>9. ASSUME MetaMkdir(p) PROVE PlainFrame(p) /\ PlainNext(p)
  <2>1. PlainFrame(p)
    BY <1>9 DEF MetaMkdir, PlainFrame, Look, PartsInv, Tables, UploadLabels
  <2>2. PlainNext(p)
    BY <1>0, <1>9
       DEF MetaMkdir, PlainNext, PlainControl, UploadControlAt, PartsInv, Tables,
           ObjectGets, ObjectPuts, UploadOps, JobOps
  <2>. QED
    BY <2>1, <2>2
<1>10. ASSUME MetaOpen(p) PROVE PlainFrame(p) /\ PlainNext(p)
  <2>1. PlainFrame(p)
    BY <1>10 DEF MetaOpen, Spoil, PlainFrame, Look, PartsInv, Tables, UploadLabels
  <2>2. PlainNext(p)
    BY <1>0, <1>10
       DEF MetaOpen, Spoil, PlainNext, PlainControl, UploadControlAt, PartsInv, Tables,
           ObjectGets, ObjectPuts, UploadOps, JobOps
  <2>. QED
    BY <2>1, <2>2
<1>11. ASSUME MetaWrite(p) PROVE PlainFrame(p) /\ PlainNext(p)
  <2>1. PlainFrame(p)
    BY <1>11 DEF MetaWrite, Commit, Spoil, AfterPut, PlainFrame, Look, PartsInv, Tables, UploadLabels
  <2>2. PlainNext(p)
    BY <1>0, <1>11
       DEF MetaWrite, Commit, Spoil, AfterPut, PlainNext, PlainControl, UploadControlAt, PartsInv, Tables,
           ObjectGets, ObjectPuts, UploadOps, JobOps
  <2>. QED
    BY <2>1, <2>2
<1>12. ASSUME CopyMeta(p) PROVE PlainFrame(p) /\ PlainNext(p)
  <2>1. PlainFrame(p)
    <3>1. pc[p] = "CopyMeta" /\ Look /\ scan' = scan /\ DOMAIN got[p] = DOMAIN Nothing
      BY <1>12 DEF CopyMeta, PartsInv, Tables
    <3> DEFINE answer == [got[p] EXCEPT !.etag = meta[Dst(p)].etag]
    <3>2. DOMAIN answer = DOMAIN got[p]
      OBVIOUS
    <3>3. CASE ReadDocument(p, Dst(p))
      BY <3>1, <3>3, FinishFrame DEF ReadDocument
    <3>4. CASE Finish(p, [answer EXCEPT !.code = "OK"])
      <4> DEFINE g == [answer EXCEPT !.code = "OK"]
      <4>1. DOMAIN g = DOMAIN Nothing
        BY <3>1, <3>2
      <4>2. Goto(p, "done") /\ got' = [got EXCEPT ![p] = g]
        BY <3>4
      <4> HIDE DEF g
      <4>. QED
        BY <3>1, <4>1, <4>2, LookFrame
    <3>5. CASE Goto(p, "DelExists") /\ got' = [got EXCEPT ![p] = answer]
      BY <3>1, <3>2, <3>5, LookFrame
    <3>. QED
      BY <1>12, <3>3, <3>4, <3>5 DEF CopyMeta
  <2>2. PlainNext(p)
    BY <1>0, <1>12
       DEF CopyMeta, ReadDocument, Missing, PlainNext, PlainControl, UploadControlAt, PartsInv, Tables,
           ObjectGets, ObjectPuts, UploadOps, JobOps
  <2>. QED
    BY <2>1, <2>2
<1>13. ASSUME HeadExists(p) PROVE PlainFrame(p) /\ PlainNext(p)
  <2>1. PlainFrame(p)
    BY <1>13 DEF HeadExists, PlainFrame, Look, PartsInv, Tables, UploadLabels
  <2>2. PlainNext(p)
    BY <1>0, <1>13
       DEF HeadExists, PlainNext, PlainControl, UploadControlAt, PartsInv, Tables,
           ObjectGets, ObjectPuts, UploadOps, JobOps
  <2>. QED
    BY <2>1, <2>2
<1>14. ASSUME HeadMeta(p) PROVE PlainFrame(p) /\ PlainNext(p)
  <2>1. PlainFrame(p)
    <3>1. pc[p] = "HeadMeta" /\ Look /\ scan' = scan /\ DOMAIN got[p] = DOMAIN Nothing
      BY <1>14 DEF HeadMeta, PartsInv, Tables
    <3>2. \/ ReadDocument(p, Dst(p))
          \/ Succeed(p)
          \/ Finish(p, [got[p] EXCEPT !.etag = meta[Dst(p)].etag,
                                      !.attrs = meta[Dst(p)].attrs, !.code = "OK"])
      BY <1>14 DEF HeadMeta
    <3>. QED
      BY <3>1, <3>2, FinishFrame DEF ReadDocument
  <2>2. PlainNext(p)
    BY <1>0, <1>14
       DEF HeadMeta, ReadDocument, Missing, PlainNext, PlainControl, UploadControlAt, PartsInv, Tables,
           ObjectGets, ObjectPuts, UploadOps, JobOps
  <2>. QED
    BY <2>1, <2>2
<1>15. ASSUME ManyExists(p) PROVE PlainFrame(p) /\ PlainNext(p)
  <2>1. PlainFrame(p)
    BY <1>15 DEF ManyExists, PlainFrame, Look, PartsInv, Tables, UploadLabels
  <2>2. PlainNext(p)
    BY <1>0, <1>15
       DEF ManyExists, PlainNext, PlainControl, UploadControlAt, PartsInv, Tables,
           ObjectGets, ObjectPuts, UploadOps, JobOps
  <2>. QED
    BY <2>1, <2>2
<1>16. ASSUME DelExists(p) PROVE PlainFrame(p) /\ PlainNext(p)
  <2>1. PlainFrame(p)
    BY <1>16 DEF DelExists, PlainFrame, Look, PartsInv, Tables, UploadLabels
  <2>2. PlainNext(p)
    BY <1>0, <1>16
       DEF DelExists, PlainNext, PlainControl, UploadControlAt, PartsInv, Tables,
           ObjectGets, ObjectPuts, UploadOps, JobOps
  <2>. QED
    BY <2>1, <2>2
<1>17. ASSUME DelData(p) PROVE PlainFrame(p) /\ PlainNext(p)
  <2>1. PlainFrame(p)
    BY <1>17 DEF DelData, Disturb, NextDelete, PlainFrame, Look, PartsInv, Tables, UploadLabels
  <2>2. PlainNext(p)
    BY <1>0, <1>17
       DEF DelData, Disturb, NextDelete, PlainNext, PlainControl, UploadControlAt, PartsInv, Tables,
           ObjectGets, ObjectPuts, UploadOps, JobOps
  <2>. QED
    BY <2>1, <2>2
<1>18. ASSUME DelMeta(p) PROVE PlainFrame(p) /\ PlainNext(p)
  <2>1. PlainFrame(p)
    <3>1. /\ pc[p] = "DelMeta" /\ req' = req /\ scan' = scan /\ DOMAIN unlinked' = Workers
          /\ \A q \in Workers : pc[q] = "DocWrite" => (unlinked'[q] <=> unlinked[q])
          /\ NextDelete(p) \/ Fail(p, "InternalError")
      <4>1. CASE UNCHANGED unlinked
        BY <1>18, <4>1 DEF DelMeta, PartsInv, Tables
      <4>2. CASE LoseFiles({Head(todo[p])})
        BY <1>18, <4>2 DEF DelMeta, LoseFiles
      <4>. QED
        BY <1>18, <4>1, <4>2 DEF DelMeta
    <3>2. /\ pc' = [pc EXCEPT ![p] = "DelExists"] \/ pc' = [pc EXCEPT ![p] = "done"]
          /\ \/ got' = got
             \/ got' = [got EXCEPT ![p] = [got[p] EXCEPT !.code = "OK"]]
             \/ got' = [got EXCEPT ![p] = [Nothing EXCEPT !.code = "InternalError"]]
      BY <3>1 DEF NextDelete
    <3>. QED
      BY <3>1, <3>2 DEF PlainFrame, PartsInv, Tables
  <2>2. PlainNext(p)
    BY <1>0, <1>18
       DEF DelMeta, Commit, NextDelete, LoseFiles, PlainNext, PlainControl, UploadControlAt, PartsInv, Tables,
           ObjectGets, ObjectPuts, UploadOps, JobOps
  <2>. QED
    BY <2>1, <2>2
<1>19. ASSUME ListExists(p) PROVE PlainFrame(p) /\ PlainNext(p)
  <2>1. PlainFrame(p)
    BY <1>19 DEF ListExists, PlainFrame, Look, PartsInv, Tables, UploadLabels
  <2>2. PlainNext(p)
    BY <1>0, <1>19
       DEF ListExists, PlainNext, PlainControl, UploadControlAt, PartsInv, Tables,
           ObjectGets, ObjectPuts, UploadOps, JobOps
  <2>. QED
    BY <2>1, <2>2
<1>20. ASSUME ListScan(p) PROVE PlainFrame(p) /\ PlainNext(p)
  <2>1. PlainFrame(p)
    BY <1>20 DEF ListScan, PlainFrame, Look, PartsInv, Tables, UploadLabels
  <2>2. PlainNext(p)
    BY <1>0, <1>20
       DEF ListScan, PlainNext, PlainControl, UploadControlAt, PartsInv, Tables,
           ObjectGets, ObjectPuts, UploadOps, JobOps
  <2>. QED
    BY <2>1, <2>2
<1>21. ASSUME ListRead(p) PROVE PlainFrame(p) /\ PlainNext(p)
  <2>1. PlainFrame(p)
    BY <1>21 DEF ListRead, PlainFrame, Look, PartsInv, Tables, UploadLabels
  <2>2. PlainNext(p)
    BY <1>0, <1>21
       DEF ListRead, PlainNext, PlainControl, UploadControlAt, PartsInv, Tables,
           ObjectGets, ObjectPuts, UploadOps, JobOps
  <2>. QED
    BY <2>1, <2>2
<1>22. ASSUME CreateStat(p) PROVE PlainFrame(p) /\ PlainNext(p)
  <2>1. PlainFrame(p)
    BY <1>22 DEF CreateStat, PlainFrame, Look, PartsInv, Tables, UploadLabels
  <2>2. PlainNext(p)
    BY <1>0, <1>22
       DEF CreateStat, PlainNext, PlainControl, UploadControlAt, PartsInv, Tables,
           ObjectGets, ObjectPuts, UploadOps, JobOps
  <2>. QED
    BY <2>1, <2>2
<1>23. ASSUME CreateDir(p) PROVE PlainFrame(p) /\ PlainNext(p)
  <2>1. PlainFrame(p)
    BY <1>23 DEF CreateDir, MakeDirectory, PlainFrame, Look, PartsInv, Tables, UploadLabels
  <2>2. PlainNext(p)
    BY <1>0, <1>23
       DEF CreateDir, MakeDirectory, PlainNext, PlainControl, UploadControlAt, PartsInv, Tables,
           ObjectGets, ObjectPuts, UploadOps, JobOps
  <2>. QED
    BY <2>1, <2>2
<1>24. ASSUME CreateRegistry(p) PROVE PlainFrame(p) /\ PlainNext(p)
  <2>1. PlainFrame(p)
    BY <1>24 DEF CreateRegistry, MakeDirectory, PlainFrame, Look, PartsInv, Tables, UploadLabels
  <2>2. PlainNext(p)
    BY <1>0, <1>24
       DEF CreateRegistry, MakeDirectory, PlainNext, PlainControl, UploadControlAt, PartsInv, Tables,
           ObjectGets, ObjectPuts, UploadOps, JobOps
  <2>. QED
    BY <2>1, <2>2
<1>25. ASSUME CreateOpen(p) PROVE PlainFrame(p) /\ PlainNext(p)
  <2>1. PlainFrame(p)
    BY <1>25 DEF CreateOpen, Disturb, PlainFrame, Look, PartsInv, Tables, UploadLabels
  <2>2. PlainNext(p)
    BY <1>0, <1>25
       DEF CreateOpen, Disturb, PlainNext, PlainControl, UploadControlAt, PartsInv, Tables,
           ObjectGets, ObjectPuts, UploadOps, JobOps
  <2>. QED
    BY <2>1, <2>2
<1>26. ASSUME CreateWrite(p) PROVE PlainFrame(p) /\ PlainNext(p)
  <2>1. PlainFrame(p)
    BY <1>26 DEF CreateWrite, Commit, Spoil, PlainFrame, Look, PartsInv, Tables, UploadLabels
  <2>2. PlainNext(p)
    BY <1>0, <1>26
       DEF CreateWrite, Commit, Spoil, PlainNext, PlainControl, UploadControlAt, PartsInv, Tables,
           ObjectGets, ObjectPuts, UploadOps, JobOps
  <2>. QED
    BY <2>1, <2>2
<1>27. ASSUME DeleteStat(p) PROVE PlainFrame(p) /\ PlainNext(p)
  <2>1. PlainFrame(p)
    BY <1>27 DEF DeleteStat, PlainFrame, Look, PartsInv, Tables, UploadLabels
  <2>2. PlainNext(p)
    BY <1>0, <1>27
       DEF DeleteStat, PlainNext, PlainControl, UploadControlAt, PartsInv, Tables,
           ObjectGets, ObjectPuts, UploadOps, JobOps
  <2>. QED
    BY <2>1, <2>2
<1>28. ASSUME DeleteScan(p) PROVE PlainFrame(p) /\ PlainNext(p)
  <2>1. PlainFrame(p)
    BY <1>28 DEF DeleteScan, PlainFrame, Look, PartsInv, Tables, UploadLabels
  <2>2. PlainNext(p)
    BY <1>0, <1>28
       DEF DeleteScan, PlainNext, PlainControl, UploadControlAt, PartsInv, Tables,
           ObjectGets, ObjectPuts, UploadOps, JobOps
  <2>. QED
    BY <2>1, <2>2
<1>29. ASSUME RemoveList(p) PROVE PlainFrame(p) /\ PlainNext(p)
  <2>1. PlainFrame(p)
    BY <1>29 DEF RemoveList, PlainFrame, Look, PartsInv, Tables, UploadLabels
  <2>2. PlainNext(p)
    BY <1>0, <1>29
       DEF RemoveList, PlainNext, PlainControl, UploadControlAt, PartsInv, Tables,
           ObjectGets, ObjectPuts, UploadOps, JobOps
  <2>. QED
    BY <2>1, <2>2
<1>30. ASSUME RemoveObjects(p) PROVE PlainFrame(p) /\ PlainNext(p)
  <2>1. PlainFrame(p)
    BY <1>30 DEF RemoveObjects, Disturb, PlainFrame, Look, PartsInv, Tables, UploadLabels
  <2>2. PlainNext(p)
    BY <1>0, <1>30
       DEF RemoveObjects, Disturb, PlainNext, PlainControl, UploadControlAt, PartsInv, Tables,
           ObjectGets, ObjectPuts, UploadOps, JobOps
  <2>. QED
    BY <2>1, <2>2
<1>31. ASSUME RemoveMetadata(p) PROVE PlainFrame(p) /\ PlainNext(p)
  <2>1. PlainFrame(p)
    BY <1>31 DEF RemoveMetadata, Commit, LoseFiles, PlainFrame, Look, PartsInv, Tables, UploadLabels
  <2>2. PlainNext(p)
    BY <1>0, <1>31
       DEF RemoveMetadata, Commit, LoseFiles, PlainNext, PlainControl, UploadControlAt, PartsInv, Tables,
           ObjectGets, ObjectPuts, UploadOps, JobOps
  <2>. QED
    BY <2>1, <2>2
<1>32. ASSUME RmdirObjects(p) PROVE PlainFrame(p) /\ PlainNext(p)
  <2>1. PlainFrame(p)
    BY <1>32 DEF RmdirObjects, RemoveSubdirectory, PlainFrame, Look, PartsInv, Tables, UploadLabels
  <2>2. PlainNext(p)
    BY <1>0, <1>32
       DEF RmdirObjects, RemoveSubdirectory, PlainNext, PlainControl, UploadControlAt, PartsInv, Tables,
           ObjectGets, ObjectPuts, UploadOps, JobOps
  <2>. QED
    BY <2>1, <2>2
<1>33. ASSUME RmdirMetadata(p) PROVE PlainFrame(p) /\ PlainNext(p)
  <2>1. PlainFrame(p)
    BY <1>33 DEF RmdirMetadata, RemoveSubdirectory, PlainFrame, Look, PartsInv, Tables, UploadLabels
  <2>2. PlainNext(p)
    BY <1>0, <1>33
       DEF RmdirMetadata, RemoveSubdirectory, PlainNext, PlainControl, UploadControlAt, PartsInv, Tables,
           ObjectGets, ObjectPuts, UploadOps, JobOps
  <2>. QED
    BY <2>1, <2>2
<1>34. ASSUME RmdirBucket(p) PROVE PlainFrame(p) /\ PlainNext(p)
  <2>1. PlainFrame(p)
    BY <1>34 DEF RmdirBucket, Disturb, PlainFrame, Look, PartsInv, Tables, UploadLabels
  <2>2. PlainNext(p)
    BY <1>0, <1>34
       DEF RmdirBucket, Disturb, PlainNext, PlainControl, UploadControlAt, PartsInv, Tables,
           ObjectGets, ObjectPuts, UploadOps, JobOps
  <2>. QED
    BY <2>1, <2>2
<1>35. ASSUME RegistryUnlink(p) PROVE PlainFrame(p) /\ PlainNext(p)
  <2>1. PlainFrame(p)
    BY <1>35 DEF RegistryUnlink, Commit, PlainFrame, Look, PartsInv, Tables, UploadLabels
  <2>2. PlainNext(p)
    BY <1>0, <1>35
       DEF RegistryUnlink, Commit, PlainNext, PlainControl, UploadControlAt, PartsInv, Tables,
           ObjectGets, ObjectPuts, UploadOps, JobOps
  <2>. QED
    BY <2>1, <2>2
<1>36. ASSUME RegistryRmdir(p) PROVE PlainFrame(p) /\ PlainNext(p)
  <2>1. PlainFrame(p)
    BY <1>36 DEF RegistryRmdir, PlainFrame, Look, PartsInv, Tables, UploadLabels
  <2>2. PlainNext(p)
    BY <1>0, <1>36
       DEF RegistryRmdir, PlainNext, PlainControl, UploadControlAt, PartsInv, Tables,
           ObjectGets, ObjectPuts, UploadOps, JobOps
  <2>. QED
    BY <2>1, <2>2
<1>37. ASSUME HeadBucketStat(p) PROVE PlainFrame(p) /\ PlainNext(p)
  <2>1. PlainFrame(p)
    BY <1>37 DEF HeadBucketStat, PlainFrame, Look, PartsInv, Tables, UploadLabels
  <2>2. PlainNext(p)
    BY <1>0, <1>37
       DEF HeadBucketStat, PlainNext, PlainControl, UploadControlAt, PartsInv, Tables,
           ObjectGets, ObjectPuts, UploadOps, JobOps
  <2>. QED
    BY <2>1, <2>2
<1>38. ASSUME LocationRead(p) PROVE PlainFrame(p) /\ PlainNext(p)
  <2>1. PlainFrame(p)
    BY <1>38 DEF LocationRead, PlainFrame, Look, PartsInv, Tables, UploadLabels
  <2>2. PlainNext(p)
    BY <1>0, <1>38
       DEF LocationRead, PlainNext, PlainControl, UploadControlAt, PartsInv, Tables,
           ObjectGets, ObjectPuts, UploadOps, JobOps
  <2>. QED
    BY <2>1, <2>2
<1>39. ASSUME BucketsScan(p) PROVE PlainFrame(p) /\ PlainNext(p)
  <2>1. PlainFrame(p)
    BY <1>39 DEF BucketsScan, PlainFrame, Look, PartsInv, Tables, UploadLabels
  <2>2. PlainNext(p)
    BY <1>0, <1>39
       DEF BucketsScan, PlainNext, PlainControl, UploadControlAt, PartsInv, Tables,
           ObjectGets, ObjectPuts, UploadOps, JobOps
  <2>. QED
    BY <2>1, <2>2
<1>40. ASSUME BucketsRead(p) PROVE PlainFrame(p) /\ PlainNext(p)
  <2>1. PlainFrame(p)
    BY <1>40 DEF BucketsRead, PlainFrame, Look, PartsInv, Tables, UploadLabels
  <2>2. PlainNext(p)
    BY <1>0, <1>40
       DEF BucketsRead, PlainNext, PlainControl, UploadControlAt, PartsInv, Tables,
           ObjectGets, ObjectPuts, UploadOps, JobOps
  <2>. QED
    BY <2>1, <2>2
<1>. QED
  BY <1>1, <1>2, <1>3, <1>4, <1>5, <1>6, <1>7, <1>8, <1>9, <1>10, <1>11, <1>12, <1>13, <1>14, <1>15, <1>16, <1>17, <1>18, <1>19, <1>20, <1>21, <1>22, <1>23, <1>24, <1>25, <1>26, <1>27, <1>28, <1>29, <1>30, <1>31, <1>32, <1>33, <1>34, <1>35, <1>36, <1>37, <1>38, <1>39, <1>40 DEF Step, ObjectStep, BucketStep

\* A call of ObjectStore or BucketStore, on behalf of whatever request.
LEMMA PlainKeeps ==
    ASSUME PartsInv, NEW p \in Workers, PlainStep(p)
    PROVE  PartsInv'
<1> USE DEF PlainStep
<1>1. PlainFrame(p) /\ PlainNext(p)
  BY PlainMoves
<1>2. /\ pc[p] \in Labels \ {"idle", "done"} /\ RequestOK(p) /\ FilesOK(p) /\ Active(p)
      /\ pc[p] \notin UploadLabels
  BY <1>1 DEF PlainFrame, PartsInv, WorkerOK, Active, Labels, UploadLabels
<1>3. /\ req' = req /\ job' = job /\ doc' = doc /\ partData' = partData /\ folders' = folders
      /\ kept' = kept /\ unsure' = unsure /\ calm' = calm /\ Mine(p)' = Mine(p)
  BY <1>1 DEF PlainFrame, uploadDisk, uploadHistory, Mine
<1>4. /\ chunk'[p] = IF pc'[p] = "done" THEN None ELSE chunk[p]
      /\ DOMAIN chunk' = Workers /\ \A q \in Workers \ {p} : chunk'[q] = chunk[q]
  BY DEF PartsInv, Tables
<1>5. pc'[p] \in Labels \cup UploadLabels /\ pc'[p] # "idle"
  BY <1>1 DEF PlainNext, Labels, UploadLabels
<1>6. Tables'
  BY <1>1, <1>3, <1>4 DEF PlainFrame, PartsInv, Tables
<1>7. Quiet(p)
  BY <1>1, <1>2, <1>3, <1>4, <1>6 DEF PlainFrame, Quiet, uploadHistory
<1>8. req[p].op \in UploadOps => req[p].op \in {"UploadPartCopy", "Complete"}
  BY <1>2 DEF RequestOK, UploadControlAt
<1>9. UploadControlAt(req[p].op, pc'[p])
  BY <1>1 DEF PlainNext, PlainControl, UploadControlAt, Labels, SweepCalls, PartOps,
     CombineCalls, UploadOps, JobOps
<1>10. CASE pc'[p] = "done"
  <2>1. WorkerOK(p)'
    BY <1>2, <1>3, <1>4, <1>8, <1>10, DoneOK DEF UploadOps, JobOps
  <2>. QED
    BY <1>2, <1>7, <2>1, QuietKeeps DEF Labels
<1>11. CASE pc'[p] # "done"
  <2>1. pc'[p] \notin {"DocOpen", "DocWrite", "RemoveEntries", "PartsRead", "UploadsRead",
                       "PartRename"}
    BY <1>1 DEF PlainNext, Labels
  <2>2. req[p].op \in PartOps /\ pc'[p] \in PartCalls =>
            pc'[p] = "PartNumber" /\ got'[p].body # None
    BY <1>1 DEF PlainNext, PartCalls, Labels, PartOps
  <2>3. chunk'[p] # None => req[p].op = "Complete" /\ Path(p) \in folders
    BY <1>2, <1>4, <1>11 DEF FilesOK, Labels
  <2>4. pc[p] \notin {"DocOpen", "DocWrite", "RemoveEntries"}
    BY <1>2 DEF Labels
  <2>. QED
    BY <1>3, <1>5, <1>7, <1>8, <1>9, <1>11, <2>1, <2>2, <2>3, <2>4, GoesOn
       DEF UploadOps, JobOps
<1>. QED
  BY <1>10, <1>11

----------------------------------------------------------------------------
\* What a client may send: an object or bucket request, or a multipart call.
Sendable(r, j) == (r \in Requests /\ j = None) \/ (\E c \in Calls : r = c.req /\ j = c.job)

\* Where such a request starts, and with what in hand.
LEMMA FirstCallIs ==
    ASSUME NEW r, NEW j, Sendable(r, j)
    PROVE  LET first == FirstCall[r.op] IN
           /\ first \in Labels \cup UploadLabels
           /\ first \notin {"idle", "done", "DocOpen", "DocWrite", "RemoveEntries", "PartsRead",
                            "UploadsRead", "PartRename", "PartCopy"}
           /\ UploadControlAt(r.op, first)
           /\ r.op \in JobOps => /\ j # None /\ j.path \in Paths /\ "path" \in DOMAIN j
                                 /\ r.dst \in Objects
           /\ r.op \notin JobOps => j = None
           /\ r.op \in {"DeleteBucket", "ListUploads"} => r.bucket \in Buckets
           /\ r.op \in {"CreateUpload", "UploadPart"} => r.up \in Uploads
           /\ r.op \in PartOps /\ first \in PartCalls =>
                  first = "PartNumber" /\ r.op = "UploadPart"
           /\ r.op = "CreateUpload" => first = "UploadBucket"
<1>1. CASE r \in Requests /\ j = None
  <2>1. IsRequest(r) /\ r.op \in Ops
    BY <1>1, RequestsAssumption
  <2>2. r.op \in Ops /\ (r.op = "DeleteBucket" => r.bucket \in Buckets)
    BY <2>1 DEF IsRequest, BucketOps
  <2>3. r.op \notin UploadOps
    BY <2>2 DEF Ops, Readers, Writers, Deleters, BucketOps, UploadOps, JobOps
  <2>4. LET first == FirstCall[r.op] IN
        /\ first \in Labels \ {"idle", "done"}
        /\ first \in SweepCalls => r.op = "DeleteBucket"
    BY <2>2 DEF FirstCall, Ops, Readers, Writers, Deleters, BucketOps, Labels, SweepCalls
  <2>5. UploadControlAt(r.op, FirstCall[r.op])
    BY <2>3, <2>4 DEF UploadControlAt, Labels, CombineCalls
  <2>. QED
    BY <1>1, <2>2, <2>3, <2>4, <2>5 DEF Labels, UploadOps, JobOps, PartOps
<1>2. CASE \E c \in Calls : r = c.req /\ j = c.job
  <2>1. PICK c \in Calls : r = c.req /\ j = c.job /\ IsCall(c)
    BY <1>2, CallsAssumption
  <2>2. r.op \in UploadOps /\ r.bucket \in Buckets
    BY <2>1 DEF IsCall, IsRequest
  <2>3. r.op \in JobOps => /\ j # None /\ j.path \in Paths /\ "path" \in DOMAIN j
                           /\ r.dst \in Objects
    BY <2>1, <2>2 DEF IsCall, Jobs, Paths, ObjectsOf, Objects, JobOps
  <2>4. r.op \notin JobOps => j = None
    BY <2>1, <2>2 DEF IsCall, UploadOps
  <2>5. r.op \in {"CreateUpload", "UploadPart"} => r.up \in Uploads
    BY <2>1 DEF IsCall, IsRequest
  <2>6. FirstCall[r.op] = CASE r.op = "CreateUpload" -> "UploadBucket"
                            [] r.op = "UploadPart" -> "PartNumber"
                            [] r.op = "UploadPartCopy" -> "GetExists"
                            [] r.op = "ListUploads" -> "UploadsExists"
                            [] OTHER -> "UploadExists"
    BY <2>2 DEF FirstCall, UploadOps, JobOps
  <2>7. UploadControlAt(r.op, FirstCall[r.op])
    BY <2>2, <2>6 DEF UploadControlAt, UploadOps, JobOps, Labels, SweepCalls, CombineCalls,
       PartOps, ObjectGets
  <2>. QED
    BY <2>2, <2>3, <2>4, <2>5, <2>6, <2>7 DEF UploadOps, JobOps, Labels, UploadLabels, PartOps,
       PartCalls
<1>. QED
  BY <1>1, <1>2 DEF Sendable

\* A step between requests: no file and nothing that is kept changes, and
\* nobody gets more calm by it.
LEMMA BetweenRequests ==
    ASSUME PartsInv, NEW p \in Workers, Tables', WorkerOK(p)', CalmExclusive',
           Midway(p) = {},
           UNCHANGED <<folders, doc, partData, kept, unsure, chunk, unlinked>>,
           \A q \in Workers \ {p} :
               /\ pc'[q] = pc[q] /\ req'[q] = req[q] /\ got'[q] = got[q] /\ job'[q] = job[q]
               /\ scan'[q] = scan[q] /\ calm'[q] \subseteq calm[q]
    PROVE  PartsInv'
<1>1. ASSUME NEW q \in Workers \ {p} PROVE WorkerOK(q)'
  <2>1. pc[q] # "idle" => FilesOK(q)'
    <3>1. pc[q] # "idle" => FilesOK(q)
      BY DEF PartsInv, WorkerOK
    <3>. QED
      BY <3>1, FilesStay DEF FilesOK
  <2>2. StillThere(q, {}) /\ Outside({})
    BY DEF StillThere, Outside
  <2>. QED
    BY <2>1, <2>2, StillThereOK DEF PartsInv
<1>2. PartsSettled'
  <2>1. \A q \in Workers \ {p} : Midway(q)' = Midway(q)
    BY DEF Midway, Item, Path
  <2>. QED
    BY <2>1 DEF PartsInv, PartsSettled, ItemSettled
<1>3. InFolders' /\ SessionsKept'
  BY DEF PartsInv, InFolders, SessionsKept
<1>. QED
  BY <1>1, <1>2, <1>3 DEF PartsInv

\* A request begins.
LEMMA BeginUploadKeeps ==
    ASSUME PartsInv, NEW p \in Workers, NEW r, NEW j, Sendable(r, j), BeginUpload(p, r, j)
    PROVE  PartsInv'
<1> USE DEF BeginUpload, Begin
<1>1. /\ pc[p] = "idle" /\ pc'[p] = FirstCall[r.op] /\ req'[p] = r /\ job'[p] = j
      /\ chunk[p] = None /\ Midway(p) = {}
      /\ UNCHANGED <<folders, doc, partData, kept, unsure, chunk, unlinked, scan>>
      /\ DOMAIN req' = Workers /\ DOMAIN got' = Workers /\ DOMAIN job' = Workers
      /\ \A q \in Workers \ {p} :
             pc'[q] = pc[q] /\ req'[q] = req[q] /\ got'[q] = got[q] /\ job'[q] = job[q]
  BY DEF Goto, PartsInv, Tables, uploadDisk, WorkerOK, Midway
<1>2. /\ got'[p].body = r.up /\ got'[p].attrs = r.up /\ got'[p].listed = {}
      /\ DOMAIN got'[p] = DOMAIN Nothing
  BY DEF PartsInv, Tables, Nothing
<1>3. Concerns(r, j) \subseteq Items
  <2>1. CASE j # None
    <3>1. r.op \in JobOps /\ j.path \in Paths
      BY <2>1, FirstCallIs
    <3>2. Concerns(r, j) = ItemsOf(j.path)
      BY <2>1, <3>1 DEF Concerns, JobOps
    <3>. QED
      BY <3>1, <3>2, ItemFacts
  <2>2. CASE j = None
    BY <2>2, FirstCallIs, ItemsInFacts DEF Concerns
  <2>. QED
    BY <2>1, <2>2
<1>4. /\ calm' \in [Workers -> SUBSET Items]
      /\ \A q \in Workers \ {p} : calm'[q] = calm[q] \ Rewrites(r, j)
      /\ \A o \in Workers \ {p} : Active(o) => calm'[p] \cap Mine(o) = {}
  BY <1>3 DEF PartsInv, Tables, Mine
<1>5. Tables'
  <2>1. pc' \in [Workers -> Labels \cup UploadLabels]
    BY FirstCallIs DEF Goto, PartsInv, Tables
  <2>. QED
    BY <1>1, <1>2, <1>4, <2>1 DEF PartsInv, Tables
<1>6. CalmExclusive'
  <2>1. \A q \in Workers \ {p} : Mine(q)' = Mine(q) /\ (Active(q)' <=> Active(q))
    BY <1>1 DEF Mine, Active
  <2>2. Mine(p)' = Rewrites(r, j)
    BY <1>1 DEF Mine
  <2>3. ASSUME NEW o \in Workers, NEW q \in Workers, o # q, Active(q)'
        PROVE  calm'[o] \cap Mine(q)' = {}
    <3>1. CASE o = p
      BY <1>4, <2>1, <2>3, <3>1
    <3>2. CASE q = p
      BY <1>4, <2>2, <2>3, <3>2
    <3>3. CASE o # p /\ q # p
      BY <1>4, <2>1, <2>3, <3>3 DEF PartsInv, CalmExclusive, Mine
    <3>. QED
      BY <3>1, <3>2, <3>3
  <2>. QED
    BY <2>3 DEF CalmExclusive, Mine
<1>7. WorkerOK(p)'
  <2>1. RequestOK(p)'
    BY <1>1, <1>2, FirstCallIs, ValuesAssumption DEF RequestOK, Path, Dst, PartOps
  <2>2. FilesOK(p)' /\ HalfWritten(p)' /\ ListedSoFar(p)' /\ ListedExactly(p)'
    BY <1>1, <1>2, FirstCallIs DEF FilesOK, HalfWritten, ListedSoFar, ListedExactly, Answered
  <2>3. NewUpload(p)'
    <3> SUFFICES ASSUME r.op = "CreateUpload",
                        NEW x \in ItemsOf(j.path)
                 PROVE  doc[x] = None /\ (x \in Parts => partData[x] = None)
      BY <1>1 DEF NewUpload, Path
    <3>1. j.path \in Paths /\ j.path \notin folders
      BY FirstCallIs DEF Fresh, JobOps
    <3>. QED
      BY <3>1 DEF PartsInv, InFolders
  <2>. QED
    BY <1>1, <2>1, <2>2, <2>3, FirstCallIs DEF WorkerOK
<1>. QED
  BY <1>1, <1>4, <1>5, <1>6, <1>7, BetweenRequests

\* A request is answered.
LEMMA RespondUploadKeeps ==
    ASSUME PartsInv, NEW p \in Workers, RespondUpload(p)
    PROVE  PartsInv'
<1> USE DEF RespondUpload, Respond
<1>1. /\ pc[p] = "done" /\ pc'[p] = "idle" /\ calm'[p] = {} /\ Midway(p) = {}
      /\ UNCHANGED <<folders, doc, partData, kept, unsure, chunk, unlinked>>
      /\ \A q \in Workers \ {p} :
             /\ pc'[q] = pc[q] /\ req'[q] = req[q] /\ got'[q] = got[q] /\ job'[q] = job[q]
             /\ scan'[q] = scan[q] /\ calm'[q] = calm[q]
  BY DEF Goto, PartsInv, Tables, uploadDisk, Midway
<1>2. Tables'
  BY <1>1 DEF Goto, PartsInv, Tables, Labels, Nothing
<1>3. WorkerOK(p)'
  BY <1>1 DEF PartsInv, WorkerOK, FilesOK, Active
<1>4. CalmExclusive'
  <2>1. \A q \in Workers \ {p} : Mine(q)' = Mine(q) /\ (Active(q)' <=> Active(q))
    BY <1>1 DEF Mine, Active
  <2>2. ~Active(p)'
    BY <1>1 DEF Active
  <2>. QED
    BY <1>1, <2>1, <2>2 DEF PartsInv, CalmExclusive, Mine
<1>. QED
  BY <1>1, <1>2, <1>3, <1>4, BetweenRequests

\* An item that is midway for a worker is in flux for it.
LEMMA MidwayInFlux ==
    ASSUME PartsInv, NEW p \in Workers
    PROVE  Midway(p) \subseteq UploadFlux(p)
<1>1. pc[p] # "idle" => Midway(p) \subseteq Mine(p)
  BY MidwayIsMine DEF PartsInv, WorkerOK
<1>. QED
  BY <1>1 DEF Midway, UploadFlux, Mine

\* The process dies.
LEMMA CrashUploadKeeps ==
    ASSUME PartsInv, CrashUpload
    PROVE  PartsInv'
<1> USE DEF CrashUpload, Crash
<1> DEFINE torn == UNION {UploadFlux(p) : p \in Workers}
<1>1. torn \subseteq Items
  <2>1. ASSUME NEW p \in Workers PROVE UploadFlux(p) \subseteq Items
    <3>1. CASE pc[p] \in {"DocOpen", "DocWrite"}
      <4>1. UploadFlux(p) = Mine(p)
        BY <3>1 DEF UploadFlux, Mine
      <4>2. Mine(p) \subseteq Items
        BY <3>1, AtDocument, ItemFacts
      <4>. QED
        BY <4>1, <4>2
    <3>2. CASE pc[p] = "RemoveEntries"
      BY <3>2, AtRemoval DEF UploadFlux
    <3>3. CASE pc[p] \notin {"DocOpen", "DocWrite", "RemoveEntries"}
      BY <3>3 DEF UploadFlux
    <3>. QED
      BY <3>1, <3>2, <3>3
  <2>. QED
    BY <2>1
<1>2. /\ unsure' = unsure \cup torn /\ UNCHANGED <<folders, doc, partData>>
      /\ kept' = [y \in Items |-> IF y \in torn THEN None ELSE kept[y]]
      /\ \A p \in Workers : pc'[p] = "idle" /\ chunk'[p] = None /\ calm'[p] = {}
  BY DEF uploadDisk
<1>3. Tables'
  BY <1>1, <1>2 DEF PartsInv, Tables, Labels, Nothing
<1>4. \A p \in Workers : WorkerOK(p)'
  BY <1>2 DEF WorkerOK
<1>5. CalmExclusive'
  BY <1>2 DEF CalmExclusive
<1>6. PartsSettled'
  <2> SUFFICES ASSUME NEW x \in Items, x \notin unsure'
               PROVE  ItemSettled(x)'
    BY DEF PartsSettled
  <2>1. x \notin unsure /\ x \notin torn
    BY <1>2
  <2>2. \A p \in Workers : x \notin Midway(p)
    BY <2>1, MidwayInFlux
  <2>. QED
    BY <1>2, <2>1, <2>2 DEF PartsInv, PartsSettled, ItemSettled
<1>7. InFolders' /\ SessionsKept'
  BY <1>2 DEF PartsInv, InFolders, SessionsKept, Items
<1>. QED
  BY <1>3, <1>4, <1>5, <1>6, <1>7 DEF PartsInv

----------------------------------------------------------------------------
\* The server starts with the uploads that are under way in the directory.
LEMMA UploadInitKeeps ==
    ASSUME UploadInit
    PROVE  PartsInv
<1>1. /\ folders \subseteq Paths /\ unsure = {} /\ kept = doc
      /\ partData = [x \in Parts |-> doc[x]]
      /\ chunk = [p \in Workers |-> None] /\ job = [p \in Workers |-> None]
      /\ calm = [p \in Workers |-> {}]
      /\ InitWith({d[1] : d \in folders})
  BY DEF UploadInit
<1>2. /\ pc = [p \in Workers |-> "idle"] /\ DOMAIN req = Workers
      /\ got = [p \in Workers |-> Nothing] /\ DOMAIN scan = Workers
      /\ DOMAIN unlinked = Workers
  BY <1>1 DEF InitWith
<1>3. PICK state \in [folders -> Sessions],
           sent \in [folders \X (1..PartCount) -> Uploads \cup {None}] :
           doc = [x \in Items |-> IF x \in folders THEN state[x]
                                  ELSE IF x \in DOMAIN sent THEN sent[x] ELSE None]
  BY DEF UploadInit
<1>4. Tables
  BY <1>1, <1>2, <1>3 DEF Tables, Labels
<1>5. InFolders
  <2> SUFFICES ASSUME NEW d \in Paths, d \notin folders, NEW x \in ItemsOf(d)
               PROVE  doc[x] = None /\ (x \in Parts => partData[x] = None)
    BY DEF InFolders
  <2>1. CASE x = d
    BY <1>1, <1>3, <2>1, ItemFacts
  <2>2. CASE x # d
    <3>1. x \in Parts /\ x \notin folders /\ x \notin folders \X (1..PartCount)
      BY <1>1, <2>2, ItemFacts DEF ItemsOf
    <3>. QED
      BY <1>1, <1>3, <3>1, ItemFacts
  <2>. QED
    BY <2>1, <2>2
<1>6. CalmExclusive /\ (\A p \in Workers : WorkerOK(p))
  BY <1>1, <1>2 DEF CalmExclusive, WorkerOK
<1>7. PartsSettled
  BY <1>1 DEF PartsSettled, ItemSettled
<1>8. SessionsKept
  <2> SUFFICES ASSUME NEW d \in Paths
               PROVE  doc[d] \in Sessions \cup {None}
    BY <1>1 DEF SessionsKept
  <2>1. d \in Items /\ d \notin folders \X (1..PartCount)
    BY <1>1, ItemFacts DEF Items, Parts
  <2>. QED
    BY <1>3, <2>1
<1>. QED
  BY <1>4, <1>5, <1>6, <1>7, <1>8 DEF PartsInv

\* A call of a multipart request, or DeleteBucket's sweep of the uploads.
LEMMA UploadStepKeeps ==
    ASSUME PartsInv, NEW p \in Workers, UploadStep(p)
    PROVE  PartsInv'
<1>1. CASE UploadBucket(p) \/ UploadExists(p) \/ CompleteExists(p) \/ UploadsExists(p)
  BY <1>1, BucketKnownKeeps DEF UploadBucket, UploadExists, CompleteExists, UploadsExists
<1>2. CASE PartTemp(p)
  BY <1>2, CreateTempKeeps DEF PartTemp
<1>3. CASE UploadMkdir(p) \/ DocOpen(p) \/ DocWrite(p)
  BY <1>3, UploadMkdirKeeps, DocOpenKeeps, DocWriteKeeps
<1>4. CASE PartNumber(p) \/ UploadRead(p) \/ PartCopy(p) \/ PartRename(p)
  BY <1>4, PartNumberKeeps, UploadReadKeeps, PartCopyKeeps, PartRenameKeeps
<1>5. CASE \/ CombinedTemp(p) \/ CombineMeta(p) \/ CombineData(p) \/ CombinedOpen(p)
           \/ CompleteMeta(p)
  BY <1>5, CombinedTempKeeps, CombineMetaKeeps, CombineDataKeeps, CombinedOpenKeeps,
     CompleteMetaKeeps
<1>6. CASE \/ RemoveNames(p) \/ RemoveEntry(p) \/ RemoveFolder(p)
           \/ SweepUploads(p) \/ RmdirUploads(p)
  BY <1>6, RemoveNamesKeeps, RemoveEntryKeeps, RemoveFolderKeeps, SweepUploadsKeeps,
     RmdirUploadsKeeps
<1>7. CASE PartsScan(p) \/ PartsRead(p) \/ UploadsScan(p) \/ UploadsRead(p)
  BY <1>7, PartsScanKeeps, PartsReadKeeps, UploadsScanKeeps, UploadsReadKeeps
<1>. QED
  BY <1>1, <1>2, <1>3, <1>4, <1>5, <1>6, <1>7 DEF UploadStep

\* Every step of the server keeps the invariant.
LEMMA UploadNextKeeps ==
    ASSUME PartsInv, [UploadNext]_uploadVars
    PROVE  PartsInv'
<1>1. CASE UploadNext
  <2>1. CASE CrashUpload
    BY <2>1, CrashUploadKeeps
  <2>2. ASSUME NEW p \in Workers, PlainStep(p) \/ UploadStep(p) \/ RespondUpload(p)
        PROVE  PartsInv'
    BY <2>2, PlainKeeps, UploadStepKeeps, RespondUploadKeeps
  <2>3. ASSUME NEW p \in Workers, NEW r \in Requests, BeginUpload(p, r, None)
        PROVE  PartsInv'
    BY <2>3, BeginUploadKeeps DEF Sendable
  <2>4. ASSUME NEW p \in Workers, NEW c \in Calls, BeginUpload(p, c.req, c.job)
        PROVE  PartsInv'
    <3>1. Sendable(c.req, c.job)
      BY DEF Sendable
    <3>. QED
      BY <2>4, <3>1, BeginUploadKeeps
  <2>. QED
    BY <1>1, <2>1, <2>2, <2>3, <2>4 DEF UploadNext
<1>2. CASE UNCHANGED uploadVars
  <2>1. /\ UNCHANGED <<pc, req, got, scan, unlinked, chunk, job>>
        /\ UNCHANGED <<folders, doc, partData, kept, unsure, calm>>
    BY <1>2 DEF uploadVars, vars, uploadDisk, uploadHistory
  <2>2. Tables' /\ InFolders' /\ SessionsKept' /\ CalmExclusive'
    BY <2>1 DEF PartsInv, Tables, InFolders, SessionsKept, CalmExclusive, Active
  <2>3. PartsSettled'
    <3>1. \A p \in Workers : Midway(p)' = Midway(p)
      BY <2>1 DEF Midway, Item, Path
    <3>. QED
      BY <2>1, <3>1 DEF PartsInv, PartsSettled, ItemSettled
  <2>4. ASSUME NEW p \in Workers PROVE WorkerOK(p)'
    <3>1. pc[p] # "idle" => FilesOK(p)'
      BY <2>1, FilesStay DEF PartsInv, WorkerOK, FilesOK
    <3>2. StillThere(p, {}) /\ Outside({})
      BY <2>1 DEF StillThere, Outside
    <3>. QED
      BY <3>1, <3>2, StillThereOK DEF PartsInv
  <2>. QED
    BY <2>2, <2>3, <2>4 DEF PartsInv
<1>. QED
  BY <1>1, <1>2

\* Behind the two properties: whose items a request may write, what it has
\* written and read so far, and that all else is as it was left.
THEOREM PartsInvariant == UploadSpec => []PartsInv
BY UploadInitKeeps, UploadNextKeeps, PTL DEF UploadSpec

\* Whatever two requests or a crash do in between, an upload directory holds
\* what the last request that nothing disturbed left there: a part's data and
\* the ETag beside it never drift apart.
THEOREM PartsHoldCorrect == UploadSpec => []PartsHold
<1>1. PartsInv => PartsHold
  <2> SUFFICES ASSUME PartsInv, NEW x \in Items \ unsure,
                      \A p \in Workers : x \notin UploadFlux(p)
               PROVE  doc[x] = kept[x] /\ (x \in Parts => partData[x] = kept[x])
    BY DEF PartsHold
  <2>1. \A p \in Workers : x \notin Midway(p)
    BY MidwayInFlux
  <2>. QED
    BY <2>1 DEF PartsInv, PartsSettled, ItemSettled
<1>. QED
  BY <1>1, PartsInvariant, PTL

\* ListParts and ListMultipartUploads, which read one file after the other
\* without a lock, answer what undisturbed requests left: nothing is missing,
\* nothing is listed that is gone, no entry shows an older state.
THEOREM UploadListingsAreExactCorrect == UploadSpec => []UploadListingsAreExact
<1>1. PartsInv => UploadListingsAreExact
  <2> SUFFICES ASSUME PartsInv, NEW p \in Workers
               PROVE  ListedExactly(p)
    BY DEF UploadListingsAreExact, ListedExactly
  <2>. QED
    BY DEF PartsInv, WorkerOK, ListedExactly, Answered
<1>. QED
  BY <1>1, PartsInvariant, PTL

=============================================================================
