---------------------------- MODULE BucketStore ----------------------------
(***************************************************************************)
(* The bucket requests: one action per file-system call of CreateBucket,   *)
(* DeleteBucket, BucketExists, GetBucketLocation and ListBuckets of        *)
(* storage/fs.  A bucket exists when its .bucket.json does; its directory  *)
(* and its registry entry are made and removed by separate calls.          *)
(***************************************************************************)
EXTENDS DataDir

Bucket(p) == req[p].bucket

----------------------------------------------------------------------------
CreateStat(p) ==
    /\ pc[p] = "CreateStat"
    /\ \/ BucketExists(Bucket(p)) /\ Fail(p, "BucketAlreadyExists")
       \/ ~BucketExists(Bucket(p)) /\ Goto(p, "CreateDir") /\ UNCHANGED got
    /\ Look /\ UNCHANGED scan

MakeDirectory(p, label, name, next) ==
    /\ pc[p] = label
    /\ Goto(p, next)
    /\ dirs' = [dirs EXCEPT ![Bucket(p)] = @ \cup {name}]
    /\ UNCHANGED <<bucketFile, data, meta, litter, history,
                   req, got, temp, todo, scan, unlinked>>

CreateDir(p) == MakeDirectory(p, "CreateDir", "bucket", "CreateRegistry")
CreateRegistry(p) == MakeDirectory(p, "CreateRegistry", "registry", "CreateOpen")

\* os.WriteFile, first half.  Nothing excludes a second CreateBucket.
CreateOpen(p) ==
    /\ pc[p] = "CreateOpen"
    /\ \/ /\ "registry" \in dirs[Bucket(p)]
          /\ bucketFile' = [bucketFile EXCEPT ![Bucket(p)] = Empty]
          /\ unlinked' = [unlinked EXCEPT ![p] = FALSE]
          /\ Disturb(p, {Bucket(p)})
          /\ Goto(p, "CreateWrite")
          /\ UNCHANGED got
       \/ /\ "registry" \notin dirs[Bucket(p)]
          /\ Fail(p, "InternalError")
          /\ UNCHANGED <<bucketFile, unlinked, history>>
    /\ UNCHANGED <<dirs, data, meta, litter, req, temp, todo, scan>>

\* os.WriteFile, second half.
CreateWrite(p) ==
    /\ pc[p] = "CreateWrite"
    /\ \/ /\ \/ unlinked[p] /\ UNCHANGED bucketFile
             \/ /\ ~unlinked[p]
                /\ \E doc \in Written(bucketFile[Bucket(p)], Registered) :
                       bucketFile' = [bucketFile EXCEPT ![Bucket(p)] = doc]
          /\ Commit(p, {Bucket(p)}, Registered)
          /\ Succeed(p)
       \/ /\ "write" \in Faults
          /\ \/ UNCHANGED bucketFile
             \/ /\ ~unlinked[p]
                /\ bucketFile' = [bucketFile EXCEPT ![Bucket(p)] = Garbled]
          /\ Spoil({Bucket(p)})
          /\ Fail(p, "InternalError")
    /\ unlinked' = [unlinked EXCEPT ![p] = FALSE]
    /\ UNCHANGED <<dirs, data, meta, litter, req, temp, todo, scan>>

----------------------------------------------------------------------------
(***************************************************************************)
(* DeleteBucket: look for the directory, look for objects, remove the      *)
(* directory tree, remove the registry entry.                              *)
(***************************************************************************)
DeleteStat(p) ==
    /\ pc[p] = "DeleteStat"
    /\ \/ "bucket" \in dirs[Bucket(p)] /\ Goto(p, "DeleteScan") /\ UNCHANGED got
       \/ "bucket" \notin dirs[Bucket(p)] /\ Fail(p, "NoSuchBucket")
    /\ Look /\ UNCHANGED scan

\* Whatever is in the bucket (a mutant).
DeleteScan_Unchecked(p) ==
    pc[p] = "DeleteScan" /\ Goto(p, "RemoveList") /\ UNCHANGED <<got, scan>> /\ Look

\* ReadDir of .objects: temp files of running and of dead requests count.
DeleteScan(p) ==
    /\ pc[p] = "DeleteScan"
    /\ \/ ObjectsEntries(Bucket(p)) /\ Fail(p, "BucketNotEmpty")
       \/ ~ObjectsEntries(Bucket(p)) /\ Goto(p, "RemoveList") /\ UNCHANGED got
    /\ Look /\ UNCHANGED scan

\* os.RemoveAll reads the names in the directory once.
RemoveList(p) ==
    /\ pc[p] = "RemoveList"
    /\ scan' = [scan EXCEPT ![p] = dirs[Bucket(p)] \cap SubDirs]
    /\ Goto(p, "RemoveFiles")
    /\ Look /\ UNCHANGED got

\* It empties each subdirectory, in no particular order, ...
RemoveObjects(p) ==
    /\ pc[p] = "RemoveFiles" /\ "objects" \in scan[p]
    /\ data' = [a \in Objects |-> IF a[1] = Bucket(p) THEN None ELSE data[a]]
    /\ temp' = [q \in Workers |->
                   IF temp[q] # None /\ req[q].dst[1] = Bucket(p) THEN None ELSE temp[q]]
    /\ litter' = litter \ {Bucket(p)}
    /\ Disturb(p, ObjectsOf(Bucket(p)))
    /\ Goto(p, "RmdirObjects")
    /\ UNCHANGED <<bucketFile, dirs, meta, req, got, todo, scan, unlinked>>

RemoveMetadata(p) ==
    /\ pc[p] = "RemoveFiles" /\ "metadata" \in scan[p]
    /\ meta' = [a \in Objects |-> IF a[1] = Bucket(p) THEN None ELSE meta[a]]
    /\ LoseFiles(ObjectsOf(Bucket(p)))
    /\ Commit(p, ObjectsOf(Bucket(p)), None)
    /\ Goto(p, "RmdirMetadata")
    /\ UNCHANGED <<bucketFile, dirs, data, litter, req, got, temp, todo, scan>>

\* ... and removes it, unless a request put a new file there.  RemoveAll
\* goes on with the other entries and reports the error at the end.
RemoveSubdirectory(p, label, name, refilled) ==
    /\ pc[p] = label
    /\ dirs' = IF refilled THEN dirs
                           ELSE [dirs EXCEPT ![Bucket(p)] = @ \ {name}]
    /\ scan' = [scan EXCEPT ![p] = @ \ {name}]
    /\ Goto(p, "RemoveFiles")
    /\ UNCHANGED <<bucketFile, data, meta, litter, history,
                   req, got, temp, todo, unlinked>>

RmdirObjects(p) ==
    RemoveSubdirectory(p, "RmdirObjects", "objects", ObjectsEntries(Bucket(p)))

RmdirMetadata(p) ==
    RemoveSubdirectory(p, "RmdirMetadata", "metadata",
                       \E a \in ObjectsOf(Bucket(p)) : meta[a] # None)

\* The registry entry is forgotten (a mutant).
RmdirBucket_KeepsRegistry(p) ==
    /\ pc[p] = "RemoveFiles" /\ scan[p] = {}
    /\ dirs' = [dirs EXCEPT ![Bucket(p)] = @ \ {"bucket"}]
    /\ Succeed(p)
    /\ UNCHANGED <<bucketFile, data, meta, litter, history,
                   req, temp, todo, scan, unlinked>>

RmdirBucket(p) ==
    /\ pc[p] = "RemoveFiles" /\ scan[p] = {}
    /\ \/ /\ dirs[Bucket(p)] \cap SubDirs = {}
          /\ dirs' = [dirs EXCEPT ![Bucket(p)] = @ \ {"bucket"}]
          /\ Disturb(p, {Bucket(p)})
          /\ Goto(p, "RegistryUnlink")
          /\ UNCHANGED got
       \/ /\ dirs[Bucket(p)] \cap SubDirs # {}
          /\ Fail(p, "InternalError")
          /\ UNCHANGED <<dirs, history>>
    /\ UNCHANGED <<bucketFile, data, meta, litter, req, temp, todo, scan, unlinked>>

\* The second RemoveAll: .bucket.json, then the directory it is in.
RegistryUnlink(p) ==
    /\ pc[p] = "RegistryUnlink"
    /\ bucketFile' = [bucketFile EXCEPT ![Bucket(p)] = None]
    /\ unlinked' = [q \in Workers |-> unlinked[q] \/
                       (pc[q] = "CreateWrite" /\ Bucket(q) = Bucket(p))]
    /\ Commit(p, {Bucket(p)}, None)
    /\ Goto(p, "RegistryRmdir")
    /\ UNCHANGED <<dirs, data, meta, litter, req, got, temp, todo, scan>>

RegistryRmdir(p) ==
    /\ pc[p] = "RegistryRmdir"
    /\ \/ /\ bucketFile[Bucket(p)] = None
          /\ dirs' = [dirs EXCEPT ![Bucket(p)] = @ \ {"registry"}]
          /\ Succeed(p)
       \/ /\ bucketFile[Bucket(p)] # None
          /\ Fail(p, "InternalError")
          /\ UNCHANGED dirs
    /\ UNCHANGED <<bucketFile, data, meta, litter, history,
                   req, temp, todo, scan, unlinked>>

----------------------------------------------------------------------------
HeadBucketStat(p) ==
    /\ pc[p] = "HeadBucketStat"
    /\ \/ BucketExists(Bucket(p)) /\ Succeed(p)
       \/ ~BucketExists(Bucket(p)) /\ Fail(p, "NoSuchBucket")
    /\ Look /\ UNCHANGED scan

LocationRead(p) ==
    /\ pc[p] = "LocationRead"
    /\ \/ bucketFile[Bucket(p)] = Registered /\ Succeed(p)
       \/ bucketFile[Bucket(p)] = None /\ Fail(p, "NoSuchBucket")
       \/ bucketFile[Bucket(p)] \in {Empty, Garbled} /\ Fail(p, "InternalError")
    /\ Look /\ UNCHANGED scan

\* ListBuckets walks the directories and skips those without a readable
\* .bucket.json.
BucketsScan(p) ==
    /\ pc[p] = "BucketsScan"
    /\ scan' = [scan EXCEPT ![p] = {b \in Buckets : "bucket" \in dirs[b]}]
    /\ Goto(p, "BucketsRead")
    /\ Look /\ UNCHANGED got

\* Directories without a registry entry are listed (a mutant).
BucketsRead_NoSkip(p) ==
    /\ pc[p] = "BucketsRead"
    /\ scan' = [scan EXCEPT ![p] = {}]
    /\ got' = [got EXCEPT ![p].listed = scan[p], ![p].code = "OK"]
    /\ Goto(p, "done")
    /\ Look

BucketsRead(p) ==
    /\ pc[p] = "BucketsRead"
    /\ \/ \E b \in scan[p] :
             /\ scan' = [scan EXCEPT ![p] = @ \ {b}]
             /\ got' = [got EXCEPT ![p].listed =
                           IF bucketFile[b] = Registered THEN @ \cup {b} ELSE @]
             /\ UNCHANGED pc
       \/ scan[p] = {} /\ Succeed(p) /\ UNCHANGED scan
    /\ Look

BucketStep(p) ==
    \/ CreateStat(p) \/ CreateDir(p) \/ CreateRegistry(p)
    \/ CreateOpen(p) \/ CreateWrite(p)
    \/ DeleteStat(p) \/ DeleteScan(p) \/ RemoveList(p)
    \/ RemoveObjects(p) \/ RemoveMetadata(p)
    \/ RmdirObjects(p) \/ RmdirMetadata(p) \/ RmdirBucket(p)
    \/ RegistryUnlink(p) \/ RegistryRmdir(p)
    \/ HeadBucketStat(p) \/ LocationRead(p) \/ BucketsScan(p) \/ BucketsRead(p)

=============================================================================
