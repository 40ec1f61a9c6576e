-------------------------- MODULE BackendRequests --------------------------
(***************************************************************************)
(* What the answers say, for every request: Spec => []AnswersInv, and the  *)
(* properties of Backend about answers.                                    *)
(*                                                                         *)
(* AnswersAt(q) can change in two ways.  Another worker moves, a request   *)
(* begins or ends: then q and what is quiet for it stand still (Still,     *)
(* StillKeeps).  Or q makes its next call: a lemma for each kind of        *)
(* request goes through the calls of that kind.                            *)
(***************************************************************************)
EXTENDS BackendAcked, BackendAnswers

USE DEF GetCalls, PutCalls, HeadCalls, DelCalls, ListCalls, CreateCalls,
        RemoveCalls, DeleteCalls, LookCalls, FluxCalls, InHand

----------------------------------------------------------------------------
(***************************************************************************)
(* The others move.                                                        *)
(***************************************************************************)
\* q does not move, and neither does what is quiet for it.
Still(q) ==
    /\ pc'[q] = pc[q] /\ req'[q] = req[q] /\ got'[q] = got[q]
    /\ todo'[q] = todo[q] /\ scan'[q] = scan[q]
    /\ quiet'[q] \subseteq quiet[q]
    /\ \A x \in quiet'[q] :
          /\ acked'[x] = acked[x] /\ (x \in dirty' <=> x \in dirty)
          /\ x \in litter => x \in litter'
          /\ x \in Objects => /\ data'[x] = data[x]
                              /\ BucketExists(x[1]) => BucketExists(x[1])'

\* Of the calls only DeleteBucket's sweep removes the temp files of the dead.
LEMMA StepLitter ==
    ASSUME NEW p \in Workers, Step(p)
    PROVE  RemoveObjects(p) \/ litter' = litter
<1>1. CASE ObjectStep(p)
  BY <1>1 DEF ObjectStep, GetExists, GetMeta, GetOpen, PutExists, PutMkdir, PutTemp, PutCopy,
     PutRename, MetaMkdir, MetaOpen, MetaWrite, CopyMeta, HeadExists, HeadMeta,
     ManyExists, DelExists, DelData, DelMeta, ListExists, ListScan, ListRead, Look, disk
<1>2. CASE BucketStep(p)
  BY <1>2 DEF BucketStep, CreateStat, CreateDir, CreateRegistry, MakeDirectory,
     CreateOpen, CreateWrite, DeleteStat, DeleteScan, RemoveList, RemoveMetadata,
     RmdirObjects, RmdirMetadata, RemoveSubdirectory, RmdirBucket, RegistryUnlink,
     RegistryRmdir, HeadBucketStat, LocationRead, BucketsScan, BucketsRead, Look, disk
<1>. QED
  BY <1>1, <1>2 DEF Step

\* A call of another worker leaves alone what is quiet for q.  While an object
\* is, its bucket is not deleted: that would mutate the object.
LEMMA StillStep ==
    ASSUME IInv, NEW p \in Workers, NEW q \in Workers \ {p}, Step(p)
    PROVE  Still(q)
<1>1. PICK S \in SUBSET Resources : Effect(p, S)
  BY StepPays DEF Pays
<1>2. quiet[q] \cap Mutates(req[p]) = {} /\ S \subseteq Mutates(req[p])
  BY <1>1 DEF Effect, IInv, Exclusive
<1>3. quiet' = quiet /\ quiet[q] \subseteq Resources /\ req' = req
  BY <1>1 DEF Effect, IInv, TypeInv, TypesOK, HistoryTypeOK
<1>4. ASSUME NEW x \in quiet[q]
      PROVE  /\ acked'[x] = acked[x] /\ (x \in dirty' <=> x \in dirty)
             /\ x \in Objects => data'[x] = data[x]
  BY <1>1, <1>2, <1>3, <1>4 DEF Effect, SameFiles
<1>5. ASSUME NEW x \in quiet[q], x \in Objects, bucketFile[x[1]] # None
      PROVE  bucketFile'[x[1]] # None
  <2>1. x[1] \in Buckets /\ x[1] \in Resources /\ x \in ObjectsOf(x[1])
    BY <1>5 DEF Objects, ObjectsOf, Resources
  <2>2. CASE x[1] \notin S
    BY <1>1, <1>5, <2>1, <2>2 DEF Effect, SameFiles
  <2>3. CASE x[1] \in S /\ req[p].op # "DeleteBucket"
    BY <1>1, <1>5, <2>1, <2>3 DEF Effect
  <2>4. CASE x[1] \in S /\ req[p].op = "DeleteBucket"
    <3>1. IsRequest(req[p])
      BY <1>1, RequestOf DEF Effect, Active, IInv
    <3>2. req[p].bucket \in Buckets /\ req[p].dels = <<>>
      BY <2>4, <3>1 DEF IsRequest, BucketOps, Deleters
    <3>3. Mutates(req[p]) = {req[p].bucket} \cup ObjectsOf(req[p].bucket)
      BY <2>4, <3>2 DEF Mutates, Range, Writers
    <3>4. ObjectsOf(req[p].bucket) \subseteq Objects
      BY <3>2 DEF Objects, ObjectsOf
    <3>5. x[1] = req[p].bucket
      BY <1>2, <2>1, <2>4, <3>3, <3>4, NamesAssumption
    <3>. QED
      BY <1>2, <2>1, <3>3, <3>5
  <2>. QED
    BY <2>2, <2>3, <2>4
<1>6. ASSUME NEW x \in quiet[q], x \in litter
      PROVE  x \in litter'
  <2>1. CASE RemoveObjects(p)
    BY <1>2, <1>6, <2>1, OwnTargets DEF RemoveObjects, IInv
  <2>2. CASE litter' = litter
    BY <1>6, <2>2
  <2>3. RemoveObjects(p) \/ litter' = litter
    BY StepLitter
  <2>. QED
    BY <2>1, <2>2, <2>3
<1>. QED
  BY <1>1, <1>3, <1>4, <1>5, <1>6 DEF Still, Effect, BucketExists

\* A request that begins takes what it mutates out of the quiet of q.
LEMMA StillBegin ==
    ASSUME IInv, NEW p \in Workers, NEW q \in Workers \ {p},
           (\E r : IsRequest(r) /\ Begin(p, r)) \/ Respond(p)
    PROVE  Still(q)
<1>1. /\ DOMAIN pc = Workers /\ DOMAIN req = Workers /\ DOMAIN got = Workers
      /\ DOMAIN todo = Workers /\ DOMAIN scan = Workers /\ DOMAIN quiet = Workers
  BY DEF IInv, TypeInv, TypesOK, ServersOK, HistoryTypeOK
<1>2. UNCHANGED <<acked, dirty, data, bucketFile, litter>>
  BY DEF Begin, Respond, disk
<1>3. quiet'[q] \subseteq quiet[q]
  <2>1. CASE Respond(p)
    BY <1>1, <2>1 DEF Respond
  <2>2. ASSUME NEW r, IsRequest(r), Begin(p, r)
        PROVE  quiet'[q] \subseteq quiet[q]
    BY <2>2 DEF Begin
  <2>. QED
    BY <2>1, <2>2
<1>4. /\ pc'[q] = pc[q] /\ req'[q] = req[q] /\ got'[q] = got[q]
      /\ todo'[q] = todo[q] /\ scan'[q] = scan[q]
  <2>1. CASE Respond(p)
    BY <1>1, <2>1 DEF Respond, Goto
  <2>2. ASSUME NEW r, IsRequest(r), Begin(p, r)
        PROVE  /\ pc'[q] = pc[q] /\ req'[q] = req[q] /\ got'[q] = got[q]
               /\ todo'[q] = todo[q] /\ scan'[q] = scan[q]
    BY <1>1, <2>2 DEF Begin, Goto
  <2>. QED
    BY <2>1, <2>2
<1>. QED
  BY <1>2, <1>3, <1>4 DEF Still, BucketExists

\* What a worker has in hand stays true while it and what is quiet for it
\* stand still.
LEMMA StillKeeps ==
    ASSUME IInv, NEW q \in Workers, Still(q), pc[q] # "idle", AnswersAt(q)
    PROVE  AnswersAt(q)'
<1> USE DEF Still
<1>1. IsRequest(req[q])
  BY RequestOf DEF IInv
<1>2. /\ req[q].op \in Readers \cup Writers \cup {"Delete"} =>
             req[q].src \in Objects /\ req[q].dst \in Objects
      /\ req[q].op = "DeleteBucket" => ObjectsOf(req[q].bucket) \subseteq Objects
  BY <1>1 DEF IsRequest, BucketOps, Objects, ObjectsOf
<1>3. ReadsAt(q)'
  BY DEF AnswersAt, ReadsAt, Undirtied
<1>4. PutAt(q)'
  BY <1>2 DEF AnswersAt, PutAt, Sent, Writers
<1>5. DeletesAt(q)'
  BY DEF AnswersAt, DeletesAt
<1>6. CopyAt(q)'
  BY DEF AnswersAt, CopyAt, Answered
<1>7. ListingAt(q)'
  BY DEF AnswersAt, ListingAt, ShownOf, ListedOf, Answered
<1>8. BucketAt(q)'
  BY <1>2 DEF AnswersAt, BucketAt, Answered, Undisturbed
<1>. QED
  BY <1>3, <1>4, <1>5, <1>6, <1>7, <1>8 DEF AnswersAt

----------------------------------------------------------------------------
(***************************************************************************)
(* What a worker finds on disk of what is quiet for it.                    *)
(***************************************************************************)
\* Of an object nothing disturbs, the files show the acknowledged version.
LEMMA ObjectFound ==
    ASSUME IInv, NEW p \in Workers, NEW x \in Objects,
           x \in quiet[p], x \notin dirty, x \notin Flux(p)
    PROVE  /\ acked[x] = None => data[x] = None /\ meta[x] = None
           /\ acked[x] # None => /\ data[x] \in Bodies /\ meta[x] \in Documents
                                 /\ acked[x] = Version(data[x], meta[x])
                                 /\ acked[x].body = data[x]
                                 /\ acked[x].etag = meta[x].etag
                                 /\ acked[x].attrs = meta[x].attrs
           /\ None \notin Documents \cup Bodies
<1>1. Settled(x)
  BY QuietAlone DEF IInv, DiskInv, AckedStateHolds, Resources
<1>. QED
  BY <1>1, NamesAssumption, ValuesAssumption DEF Settled, Version

\* Of a bucket nothing disturbs, .bucket.json is there and whole, or not there.
LEMMA BucketFound ==
    ASSUME IInv, NEW p \in Workers, NEW b \in Buckets,
           b \in quiet[p], b \notin dirty, b \notin Flux(p)
    PROVE  /\ bucketFile[b] = acked[b] /\ acked[b] \in {None, Registered}
           /\ acked[b] = Registered => "bucket" \in dirs[b]
           /\ None # Registered
<1>1. Settled(b)
  BY QuietAlone DEF IInv, DiskInv, AckedStateHolds, Resources
<1>2. /\ bucketFile[b] \in {None, Empty, Garbled, Registered}
      /\ acked[b] \in Versions \cup {None, Registered}
  BY DEF IInv, TypeInv, TypesOK, DiskTypeOK, HistoryTypeOK, Resources
<1>. QED
  BY <1>1, <1>2, ValuesAssumption DEF Settled

\* What stays the same when p makes a call.
LEMMA OwnStep ==
    ASSUME IInv, NEW p \in Workers, Step(p)
    PROVE  /\ Active(p) /\ pc[p] \in Labels \ {"idle", "done"}
           /\ req' = req /\ quiet' = quiet
           /\ IsRequest(req[p])
           /\ ControlAt(req[p].op, pc[p]) /\ InHand(pc[p], got[p])
           /\ IsAnswer(got[p]) /\ p \in DOMAIN got /\ p \in DOMAIN pc
           /\ p \in DOMAIN todo /\ p \in DOMAIN scan
<1>1. PICK S \in SUBSET Resources : Effect(p, S)
  BY StepPays DEF Pays
<1>2. Active(p) /\ req' = req /\ quiet' = quiet
  BY <1>1 DEF Effect
<1>3. IsRequest(req[p])
  BY <1>2, RequestOf DEF Active, IInv
<1>4. pc[p] \in Labels
  BY DEF Labels, Step, ObjectStep, BucketStep, GetExists, GetMeta, GetOpen, PutExists, PutMkdir,
     PutTemp, PutCopy, PutRename, MetaMkdir, MetaOpen, MetaWrite, CopyMeta, HeadExists,
     HeadMeta, ManyExists, DelExists, DelData, DelMeta, ListExists, ListScan, ListRead,
     CreateStat, CreateDir, CreateRegistry, MakeDirectory, CreateOpen, CreateWrite,
     DeleteStat, DeleteScan, RemoveList, RemoveObjects, RemoveMetadata, RmdirObjects,
     RmdirMetadata, RemoveSubdirectory, RmdirBucket, RegistryUnlink, RegistryRmdir,
     HeadBucketStat, LocationRead, BucketsScan, BucketsRead
<1>. QED
  BY <1>2, <1>3, <1>4 DEF Active, IInv, TypeInv, TypesOK, ServersOK, ControlOK, BodiesOK

----------------------------------------------------------------------------
(***************************************************************************)
(* The worker makes a call.                                                *)
(***************************************************************************)
\* GetObject and HeadObject: each call finds what was acknowledged.
LEMMA ReadsStep ==
    ASSUME IInv, NEW p \in Workers, Step(p), ReadsAt(p)
    PROVE  ReadsAt(p)'
<1> DEFINE a == req[p].src
           alone == {a, a[1]} \subseteq quiet[p] \ dirty
<1>1. SUFFICES ASSUME req[p].op \in Readers PROVE ReadsAt(p)'
  BY OwnStep DEF ReadsAt
<1>2. /\ pc[p] \in {"GetExists", "GetMeta", "GetOpen", "HeadExists", "HeadMeta"}
      /\ pc[p] \in GetCalls => req[p].op = "Get"
      /\ pc[p] \in HeadCalls => req[p].op = "Head"
      /\ req' = req /\ quiet' = quiet
      /\ IsAnswer(got[p]) /\ p \in DOMAIN got /\ p \in DOMAIN pc
  BY <1>1, OwnStep DEF Readers, Writers, Deleters, BucketOps, ControlAt, Labels
<1>3. a \in Objects /\ a[1] \in Buckets /\ req[p].dst = a
  BY <1>1, OwnStep DEF IsRequest, Objects, Writers
<1>4. /\ GetExists(p) \/ GetMeta(p) \/ GetOpen(p) \/ HeadExists(p) \/ HeadMeta(p)
      /\ acked' = acked /\ dirty' = dirty
  BY <1>2, StepCalls DEF GetExists, GetMeta, GetOpen, HeadExists, HeadMeta, Look, history
<1>5. alone => /\ acked[a] = None => data[a] = None /\ meta[a] = None
               /\ acked[a] # None => /\ data[a] \in Bodies /\ meta[a] \in Documents
                                     /\ acked[a] = Version(data[a], meta[a])
                                     /\ acked[a].body = data[a]
                                     /\ acked[a].etag = meta[a].etag
                                     /\ acked[a].attrs = meta[a].attrs
               /\ None \notin Documents \cup Bodies
               /\ bucketFile[a[1]] = acked[a[1]]
  BY <1>2, <1>3, ObjectFound, BucketFound, NoFlux
<1> HIDE DEF a
<1>6. CASE GetExists(p)
  BY <1>1, <1>2, <1>3, <1>4, <1>5, <1>6
     DEF ReadsAt, GetExists, Goto, Fail, Finish, Nothing, BucketExists, Src,
         Undirtied, a, Readers
<1>7. CASE GetMeta(p)
  <2>1. pc[p] = "GetMeta" /\ Src(p) = a
    BY <1>7 DEF GetMeta, Src, a
  <2>2. CASE ReadDocument(p, a)
    <3>1. /\ pc' = [pc EXCEPT ![p] = "done"] /\ meta[a] \notin Documents
          /\ got'[p].code = IF meta[a] = None THEN "NoSuchKey" ELSE "InternalError"
      BY <1>1, <1>2, <2>2
         DEF ReadDocument, Missing, Goto, Fail, Finish, Nothing, Readers
    <3>. QED
      BY <1>1, <1>2, <1>4, <1>5, <2>1, <3>1 DEF ReadsAt, Undirtied, a
  <2>3. CASE ~ReadDocument(p, a)
    <3>1. /\ pc' = [pc EXCEPT ![p] = "GetOpen"] /\ meta[a] \in Documents
          /\ got'[p].etag = meta[a].etag /\ got'[p].attrs = meta[a].attrs
      BY <1>2, <1>7, <2>1, <2>3 DEF GetMeta, Goto, IsAnswer, AnswersWith
    <3>2. pc'[p] = "GetOpen"
      BY <1>2, <3>1
    <3>. QED
      BY <1>1, <1>2, <1>4, <1>5, <2>1, <3>1, <3>2, ValuesAssumption
         DEF ReadsAt, Undirtied, a
  <2>. QED
    BY <2>2, <2>3
<1>8. CASE GetOpen(p)
  <2>1. pc[p] = "GetOpen" /\ Src(p) = a /\ req[p].op = "Get"
    BY <1>2, <1>8 DEF GetOpen, Src, a
  <2>2. pc'[p] = "done"
    BY <1>2, <1>8, <2>1 DEF GetOpen, Goto, Fail, Finish
  <2>3. alone => /\ acked[a[1]] # None /\ acked[a] # None
                 /\ got[p].etag = acked[a].etag /\ got[p].attrs = acked[a].attrs
    BY <1>1, <2>1 DEF ReadsAt, Undirtied, a
  <2>4. CASE data[a] = None
    <3>1. ~alone
      BY <1>5, <2>3, <2>4
    <3>. QED
      BY <1>2, <1>4, <2>2, <3>1 DEF ReadsAt, Undirtied, a
  <2>5. CASE data[a] # None
    <3>1. got' = [got EXCEPT ![p] = [got[p] EXCEPT !.body = data[a], !.code = "OK"]]
      BY <1>8, <2>1, <2>5 DEF GetOpen, Finish
    <3>2. /\ got'[p].code = "OK" /\ got'[p].body = data[a]
          /\ got'[p].etag = got[p].etag /\ got'[p].attrs = got[p].attrs
      BY <1>2, <3>1 DEF IsAnswer, AnswersWith
    <3>3. alone => [body |-> got'[p].body, etag |-> got'[p].etag, attrs |-> got'[p].attrs]
                       = acked[a]
      BY <1>5, <2>3, <3>2 DEF Version
    <3>. QED
      BY <1>2, <1>4, <2>1, <2>2, <2>3, <3>2, <3>3 DEF ReadsAt, Undirtied, a
  <2>. QED
    BY <2>4, <2>5
<1>9. CASE HeadExists(p)
  BY <1>1, <1>2, <1>3, <1>4, <1>5, <1>9
     DEF ReadsAt, HeadExists, Goto, Fail, Finish, Nothing, BucketExists, Dst,
         Undirtied, a, Readers
<1>10. CASE HeadMeta(p)
  <2>1. pc[p] = "HeadMeta" /\ Dst(p) = a /\ got[p].body = None
    BY <1>1, <1>3, <1>10 DEF HeadMeta, Dst, a, ReadsAt
  <2>2. CASE ReadDocument(p, a)
    <3>1. /\ pc' = [pc EXCEPT ![p] = "done"] /\ meta[a] \notin Documents
          /\ got'[p].code = IF meta[a] = None THEN "NoSuchKey" ELSE "InternalError"
      BY <1>1, <1>2, <2>2
         DEF ReadDocument, Missing, Goto, Fail, Finish, Nothing, Readers
    <3>. QED
      BY <1>1, <1>2, <1>4, <1>5, <2>1, <3>1 DEF ReadsAt, Undirtied, a
  <2>3. CASE ~ReadDocument(p, a)
    <3>1. /\ pc'[p] = "done" /\ meta[a] \in Documents /\ got'[p].code = "OK"
          /\ got'[p].etag = meta[a].etag /\ got'[p].attrs = meta[a].attrs
          /\ got'[p].body = None
      BY <1>1, <1>2, <1>10, <2>1, <2>3
         DEF HeadMeta, Finish, Goto, IsAnswer, AnswersWith, Readers
    <3>2. alone => [acked[a] EXCEPT !.body = None]
                   = [body |-> None, etag |-> meta[a].etag, attrs |-> meta[a].attrs]
      BY <1>5, <3>1, ValuesAssumption DEF Version
    <3>. QED
      BY <1>1, <1>2, <1>4, <1>5, <2>1, <3>1, <3>2, ValuesAssumption
         DEF ReadsAt, Undirtied, a
  <2>. QED
    BY <2>2, <2>3
<1>. QED
  BY <1>4, <1>6, <1>7, <1>8, <1>9, <1>10

----------------------------------------------------------------------------
\* The calls of PutObject, for whoever makes them: what is in hand stays in
\* hand until the answer, and only the object they write changes.
LEMMA PutCallsStep ==
    ASSUME IInv, NEW p \in Workers, Step(p), pc[p] \in PutCalls
    PROVE  /\ Dst(p) \in Objects /\ UNCHANGED <<bucketFile, todo>>
           /\ \/ /\ got'[p] = got[p] /\ pc'[p] \in PutCalls \ {"PutExists"}
                 /\ acked' = acked
              \/ /\ got'[p] = got[p] /\ pc'[p] = AfterPut(p) /\ pc[p] = "MetaWrite"
                 /\ Commit(p, {Dst(p)}, Version(got[p].body, NewDocument(p)))
              \/ /\ pc'[p] = "done" /\ got'[p].body = None /\ acked' = acked
                 /\ got'[p].code \in {"NoSuchBucket", "InternalError"}
           /\ pc[p] = "PutExists" /\ pc'[p] # "done" => BucketExists(Dst(p)[1])
           /\ pc[p] \in {"PutExists", "PutMkdir", "PutTemp", "PutCopy"}
              => /\ pc'[p] \in {"PutMkdir", "PutTemp", "PutCopy", "PutRename", "done"}
                 /\ data' = data
           /\ pc[p] = "PutRename"
              => /\ pc'[p] \in {"MetaMkdir", "done"}
                 /\ pc'[p] = "MetaMkdir" => data'[Dst(p)] = got[p].body
           /\ pc[p] \in {"MetaMkdir", "MetaOpen", "MetaWrite"}
              => /\ pc'[p] \in {"MetaOpen", "MetaWrite", "done", AfterPut(p)}
                 /\ data' = data
           /\ \A x \in Resources \ {Dst(p)} :
                 acked'[x] = acked[x] /\ (x \in dirty' <=> x \in dirty)
<1>1. /\ DOMAIN pc = Workers /\ DOMAIN got = Workers /\ DOMAIN data = Objects
      /\ Dst(p) \in Objects /\ got[p].body \in Bodies
      /\ pc[p] = "PutRename" => temp[p] \in {None, got[p].body}
  BY TargetTypes DEF Dst, IInv, TypeInv, TypesOK, ServersOK, DiskTypeOK, BodiesOK
<1>2. CASE PutExists(p)
  BY <1>1, <1>2 DEF PutExists, Goto, Fail, Finish, Nothing, Look, disk, history
<1>3. CASE PutMkdir(p)
  BY <1>1, <1>3 DEF PutMkdir, Goto, history
<1>4. CASE PutTemp(p)
  BY <1>1, <1>4 DEF PutTemp, Goto, Fail, Finish, Nothing, disk, history
<1>5. CASE PutCopy(p)
  BY <1>1, <1>5 DEF PutCopy, Goto, Fail, Finish, Nothing, disk, history
<1>6. CASE PutRename(p)
  BY <1>1, <1>6 DEF PutRename, Goto, Fail, Finish, Nothing, Disturb, history
<1>7. CASE MetaMkdir(p)
  BY <1>1, <1>7 DEF MetaMkdir, Goto, history
<1>8. CASE MetaOpen(p)
  BY <1>1, <1>8 DEF MetaOpen, Goto, Fail, Finish, Nothing, Spoil, history
<1>9. CASE MetaWrite(p)
  <2>1. CASE /\ Commit(p, {Dst(p)}, Version(got[p].body, NewDocument(p)))
             /\ Goto(p, AfterPut(p)) /\ got' = got
    <3>1. /\ pc' = [pc EXCEPT ![p] = AfterPut(p)] /\ pc[p] = "MetaWrite"
          /\ UNCHANGED <<bucketFile, todo, data>>
      BY <1>9, <2>1 DEF MetaWrite, Goto
    <3>2. \A x \in Resources \ {Dst(p)} :
              acked'[x] = acked[x] /\ (x \in dirty' <=> x \in dirty)
      BY <2>1 DEF Commit
    <3>. QED
      BY <1>1, <2>1, <3>1, <3>2
  <2>2. CASE Spoil({Dst(p)}) /\ Fail(p, "InternalError")
    BY <1>1, <1>9, <2>2 DEF MetaWrite, Goto, Fail, Finish, Nothing, Spoil
  <2>. QED
    BY <1>9, <2>1, <2>2 DEF MetaWrite
<1>. QED
  BY <1>2, <1>3, <1>4, <1>5, <1>6, <1>7, <1>8, <1>9, StepCalls

\* PutObject stores what it was sent, and reads back its ETag.
LEMMA PutStep ==
    ASSUME IInv, NEW p \in Workers, Step(p), PutAt(p)
    PROVE  PutAt(p)'
<1> DEFINE d == req[p].dst
           u == req[p].up
<1>1. SUFFICES ASSUME req[p].op = "Put" PROVE PutAt(p)'
  BY OwnStep DEF PutAt
<1>2. /\ pc[p] \in PutCalls \cup HeadCalls
      /\ req' = req /\ quiet' = quiet /\ IsAnswer(got[p])
      /\ u \in Uploads /\ d \in Objects /\ Dst(p) = d
      /\ DOMAIN pc = Workers /\ DOMAIN got = Workers
  <2>1. /\ req' = req /\ quiet' = quiet /\ IsAnswer(got[p])
        /\ IsRequest(req[p]) /\ ControlAt("Put", pc[p]) /\ pc[p] \in Labels \ {"idle", "done"}
    BY <1>1, OwnStep
  <2>2. pc[p] \in PutCalls \cup HeadCalls
    BY <2>1 DEF Readers, Writers, Deleters, BucketOps, ControlAt, Labels
  <2>3. u \in Uploads /\ d \in Objects /\ Dst(p) = d
    BY <1>1, <2>1 DEF IsRequest, Writers, Dst
  <2>4. DOMAIN pc = Workers /\ DOMAIN got = Workers
    BY DEF IInv, TypeInv, TypesOK, ServersOK
  <2>. QED
    BY <2>1, <2>2, <2>3, <2>4
<1> HIDE DEF d, u
<1>3. CASE pc[p] \in PutCalls
  <2>1. /\ got[p].body = u /\ got[p].attrs = u
        /\ pc[p] # "PutExists" /\ d \in quiet[p] => BucketExists(d[1])
    BY <1>1, <1>3 DEF PutAt, d, u
  <2>2. AfterPut(p) = "HeadExists"
    BY <1>1 DEF AfterPut
  <2>3. Version(got[p].body, NewDocument(p)) = Sent(u)
    BY <1>1, <2>1 DEF NewDocument, Sent
  <2>4. BucketExists(d[1])' <=> BucketExists(d[1])
    BY <1>2, <1>3, PutCallsStep DEF BucketExists, d
  <2>5. CASE got'[p] = got[p] /\ pc'[p] \in PutCalls \ {"PutExists"}
    BY <1>1, <1>2, <1>3, <2>1, <2>4, <2>5, PutCallsStep DEF PutAt, d, u
  <2>6. CASE /\ got'[p] = got[p] /\ pc'[p] = AfterPut(p) /\ pc[p] = "MetaWrite"
             /\ Commit(p, {d}, Sent(u))
    <3>1. d \in quiet[p] => d \notin dirty' /\ acked'[d] = Sent(u)
      BY <1>2, <2>6 DEF Commit, Resources
    <3>. QED
      BY <1>1, <1>2, <2>1, <2>2, <2>4, <2>6, <3>1 DEF PutAt, d, u
  <2>7. CASE pc'[p] = "done" /\ got'[p].code \in {"NoSuchBucket", "InternalError"}
    BY <2>7 DEF PutAt
  <2>. QED
    BY <1>2, <1>3, <2>3, <2>5, <2>6, <2>7, PutCallsStep
<1>4. CASE HeadExists(p)
  BY <1>1, <1>2, <1>4
     DEF HeadExists, PutAt, Goto, Succeed, Finish, Look, disk, history,
         BucketExists, d, u
<1>5. CASE HeadMeta(p)
  <2>1. /\ pc[p] = "HeadMeta" /\ acked' = acked /\ dirty' = dirty
        /\ Sent(u) # None /\ Sent(u).etag = Md5(u)
    BY <1>2, <1>5, ValuesAssumption
       DEF HeadMeta, Look, history, Sent, Version, Versions, Md5, ETags
  <2>2. d \in quiet[p] => /\ d \notin dirty /\ acked[d] = Sent(u)
                          /\ meta[d] \in Documents /\ meta[d].etag = Md5(u)
    BY <1>1, <1>2, <2>1, ObjectFound, NoFlux DEF PutAt, d, u
  <2>3. pc'[p] = "done" /\ (d \in quiet[p] => got'[p].etag = Md5(u))
    BY <1>1, <1>2, <1>5, <2>2 DEF HeadMeta, ReadDocument, Goto, Succeed, Finish, IsAnswer, AnswersWith
  <2>. QED
    BY <1>1, <1>2, <2>1, <2>2, <2>3 DEF PutAt, d, u
<1>. QED
  BY <1>2, <1>3, <1>4, <1>5, StepCalls

----------------------------------------------------------------------------
\* A list is its first element and the rest.
LEMMA HeadTail ==
    ASSUME NEW T, NEW l \in Seq(T), l # <<>>
    PROVE  /\ Head(l) \in T /\ Tail(l) \in Seq(T)
           /\ Range(l) = {Head(l)} \cup Range(Tail(l))
<1>1. /\ Len(l) \in Nat \ {0} /\ DOMAIN l = 1..Len(l) /\ Head(l) = l[1]
      /\ Len(Tail(l)) = Len(l) - 1 /\ DOMAIN Tail(l) = 1..(Len(l) - 1)
      /\ \A i \in 1..(Len(l) - 1) : Tail(l)[i] = l[i + 1]
  OBVIOUS
<1>2. \A i \in DOMAIN l : l[i] = Head(l) \/ l[i] \in Range(Tail(l))
  <2>1. ASSUME NEW i \in DOMAIN l, i # 1
        PROVE  l[i] \in Range(Tail(l))
    <3>1. i - 1 \in 1..(Len(l) - 1) /\ Tail(l)[i - 1] = l[i]
      BY <1>1, <2>1
    <3>. QED
      BY <1>1, <3>1 DEF Range
  <2>. QED
    BY <1>1, <2>1
<1>3. Range(Tail(l)) \subseteq Range(l)
  BY <1>1 DEF Range
<1>4. Head(l) \in Range(l)
  BY <1>1 DEF Range
<1>5. Range(l) \subseteq {Head(l)} \cup Range(Tail(l))
  BY <1>2 DEF Range
<1>. QED
  BY <1>3, <1>4, <1>5

\* RenameObject and DeleteObject have their only key left until they answer.
LEMMA OneLeft ==
    ASSUME IInv, NEW p \in Workers, Active(p), req[p].op \in {"Rename", "Delete"}
    PROVE  Head(todo[p]) = req[p].src /\ Range(req[p].dels) \subseteq Range(todo[p])
<1>1. IsRequest(req[p])
  BY RequestOf DEF IInv, Active
<1>2. req[p].dels = <<req[p].src>> /\ Range(req[p].dels) = {req[p].src}
  BY <1>1 DEF IsRequest, Range
<1>3. todo[p] \in Seq(Range(req[p].dels)) /\ todo[p] # <<>>
  BY DEF IInv, TypeInv, TodoOK, Active
<1>. QED
  BY <1>2, <1>3, HeadTail

\* A key is ticked off when NextDelete goes to the next one or answers.
LEMMA NextDeleteStep ==
    ASSUME IInv, NEW p \in Workers, pc[p] \in DelCalls, NextDelete(p)
    PROVE  /\ todo[p] \in Seq(Range(req[p].dels)) /\ todo[p] # <<>>
           /\ todo'[p] = Tail(todo[p])
           /\ \/ pc'[p] = "DelExists" /\ got'[p] = got[p]
              \/ /\ pc'[p] = "done" /\ todo'[p] = <<>>
                 /\ got'[p].code = "OK" /\ got'[p].body = got[p].body
<1>1. /\ DOMAIN pc = Workers /\ DOMAIN got = Workers /\ IsAnswer(got[p])
      /\ DOMAIN todo = Workers
      /\ todo[p] \in Seq(Range(req[p].dels)) /\ todo[p] # <<>>
  BY DEF IInv, TypeInv, TypesOK, ServersOK, TodoOK
<1>. QED
  BY <1>1 DEF NextDelete, Goto, Succeed, Finish, IsAnswer, AnswersWith

\* What DeleteObject's calls do to other keys, and to what is in hand.
LEMMA DelCallsStep ==
    ASSUME IInv, NEW p \in Workers, Step(p), pc[p] \in DelCalls
    PROVE  /\ pc'[p] = "done" \/ (pc'[p] \in DelCalls /\ got'[p] = got[p])
           /\ pc'[p] = "DelMeta" => todo' = todo
           /\ \A x \in Resources \ {Head(todo[p])} :
                  acked'[x] = acked[x] /\ (x \in dirty' => x \in dirty)
<1>1. DOMAIN pc = Workers /\ DOMAIN got = Workers
  BY DEF IInv, TypeInv, TypesOK, ServersOK
<1>2. \A x \in Resources \ {Head(todo[p])} :
          acked'[x] = acked[x] /\ (x \in dirty' => x \in dirty)
  <2>1. CASE DelExists(p)
    BY <2>1 DEF DelExists, Look, history
  <2>2. CASE DelData(p)
    BY <2>2 DEF DelData, Disturb, history
  <2>3. CASE DelMeta(p)
    BY <2>3 DEF DelMeta, Commit, Spoil
  <2>. QED
    BY <2>1, <2>2, <2>3, StepCalls
<1>3. CASE NextDelete(p)
  BY <1>2, <1>3, NextDeleteStep
<1>4. CASE Fail(p, "InternalError") \/ Fail(p, "NoSuchBucket")
  BY <1>1, <1>2, <1>4 DEF Fail, Finish, Goto
<1>5. CASE \/ Goto(p, "DelData") /\ UNCHANGED got
           \/ Goto(p, "DelMeta") /\ UNCHANGED <<got, todo>>
  BY <1>1, <1>2, <1>5 DEF Goto
<1>. QED
  BY <1>3, <1>4, <1>5, StepCalls DEF DelExists, DelData, DelMeta

----------------------------------------------------------------------------
\* GetObject on behalf of a copy: it looks, and each call that succeeds takes
\* one more thing of the source in hand.
LEMMA GetCallsStep ==
    ASSUME IInv, NEW p \in Workers, Step(p), pc[p] \in GetCalls,
           req[p].op \in {"Copy", "Rename"}
    PROVE  /\ UNCHANGED <<acked, dirty, data, meta, todo>>
           /\ \/ /\ pc[p] = "GetExists" /\ pc'[p] = "GetMeta" /\ got'[p] = got[p]
              \/ /\ pc[p] = "GetMeta" /\ pc'[p] = "GetOpen" /\ meta[Src(p)] \in Documents
                 /\ got'[p].attrs = meta[Src(p)].attrs /\ got'[p].body = got[p].body
              \/ /\ pc[p] = "GetOpen" /\ pc'[p] = "PutExists" /\ data[Src(p)] # None
                 /\ got'[p].attrs = got[p].attrs /\ got'[p].body = data[Src(p)]
              \/ /\ pc'[p] = "done" /\ got'[p].body = None
                 /\ got'[p].code \in {"NoSuchBucket", "NoSuchKey", "InternalError"}
                 /\ got'[p].code = "InternalError"
                    => /\ pc[p] = "GetMeta" /\ meta[Src(p)] \notin Documents
                       /\ meta[Src(p)] # None
<1>1. DOMAIN pc = Workers /\ DOMAIN got = Workers /\ IsAnswer(got[p])
  BY DEF IInv, TypeInv, TypesOK, ServersOK
<1>2. CASE GetExists(p)
  BY <1>1, <1>2 DEF GetExists, Goto, Fail, Finish, Nothing, Look, disk, history
<1>3. CASE GetMeta(p)
  <2>1. /\ pc[p] = "GetMeta" /\ UNCHANGED <<acked, dirty, data, meta, todo>>
    BY <1>3 DEF GetMeta, Look, disk, history
  <2>2. CASE ReadDocument(p, Src(p))
    BY <1>1, <2>1, <2>2 DEF ReadDocument, Missing, Goto, Fail, Finish, Nothing
  <2>3. CASE ~ReadDocument(p, Src(p))
    BY <1>1, <1>3, <2>1, <2>3 DEF GetMeta, Goto, IsAnswer, AnswersWith
  <2>. QED
    BY <2>2, <2>3
<1>4. CASE GetOpen(p)
  BY <1>1, <1>4
     DEF GetOpen, Missing, Goto, Fail, Finish, Nothing, Look, disk, history, IsAnswer, AnswersWith
<1>. QED
  BY <1>2, <1>3, <1>4, StepCalls

\* A copy and a rename are at one of these calls, between two objects that
\* are not the same.
LEMMA CopyCalls ==
    ASSUME IInv, NEW p \in Workers, Step(p), req[p].op \in {"Copy", "Rename"}
    PROVE  /\ pc[p] \in GetCalls \cup PutCalls \cup {"CopyMeta"} \cup DelCalls
           /\ pc[p] \in DelCalls => req[p].op = "Rename"
           /\ req' = req /\ quiet' = quiet
           /\ Src(p) \in Objects /\ Dst(p) \in Objects
           /\ Src(p) \in Resources /\ Dst(p) \in Resources
           /\ Src(p) = req[p].src /\ Dst(p) = req[p].dst
           /\ DOMAIN pc = Workers /\ DOMAIN got = Workers /\ IsAnswer(got[p])
<1>1. /\ pc[p] \in GetCalls \cup PutCalls \cup {"CopyMeta"} \cup DelCalls
      /\ pc[p] \in DelCalls => req[p].op = "Rename"
  BY OwnStep DEF Readers, Writers, Deleters, BucketOps, ControlAt, Labels
<1>. QED
  BY <1>1, OwnStep
     DEF IsRequest, Writers, Src, Dst, Resources, IInv, TypeInv, TypesOK, ServersOK

\* CopyMeta answers with the ETag it reads, and changes nothing.
LEMMA CopyMetaStep ==
    ASSUME IInv, NEW p \in Workers, CopyMeta(p), req[p].op \in {"Copy", "Rename"}
    PROVE  /\ UNCHANGED <<acked, dirty, data, meta, todo>>
           /\ \/ /\ pc'[p] = IF req[p].op = "Copy" THEN "done" ELSE "DelExists"
                 /\ meta[Dst(p)] \in Documents
                 /\ got'[p].etag = meta[Dst(p)].etag
                 /\ got'[p].body = got[p].body /\ got'[p].attrs = got[p].attrs
              \/ /\ pc'[p] = "done" /\ got'[p].body = None
                 /\ got'[p].code \in {"NoSuchKey", "InternalError"}
<1>1. /\ DOMAIN pc = Workers /\ DOMAIN got = Workers /\ IsAnswer(got[p])
      /\ UNCHANGED <<acked, dirty, data, meta, todo>>
  BY DEF IInv, TypeInv, TypesOK, ServersOK, CopyMeta, Look, disk, history
<1>2. CASE ReadDocument(p, Dst(p))
  BY <1>1, <1>2 DEF ReadDocument, Missing, Goto, Fail, Finish, Nothing
<1>3. CASE ~ReadDocument(p, Dst(p))
  BY <1>1, <1>3 DEF CopyMeta, Goto, Finish, IsAnswer, AnswersWith
<1>. QED
  BY <1>2, <1>3

\* CopyObject, and the copy in RenameObject.
LEMMA CopyStep ==
    ASSUME IInv, NEW p \in Workers, Step(p), CopyAt(p)
    PROVE  CopyAt(p)'
<1> DEFINE s == req[p].src
           d == req[p].dst
<1>1. SUFFICES ASSUME req[p].op \in {"Copy", "Rename"}, s # d PROVE CopyAt(p)'
  BY OwnStep DEF CopyAt
<1>2. /\ pc[p] \in GetCalls \cup PutCalls \cup {"CopyMeta"} \cup DelCalls
      /\ pc[p] \in DelCalls => req[p].op = "Rename"
      /\ req' = req /\ quiet' = quiet /\ s \in Objects /\ d \in Objects
      /\ s \in Resources /\ d \in Resources /\ Src(p) = s /\ Dst(p) = d
  BY <1>1, CopyCalls
<1> HIDE DEF s, d
<1>3. CASE pc[p] \in GetCalls
  <2>1. s \in quiet[p] \ dirty =>
           /\ acked[s] = None => data[s] = None /\ meta[s] = None
           /\ acked[s] # None => /\ acked[s].body = data[s]
                                 /\ acked[s].attrs = meta[s].attrs
           /\ None \notin Documents
    BY <1>2, <1>3, ObjectFound, NoFlux
  <2>. QED
    BY <1>1, <1>2, <1>3, <2>1, GetCallsStep DEF CopyAt, Answered, s, d
<1>4. CASE pc[p] \in PutCalls
  <2>1. /\ acked'[s] = acked[s] /\ (s \in dirty' <=> s \in dirty)
    BY <1>1, <1>2, <1>4, PutCallsStep
  <2>2. s \in quiet[p] \ dirty =>
           /\ acked[s] # None /\ got[p].attrs = acked[s].attrs
           /\ got[p].body = acked[s].body
    BY <1>1, <1>4 DEF CopyAt, s, d
  <2>3. AfterPut(p) = "CopyMeta" /\ NewDocument(p).etag = Md5(got[p].body)
        /\ NewDocument(p).attrs = got[p].attrs
    BY <1>1 DEF AfterPut, NewDocument
  <2>4. CASE got'[p] = got[p] /\ pc'[p] \in PutCalls
    BY <1>1, <1>2, <2>1, <2>2, <2>4 DEF CopyAt, Answered, s, d
  <2>5. CASE /\ got'[p] = got[p] /\ pc'[p] = "CopyMeta"
             /\ Commit(p, {d}, Version(got[p].body, NewDocument(p)))
    <3>1. d \in quiet[p] =>
             /\ d \notin dirty'
             /\ acked'[d] = Version(got[p].body, [etag |-> Md5(got[p].body),
                                                  attrs |-> got[p].attrs])
      BY <1>2, <2>3, <2>5 DEF Commit, Version
    <3>2. Version(got[p].body, [etag |-> Md5(got[p].body), attrs |-> got[p].attrs]) \in Versions
      BY <1>4, OwnStep DEF Version, Versions, Md5, ETags
    <3>. QED
      BY <1>1, <1>2, <2>1, <2>2, <2>5, <3>1, <3>2 DEF CopyAt, Answered, s, d
  <2>6. CASE pc'[p] = "done" /\ got'[p].code \in {"NoSuchBucket", "InternalError"}
    BY <2>6 DEF CopyAt, Answered
  <2>. QED
    BY <1>2, <1>4, <2>3, <2>4, <2>5, <2>6, PutCallsStep
<1>5. CASE pc[p] = "CopyMeta"
  <2>1. CopyMeta(p)
    BY <1>5, StepCalls
  <2>2. acked' = acked /\ dirty' = dirty
    BY <1>1, <2>1, CopyMetaStep
  <2>3. ASSUME Answered(p, "Copy", "OK")', s \in quiet[p] \ dirty, d \in quiet[p]
        PROVE  /\ acked[s] # None /\ d \notin dirty
               /\ acked[d] = [acked[s] EXCEPT !.etag = Md5(acked[s].body)]
               /\ got'[p].etag = acked[d].etag
    <3>1. /\ acked[s] # None /\ d \notin dirty
          /\ got[p].attrs = acked[s].attrs /\ got[p].body = acked[s].body
          /\ acked[d] = Version(got[p].body, [etag |-> Md5(got[p].body),
                                              attrs |-> got[p].attrs])
      BY <1>1, <1>5, <2>3 DEF CopyAt, s, d
    <3>2. acked[s] = Version(data[s], meta[s]) /\ data[s] \in Bodies
          /\ meta[s] \in Documents
      BY <1>2, <1>5, <2>3, <3>1, ObjectFound, NoFlux
    <3>3. acked[d] = [acked[s] EXCEPT !.etag = Md5(acked[s].body)]
      BY <3>1, <3>2 DEF Version
    <3>4. acked[d] # None
      BY <3>1, <3>2, ValuesAssumption
         DEF Version, Versions, Documents, Md5, ETags
    <3>5. acked[d].etag = meta[d].etag
      BY <1>2, <1>5, <2>3, <3>1, <3>4, ObjectFound, NoFlux
    <3>6. got'[p].etag = meta[d].etag
      BY <1>1, <1>2, <2>1, <2>3, CopyMetaStep DEF Answered
    <3>. QED
      BY <3>1, <3>3, <3>5, <3>6
  <2>4. \/ pc'[p] = "done"
        \/ /\ pc'[p] = "DelExists"
           /\ got'[p].body = got[p].body /\ got'[p].attrs = got[p].attrs
    BY <1>1, <2>1, CopyMetaStep
  <2>5. d \in quiet[p] => /\ d \notin dirty /\ acked[d] \in Versions
                          /\ acked[d] = Version(got[p].body, [etag |-> Md5(got[p].body),
                                                              attrs |-> got[p].attrs])
    BY <1>1, <1>5 DEF CopyAt, s, d
  <2>. QED
    BY <1>2, <2>2, <2>3, <2>4, <2>5 DEF CopyAt, s, d
<1>6. CASE pc[p] \in DelCalls
  <2>1. req[p].op = "Rename"
    BY <1>2, <1>6
  <2>2. Head(todo[p]) = s
    BY <2>1, OneLeft, OwnStep DEF s
  <2>3. /\ pc'[p] = "done" \/ (pc'[p] \in DelCalls /\ got'[p] = got[p])
        /\ \A x \in Resources \ {s} : acked'[x] = acked[x] /\ (x \in dirty' => x \in dirty)
    BY <1>2, <1>6, <2>2, DelCallsStep
  <2>4. d \in quiet[p] => /\ d \notin dirty /\ acked[d] \in Versions
                          /\ acked[d] = Version(got[p].body, [etag |-> Md5(got[p].body),
                                                              attrs |-> got[p].attrs])
    BY <1>1, <1>6 DEF CopyAt, s, d
  <2>. QED
    BY <1>1, <1>2, <2>1, <2>3, <2>4 DEF CopyAt, Answered, s, d
<1>. QED
  BY <1>2, <1>3, <1>4, <1>5, <1>6

----------------------------------------------------------------------------
\* DeleteObject, DeleteObjects and RenameObject: what is ticked off is gone, and
\* what is not, when a call fails, stays on the list.
LEMMA DeletesStep ==
    ASSUME IInv, IInv', NEW p \in Workers, Step(p), DeletesAt(p)
    PROVE  DeletesAt(p)'
<1>1. /\ Active(p) /\ req' = req /\ quiet' = quiet /\ IsRequest(req[p])
      /\ DOMAIN pc = Workers /\ DOMAIN got = Workers /\ DOMAIN todo = Workers
  BY OwnStep DEF IInv, TypeInv, TypesOK, ServersOK
<1>2. pc[p] # "idle" /\ pc'[p] # "idle"
  <2>1. req'[p] # None
    BY <1>1, RequestsAssumption
  <2>. QED
    BY <1>1, <2>1 DEF IInv, TypeInv, TypesOK, ServersOK, Active
<1>3. \A a \in Range(req[p].dels) \ Range(todo[p]) :
          a \in quiet[p] \ dirty => acked[a] = None
  BY <1>2 DEF DeletesAt
<1>4. CASE req[p].op \notin {"Rename"} \cup Deleters
  <2>1. req[p].dels = <<>> /\ Range(req[p].dels) = {}
    BY <1>1, <1>4 DEF IsRequest, Range
  <2>2. todo'[p] \in Seq({})
    BY <1>1, <1>2, <2>1 DEF IInv, TypeInv, TodoOK
  <2>3. todo'[p] = <<>>
    BY <2>2
  <2>. QED
    BY <1>1, <2>1, <2>3 DEF DeletesAt
<1>5. CASE pc[p] \in {"DelData", "DelMeta"} /\ NextDelete(p)
  <2> DEFINE x == Head(todo[p])
  <2>1. x \in Objects /\ x \in Resources
    BY <1>5, OwnTargets DEF IInv, Resources
  <2>2. Range(todo[p]) = {x} \cup Range(todo'[p])
    BY <1>5, HeadTail, NextDeleteStep
  <2>3. pc'[p] = "done" /\ got'[p].code = "OK" => todo'[p] = <<>>
    BY <1>5, NextDeleteStep
  <2>4. x \in quiet[p] \ dirty' => acked'[x] = None
    <3>1. CASE DelMeta(p)
      BY <2>1, <3>1 DEF DelMeta, Commit, Spoil
    <3>2. CASE DelData(p)
      <4>1. x \in quiet[p] \ dirty => (acked[x] # None => data[x] # None)
        BY <1>5, <2>1, <3>2, ObjectFound, NoFlux DEF DelData
      <4>2. CASE data[x] = None /\ UNCHANGED history
        BY <4>1, <4>2 DEF history
      <4>3. CASE Goto(p, "DelMeta")
        <5>1. pc'[p] = "DelMeta"
          BY <1>1, <4>3 DEF Goto
        <5>. QED
          BY <1>5, <5>1, NextDeleteStep
      <4>4. CASE Fail(p, "InternalError")
        <5>1. pc'[p] = "done" /\ got'[p].code = "InternalError"
          BY <1>1, <4>4 DEF Fail, Finish, Goto, Nothing
        <5>. QED
          BY <1>5, <5>1, NextDeleteStep
      <4>. QED
        BY <3>2, <4>2, <4>3, <4>4 DEF DelData
    <3>. QED
      BY <1>5, <3>1, <3>2, StepCalls
  <2>5. \A a \in Resources \ {x} :
            acked'[a] = acked[a] /\ (a \in dirty' <=> a \in dirty)
    <3>1. CASE DelMeta(p)
      BY <3>1 DEF DelMeta, Commit, Spoil
    <3>2. CASE DelData(p)
      BY <3>2 DEF DelData, Disturb, history
    <3>. QED
      BY <1>5, <3>1, <3>2, StepCalls
  <2>6. Range(req[p].dels) \subseteq Resources
    BY <1>1 DEF IsRequest, Range, Resources
  <2>. QED
    BY <1>1, <1>3, <2>2, <2>3, <2>4, <2>5, <2>6 DEF DeletesAt
<1>6. CASE /\ req[p].op \in {"Rename"} \cup Deleters
           /\ ~(pc[p] \in {"DelData", "DelMeta"} /\ NextDelete(p))
  <2>1. pc[p] \in GetCalls \cup PutCalls \cup {"CopyMeta", "ManyExists"} \cup DelCalls
    BY <1>6, OwnStep DEF Readers, Writers, Deleters, BucketOps, ControlAt, Labels
  <2>2. /\ todo' = todo
        /\ pc'[p] = "done" /\ got'[p].code = "OK" => todo[p] = <<>>
        /\ req[p].op = "DeleteObjects" => acked' = acked /\ dirty \subseteq dirty'
    <3>1. CASE pc[p] \in GetCalls \cup PutCalls \cup {"CopyMeta"}
      <4>1. req[p].op = "Rename"
        BY <1>6, <3>1, OwnStep DEF ControlAt, Writers, Deleters
      <4>2. CASE pc[p] \in GetCalls
        BY <4>1, <4>2, GetCallsStep
      <4>3. CASE pc[p] \in PutCalls
        BY <4>1, <4>3, PutCallsStep DEF AfterPut
      <4>4. CASE pc[p] = "CopyMeta"
        BY <4>1, <4>4, CopyMetaStep, StepCalls
      <4>. QED
        BY <3>1, <4>1, <4>2, <4>3, <4>4
    <3>2. CASE ManyExists(p)
      BY <1>1, <3>2
         DEF ManyExists, Goto, Fail, Succeed, Finish, Nothing, Look, history
    <3>3. CASE DelExists(p)
      BY <1>1, <3>3 DEF DelExists, Goto, Fail, Finish, Nothing, Look, history
    <3>4. CASE DelData(p)
      BY <1>1, <1>6, <3>4 DEF DelData, Goto, Fail, Finish, Nothing, Disturb, history
    <3>5. CASE DelMeta(p)
      BY <1>1, <1>6, <3>5 DEF DelMeta, Goto, Fail, Finish, Nothing, Spoil
    <3>. QED
      BY <2>1, <3>1, <3>2, <3>3, <3>4, <3>5, StepCalls
  <2>3. CASE req[p].op \in {"Rename", "Delete"}
    BY <1>1, <2>2, <2>3, OneLeft DEF DeletesAt
  <2>4. CASE req[p].op = "DeleteObjects"
    BY <1>1, <1>3, <2>2, <2>4 DEF DeletesAt
  <2>. QED
    BY <1>6, <2>3, <2>4 DEF Deleters
<1>. QED
  BY <1>4, <1>5, <1>6

----------------------------------------------------------------------------
\* ListObjects and ListBuckets: what is acknowledged is found by the scan, and
\* each entry that is read is listed if and only if it is there.
LEMMA ListingStep ==
    ASSUME IInv, IInv', NEW p \in Workers, Step(p), ListingAt(p)
    PROVE  ListingAt(p)'
<1>1. /\ req' = req /\ quiet' = quiet /\ IsRequest(req[p])
      /\ DOMAIN pc = Workers /\ DOMAIN got = Workers /\ DOMAIN scan = Workers
      /\ IsAnswer(got[p]) /\ pc[p] \in Labels \ {"idle", "done"}
      /\ ControlAt(req[p].op, pc[p]) /\ ControlAt(req[p].op, pc'[p])
  BY OwnStep DEF IInv, TypeInv, TypesOK, ServersOK, ControlOK
<1>2. CASE req[p].op \notin {"ListObjects", "ListBuckets"}
  BY <1>1, <1>2 DEF ListingAt, ControlAt, Answered
<1>3. CASE req[p].op = "ListObjects"
  <2> DEFINE S == ObjectsOf(req[p].bucket)
  <2>1. S \subseteq Objects
    BY <1>1, <1>3 DEF IsRequest, BucketOps, ObjectsOf, Objects
  <2>2. pc[p] \in ListCalls /\ pc'[p] \notin {"BucketsScan", "BucketsRead"}
    BY <1>1, <1>3
       DEF ControlAt, Readers, Writers, Deleters, BucketOps, Labels
  <2>3. /\ ListExists(p) \/ ListScan(p) \/ ListRead(p)
        /\ acked' = acked /\ dirty' = dirty /\ meta' = meta
    BY <2>2, StepCalls DEF ListExists, ListScan, ListRead, Look, history, disk
  <2>4. \A x \in S : x \in quiet[p] \ dirty =>
           (acked[x] # None <=> meta[x] \in Documents) /\ (acked[x] # None <=> meta[x] # None)
    BY <2>1, <2>2, ObjectFound, NoFlux
  <2> HIDE DEF S
  <2>5. CASE ListExists(p)
    <3>1. \/ pc'[p] = "ListScan" /\ got'[p].listed = {}
          \/ pc'[p] = "done" /\ got'[p].code = "NoSuchBucket"
      BY <1>1, <2>5 DEF ListExists, ListingAt, Goto, Fail, Finish, Nothing
    <3>. QED
      BY <3>1 DEF ListingAt, Answered
  <2>6. CASE ListScan(p)
    <3>1. /\ pc'[p] = "ListRead" /\ got'[p].listed = {}
          /\ scan'[p] = {a \in S : meta[a] # None}
      BY <1>1, <2>6 DEF ListScan, ListingAt, Goto, S
    <3>2. ShownOf(p, S)'
      BY <1>1, <2>3, <2>4, <3>1 DEF ShownOf, S
    <3>. QED
      BY <1>1, <3>1, <3>2 DEF ListingAt, Answered, S
  <2>7. CASE ListRead(p)
    <3>1. pc[p] = "ListRead" /\ ShownOf(p, S)
      BY <2>7 DEF ListRead, ListingAt, S
    <3>2. ASSUME NEW a \in scan[p],
                 scan' = [scan EXCEPT ![p] = @ \ {a}],
                 got' = [got EXCEPT ![p].listed =
                            IF meta[a] \in Documents THEN @ \cup {a} ELSE @],
                 UNCHANGED pc
          PROVE  ListingAt(p)'
      <4>1. /\ pc'[p] = "ListRead" /\ scan'[p] = scan[p] \ {a}
            /\ got'[p].listed = IF meta[a] \in Documents THEN got[p].listed \cup {a}
                                ELSE got[p].listed
        BY <1>1, <3>1, <3>2 DEF IsAnswer, AnswersWith
      <4>2. ShownOf(p, S)'
        BY <1>1, <2>3, <2>4, <3>1, <4>1 DEF ShownOf, S
      <4>. QED
        BY <1>1, <4>1, <4>2 DEF ListingAt, Answered, S
    <3>3. CASE scan[p] = {} /\ Succeed(p) /\ UNCHANGED scan
      <4>1. pc'[p] = "done" /\ got'[p].listed = got[p].listed
        BY <1>1, <3>3 DEF Succeed, Finish, Goto, IsAnswer, AnswersWith
      <4>2. ListedOf(p, S)'
        BY <1>1, <2>3, <3>1, <3>3, <4>1 DEF ShownOf, ListedOf, S
      <4>. QED
        BY <1>1, <1>3, <4>1, <4>2 DEF ListingAt, Answered, S
    <3>. QED
      BY <2>7, <3>2, <3>3 DEF ListRead
  <2>. QED
    BY <2>3, <2>5, <2>6, <2>7
<1>4. CASE req[p].op = "ListBuckets"
  <2>1. pc[p] \in {"BucketsScan", "BucketsRead"} /\ pc'[p] \notin ListCalls
    BY <1>1, <1>4
       DEF ControlAt, Readers, Writers, Deleters, BucketOps, Labels
  <2>2. /\ BucketsScan(p) \/ BucketsRead(p)
        /\ acked' = acked /\ dirty' = dirty
    BY <2>1, StepCalls DEF BucketsScan, BucketsRead, Look, history, disk
  <2>3. \A b \in Buckets : b \in quiet[p] \ dirty =>
           /\ acked[b] # None <=> bucketFile[b] = Registered
           /\ acked[b] # None => "bucket" \in dirs[b]
    BY <2>1, BucketFound, NoFlux
  <2>4. CASE BucketsScan(p)
    <3>1. /\ pc'[p] = "BucketsRead" /\ got'[p].listed = {}
          /\ scan'[p] = {b \in Buckets : "bucket" \in dirs[b]}
      BY <1>1, <2>4 DEF BucketsScan, ListingAt, Goto
    <3>2. ShownOf(p, Buckets)'
      BY <1>1, <2>2, <2>3, <3>1 DEF ShownOf
    <3>. QED
      BY <3>1, <3>2 DEF ListingAt, Answered
  <2>5. CASE BucketsRead(p)
    <3>1. pc[p] = "BucketsRead" /\ ShownOf(p, Buckets)
      BY <2>5 DEF BucketsRead, ListingAt
    <3>2. ASSUME NEW b \in scan[p],
                 scan' = [scan EXCEPT ![p] = @ \ {b}],
                 got' = [got EXCEPT ![p].listed =
                            IF bucketFile[b] = Registered THEN @ \cup {b} ELSE @],
                 UNCHANGED pc
          PROVE  ListingAt(p)'
      <4>1. /\ pc'[p] = "BucketsRead" /\ scan'[p] = scan[p] \ {b}
            /\ got'[p].listed = IF bucketFile[b] = Registered THEN got[p].listed \cup {b}
                                ELSE got[p].listed
        BY <1>1, <3>1, <3>2 DEF IsAnswer, AnswersWith
      <4>2. ShownOf(p, Buckets)'
        BY <1>1, <2>2, <2>3, <3>1, <4>1 DEF ShownOf
      <4>. QED
        BY <4>1, <4>2 DEF ListingAt, Answered
    <3>3. CASE scan[p] = {} /\ Succeed(p) /\ UNCHANGED scan
      <4>1. pc'[p] = "done" /\ got'[p].listed = got[p].listed
        BY <1>1, <3>3 DEF Succeed, Finish, Goto, IsAnswer, AnswersWith
      <4>2. ListedOf(p, Buckets)'
        BY <1>1, <2>2, <3>1, <3>3, <4>1 DEF ShownOf, ListedOf
      <4>. QED
        BY <1>1, <1>4, <4>1, <4>2 DEF ListingAt, Answered
    <3>. QED
      BY <2>5, <3>2, <3>3 DEF BucketsRead
  <2>. QED
    BY <2>2, <2>4, <2>5
<1>. QED
  BY <1>2, <1>3, <1>4

\* A request with a temp file mutates its object: a worker for which the
\* objects of a bucket are quiet finds there only temp files of its own.
LEMMA OnlyOwnTemp ==
    ASSUME IInv, NEW p \in Workers, NEW b \in Buckets, ObjectsOf(b) \subseteq quiet[p],
           pc[p] = "DeleteScan", NEW o \in Workers, temp[o] # None
    PROVE  req[o].dst[1] # b
<1>1. pc[o] \in {"PutCopy", "PutRename"} /\ Active(o) /\ pc[o] # "idle"
  BY DEF IInv, TypeInv, BodiesOK, Active
<1>2. IsRequest(req[o]) /\ req[o].op \in Writers \cup {"Complete"}
  BY <1>1, RequestOf DEF IInv, TypeInv, ControlOK, ControlAt
<1>3. req[o].dst \in Objects /\ req[o].dst \in Mutates(req[o])
  BY <1>2 DEF IsRequest, JobOps, Mutates
<1>4. p # o
  BY <1>1
<1>5. req[o].dst \notin quiet[p]
  BY <1>1, <1>3, <1>4 DEF IInv, Exclusive
<1>6. req[o].dst[1] = b => req[o].dst \in ObjectsOf(b)
  BY <1>3, SMT DEF Objects, ObjectsOf
<1>. QED
  BY <1>5, <1>6

\* The bucket requests: what they found, made or removed is acknowledged.
LEMMA BucketAnswersStep ==
    ASSUME IInv, IInv', NEW p \in Workers, Step(p), BucketAt(p)
    PROVE  BucketAt(p)'
<1> DEFINE b == req[p].bucket
<1>1. /\ req' = req /\ quiet' = quiet /\ IsRequest(req[p])
      /\ DOMAIN pc = Workers /\ DOMAIN got = Workers /\ IsAnswer(got[p])
      /\ pc[p] \in Labels \ {"idle", "done"} /\ Bucket(p) = b
      /\ ControlAt(req[p].op, pc[p]) /\ ControlAt(req[p].op, pc'[p])
  BY OwnStep DEF IInv, TypeInv, TypesOK, ServersOK, ControlOK, Bucket
<1>2. CASE req[p].op \notin {"HeadBucket", "GetBucketLocation", "CreateBucket",
                             "DeleteBucket"}
  BY <1>1, <1>2 DEF BucketAt, ControlAt, Answered
<1>3. req[p].op \in {"HeadBucket", "GetBucketLocation", "CreateBucket", "DeleteBucket"}
      => b \in Buckets /\ b \in Resources
  BY <1>1 DEF IsRequest, BucketOps, Resources
<1> HIDE DEF b
<1>4. CASE req[p].op \in {"HeadBucket", "GetBucketLocation"}
  <2>1. pc[p] \in {"HeadBucketStat", "LocationRead"}
    BY <1>1, <1>4 DEF ControlAt, Readers, Writers, Deleters, BucketOps, Labels
  <2>2. b \in quiet[p] \ dirty =>
           /\ bucketFile[b] = acked[b] /\ acked[b] \in {None, Registered}
           /\ None # Registered
    BY <1>3, <1>4, <2>1, BucketFound, NoFlux
  <2>3. /\ pc'[p] = "done" /\ acked' = acked /\ dirty' = dirty
        /\ bucketFile[b] = None => got'[p].code = "NoSuchBucket"
        /\ bucketFile[b] = Registered /\ None # Registered => got'[p].code = "OK"
    <3>1. CASE HeadBucketStat(p)
      BY <1>1, <3>1
         DEF HeadBucketStat, Goto, Succeed, Fail, Finish, Nothing, Look, history,
             BucketExists, IsAnswer, AnswersWith
    <3>2. CASE LocationRead(p)
      BY <1>1, <3>2, ValuesAssumption
         DEF LocationRead, Goto, Succeed, Fail, Finish, Nothing, Look, history, IsAnswer, AnswersWith
    <3>. QED
      BY <2>1, <3>1, <3>2, StepCalls
  <2>. QED
    BY <1>1, <1>4, <2>2, <2>3 DEF BucketAt, Answered, Undisturbed, b
<1>5. CASE req[p].op = "CreateBucket"
  <2>1. pc[p] \in CreateCalls
    BY <1>1, <1>5 DEF ControlAt, Readers, Writers, Deleters, BucketOps, Labels
  <2>2. CASE CreateStat(p)
    <3>1. b \in quiet[p] \ dirty =>
             /\ bucketFile[b] = acked[b] /\ acked[b] \in {None, Registered}
      BY <1>3, <1>5, <2>2, BucketFound, NoFlux DEF CreateStat
    <3>2. /\ acked' = acked /\ dirty' = dirty
          /\ \/ pc'[p] = "CreateDir"
             \/ /\ pc'[p] = "done" /\ got'[p].code = "BucketAlreadyExists"
                /\ bucketFile[b] # None
      BY <1>1, <2>2
         DEF CreateStat, Goto, Fail, Finish, Nothing, Look, history, BucketExists
    <3>. QED
      BY <1>1, <1>5, <3>1, <3>2 DEF BucketAt, Answered, Undisturbed, b
  <2>3. CASE CreateWrite(p)
    <3>1. CASE Commit(p, {b}, Registered) /\ Succeed(p)
      <4>1. b \in quiet[p] => b \notin dirty' /\ acked'[b] = Registered
        BY <1>3, <1>5, <3>1 DEF Commit
      <4>2. pc'[p] = "done" /\ got'[p].code = "OK"
        BY <1>1, <3>1 DEF Succeed, Finish, Goto, IsAnswer, AnswersWith
      <4>. QED
        BY <1>1, <1>5, <4>1, <4>2 DEF BucketAt, Answered, b
    <3>2. CASE Fail(p, "InternalError")
      <4>1. pc'[p] = "done" /\ got'[p].code = "InternalError"
        BY <1>1, <3>2 DEF Fail, Finish, Goto, Nothing
      <4>. QED
        BY <1>1, <1>5, <4>1 DEF BucketAt, Answered
    <3>. QED
      BY <1>1, <2>3, <3>1, <3>2 DEF CreateWrite
  <2>4. CASE CreateDir(p) \/ CreateRegistry(p) \/ CreateOpen(p)
    <3>1. \/ pc'[p] \in CreateCalls
          \/ pc'[p] = "done" /\ got'[p].code = "InternalError"
      BY <1>1, <2>4
         DEF CreateDir, CreateRegistry, MakeDirectory, CreateOpen, Goto, Fail,
             Finish, Nothing
    <3>. QED
      BY <1>1, <1>5, <3>1 DEF BucketAt, Answered
  <2>. QED
    BY <2>1, <2>2, <2>3, <2>4, StepCalls
<1>6. CASE req[p].op = "DeleteBucket"
  <2>1. pc[p] \in DeleteCalls \ {"RmdirUploads"}
    BY <1>1, <1>6 DEF ControlAt, Readers, Writers, Deleters, BucketOps, Labels
  <2>2. /\ ObjectsOf(b) \subseteq Objects /\ ObjectsOf(b) \subseteq Resources
        /\ b \notin ObjectsOf(b)
    BY <1>3, <1>6, NamesAssumption DEF ObjectsOf, Objects, Resources
  <2>3. CASE RegistryUnlink(p)
    <3>1. \A a \in ObjectsOf(b) : a \in quiet[p] \ dirty => acked[a] = None
      BY <2>3 DEF RegistryUnlink, BucketAt, Undisturbed, b
    <3>2. /\ pc'[p] = "RegistryRmdir" /\ (b \in quiet[p] => b \notin dirty' /\ acked'[b] = None)
          /\ \A x \in Resources \ {b} : acked'[x] = acked[x] /\ (x \in dirty' <=> x \in dirty)
      BY <1>1, <1>3, <1>6, <2>3 DEF RegistryUnlink, Goto, Commit
    <3>. QED
      BY <1>1, <2>2, <3>1, <3>2 DEF BucketAt, Undisturbed, b
  <2>4. CASE RegistryRmdir(p)
    <3>1. /\ pc[p] = "RegistryRmdir" /\ pc'[p] = "done"
          /\ acked' = acked /\ dirty' = dirty
          /\ got'[p].code \in {"OK", "InternalError"}
      BY <1>1, <2>4
         DEF RegistryRmdir, Goto, Succeed, Fail, Finish, Nothing, history, IsAnswer, AnswersWith
    <3>. QED
      BY <1>1, <1>6, <3>1 DEF BucketAt, Answered, Undisturbed, b
  <2>5. CASE RmdirBucket(p)
    <3>1. \A a \in ObjectsOf(b) : a \in quiet[p] \ dirty => acked[a] = None
      <4>1. \A a \in ObjectsOf(b) \cap quiet[p] : data[a] = None
        BY <1>1, <2>5 DEF RmdirBucket, IInv, DiskInv, QuietShape, b
      <4>. QED
        BY <2>2, <2>5, <4>1, ObjectFound, NoFlux DEF RmdirBucket
    <3>2. \/ /\ pc'[p] = "RegistryUnlink" /\ acked' = acked
             /\ dirty' = dirty \cup ({b} \ quiet[p])
          \/ pc'[p] = "done" /\ got'[p].code = "InternalError"
      BY <1>1, <2>5 DEF RmdirBucket, Goto, Disturb, Fail, Finish, Nothing
    <3>. QED
      BY <1>1, <1>6, <2>2, <3>1, <3>2 DEF BucketAt, Answered, Undisturbed, b
  <2>6. CASE DeleteStat(p)
    <3>1. b \in quiet[p] \ dirty => acked[b] = None \/ "bucket" \in dirs[b]
      BY <1>3, <1>6, <2>6, BucketFound, NoFlux DEF DeleteStat
    <3>2. /\ acked' = acked /\ dirty' = dirty
          /\ \/ pc'[p] = "DeleteScan"
             \/ /\ pc'[p] = "done" /\ got'[p].code = "NoSuchBucket"
                /\ "bucket" \notin dirs[b]
      BY <1>1, <2>6 DEF DeleteStat, Goto, Fail, Finish, Nothing, Look, history
    <3>. QED
      BY <1>1, <1>6, <3>1, <3>2 DEF BucketAt, Answered, Undisturbed, b
  <2>7. CASE DeleteScan(p)
    <3>1. /\ pc[p] = "DeleteScan" /\ data' = data /\ litter' = litter
          /\ \/ pc'[p] = "RemoveList"
             \/ /\ pc'[p] = "done" /\ got'[p].code = "BucketNotEmpty"
                /\ ObjectsEntries(b)
      BY <1>1, <2>7 DEF DeleteScan, Goto, Fail, Finish, Nothing, Look, disk
    <3>2. ASSUME ObjectsEntries(b), ObjectsOf(b) \subseteq quiet[p]
          PROVE  b \in litter \/ \E a \in ObjectsOf(b) : data[a] # None
      BY <1>3, <1>6, <2>7, <3>2, OnlyOwnTemp DEF ObjectsEntries, DeleteScan
    <3>. QED
      BY <1>1, <1>6, <3>1, <3>2 DEF BucketAt, Answered, b
  <2>8. CASE RemoveList(p) \/ RemoveObjects(p) \/ RemoveMetadata(p)
             \/ RmdirObjects(p) \/ RmdirMetadata(p)
    <3>1. pc'[p] \in RemoveCalls
      BY <1>1, <2>8
         DEF RemoveList, RemoveObjects, RemoveMetadata, RmdirObjects, RmdirMetadata,
             RemoveSubdirectory, Goto
    <3>. QED
      BY <3>1 DEF BucketAt, Answered
  <2>. QED
    BY <2>1, <2>3, <2>4, <2>5, <2>6, <2>7, <2>8, StepCalls
<1>. QED
  BY <1>2, <1>4, <1>5, <1>6

----------------------------------------------------------------------------
(***************************************************************************)
(* All steps.                                                              *)
(***************************************************************************)
\* A request begins with what it uploads in hand, and nothing else.
LEMMA BeginAnswers ==
    ASSUME IInv, NEW p \in Workers, NEW r, IsRequest(r), Begin(p, r)
    PROVE  AnswersAt(p)'
<1>1. r.op \in Ops \cup UploadOps
  BY DEF IsRequest
<1>2. /\ pc'[p] = FirstCall[r.op] /\ req'[p] = r /\ todo'[p] = r.dels
      /\ got'[p].body = r.up /\ got'[p].attrs = r.up /\ got'[p].listed = {}
  BY DEF Begin, Goto, Nothing, IInv, TypeInv, TypesOK, ServersOK
<1>3. /\ pc'[p] \notin {"done", "RegistryUnlink", "RegistryRmdir", "GetMeta", "HeadMeta",
                        "GetOpen", "CopyMeta", "ListRead", "BucketsRead"}
      /\ pc'[p] \in PutCalls => pc'[p] = "PutExists" /\ r.op = "Put"
      /\ pc'[p] \in HeadCalls => r.op = "Head"
      /\ pc'[p] \in DelCalls => r.op = "Delete"
  BY <1>1, <1>2
     DEF Ops, UploadOps, JobOps, FirstCall, Readers, Writers, Deleters, BucketOps
<1>4. ReadsAt(p)' /\ PutAt(p)' /\ DeletesAt(p)'
  BY <1>1, <1>2, <1>3 DEF ReadsAt, PutAt, DeletesAt, IsRequest
<1>5. CopyAt(p)'
  BY <1>1, <1>2, <1>3 DEF CopyAt, Answered, IsRequest
<1>6. ListingAt(p)' /\ BucketAt(p)'
  BY <1>1, <1>2, <1>3 DEF ListingAt, BucketAt, Answered
<1>. QED
  BY <1>4, <1>5, <1>6 DEF AnswersAt

\* Every step keeps what every worker has in hand.
LEMMA AnswersKept ==
    ASSUME IInv, IInv', AnswersInv, [Next]_vars
    PROVE  AnswersInv'
<1> SUFFICES ASSUME NEW q \in Workers, pc'[q] # "idle" PROVE AnswersAt(q)'
  BY DEF AnswersInv
<1>1. ASSUME Still(q) PROVE AnswersAt(q)'
  BY <1>1, StillKeeps DEF Still, AnswersInv
<1>2. ASSUME Step(q) PROVE AnswersAt(q)'
  <2>1. AnswersAt(q)
    BY <1>2, OwnStep DEF AnswersInv
  <2>. QED
    BY <1>2, <2>1, ReadsStep, PutStep, DeletesStep, CopyStep, ListingStep,
       BucketAnswersStep DEF AnswersAt
<1>3. ASSUME NEW p \in Workers, p # q, Step(p) PROVE AnswersAt(q)'
  BY <1>1, <1>3, StillStep
<1>4. ASSUME NEW p \in Workers, Respond(p) PROVE AnswersAt(q)'
  <2>1. p # q
    BY <1>4 DEF Respond, Goto, IInv, TypeInv, TypesOK, ServersOK
  <2>. QED
    BY <1>1, <1>4, <2>1, StillBegin
<1>5. ASSUME NEW p \in Workers, NEW r, IsRequest(r), Begin(p, r) PROVE AnswersAt(q)'
  BY <1>1, <1>5, StillBegin, BeginAnswers
<1>6. CASE UNCHANGED vars
  <2>1. Still(q)
    BY <1>6 DEF vars, Still, BucketExists
  <2>. QED
    BY <1>1, <2>1
<1>7. CASE Crash
  BY <1>7 DEF Crash
<1>. QED
  BY <1>2, <1>3, <1>4, <1>5, <1>6, <1>7, RequestsAssumption DEF Next

\* At every call of every request, what its worker has in hand is still true
\* of whatever no other request mutates meanwhile.
THEOREM AnswersInvariant == Spec => []AnswersInv
<1>1. Init => AnswersInv
  BY DEF Init, InitWith, AnswersInv
<1>. QED
  BY <1>1, AnswersKept, InvariantHolds, PTL DEF Spec

----------------------------------------------------------------------------
(***************************************************************************)
(* What the invariant says of the answers; UploadProofs uses these lemmas  *)
(* for the server that serves multipart requests as well.                  *)
(***************************************************************************)
LEMMA ReadsSay ==
    ASSUME AnswersInv PROVE ReadsAreExact
<1> SUFFICES ASSUME NEW p \in Workers, pc[p] = "done", req[p].op \in Readers,
                    Undirtied(p, {req[p].src, req[p].src[1]})
             PROVE  LET a == req[p].src
                        answer == [body |-> got[p].body, etag |-> got[p].etag,
                                   attrs |-> got[p].attrs]
                    IN /\ got[p].code = IF acked[a[1]] = None THEN "NoSuchBucket"
                                        ELSE IF acked[a] = None THEN "NoSuchKey" ELSE "OK"
                       /\ Answered(p, "Get", "OK") => answer = acked[a]
                       /\ Answered(p, "Head", "OK")
                          => answer = [acked[a] EXCEPT !.body = None]
  BY DEF ReadsAreExact, Answered, Readers, Undirtied
<1>1. ReadsAt(p)
  BY DEF AnswersInv, AnswersAt
<1>. QED
  BY <1>1 DEF ReadsAt, Answered

LEMMA PutsSay ==
    ASSUME AnswersInv PROVE PutRepairs
BY DEF AnswersInv, AnswersAt, PutAt, PutRepairs, Answered, Sent

LEMMA DeletesSay ==
    ASSUME AnswersInv PROVE DeletesTakeEffect
<1> SUFFICES ASSUME NEW p \in Workers, pc[p] = "done",
                    NEW a \in Range(req[p].dels)
                              \ (IF got[p].code = "OK" THEN {} ELSE Range(todo[p])),
                    a \in quiet[p] \ dirty
             PROVE  acked[a] = None
  BY DEF DeletesTakeEffect, Undisturbed
<1>1. Range(<<>>) = {}
  BY DEF Range
<1>2. DeletesAt(p)
  BY DEF AnswersInv, AnswersAt
<1>. QED
  BY <1>1, <1>2 DEF DeletesAt

LEMMA CopiesSay ==
    ASSUME AnswersInv PROVE CopiesAreExact
BY DEF AnswersInv, AnswersAt, CopyAt, CopiesAreExact, Answered, Undisturbed

\* RenameObject with the body of its source in hand, and what it then keeps.
Renaming(p) ==
    /\ Active(p) /\ req[p].op = "Rename" /\ got[p].body # None
    /\ {Src(p), Dst(p)} \subseteq quiet[p] /\ Src(p) \notin dirty

Kept(p) ==
    \E x \in {Src(p), Dst(p)} :
        OnDisk(x)' \in Versions /\ OnDisk(x)'.body = got[p].body

\* Up to the last write of the copy the source is held, from then on the copy.
Held(p) == IF pc[p] \in PutCalls THEN Src(p) ELSE Dst(p)

LEMMA RenameHolds ==
    ASSUME IInv, AnswersInv, NEW p \in Workers, Renaming(p)
    PROVE  /\ Src(p) \in Objects /\ Dst(p) \in Objects /\ Src(p) # Dst(p)
           /\ pc[p] \in PutCalls \cup {"CopyMeta"} \cup DelCalls
           /\ Held(p) \in Resources /\ Held(p) \in quiet[p] /\ Held(p) \notin Torn
           /\ acked[Held(p)] \in Versions /\ acked[Held(p)].body = got[p].body
<1>1. IsRequest(req[p]) /\ CopyAt(p) /\ ControlAt("Rename", pc[p]) /\ pc[p] \in AllLabels
  BY RequestOf DEF Renaming, Active, AnswersInv, AnswersAt, IInv, TypeInv, TypesOK, ServersOK,
                   ControlOK
<1>2. Src(p) \in Objects /\ Dst(p) \in Objects /\ Src(p) # Dst(p)
  BY <1>1 DEF Renaming, IsRequest, Writers, Src, Dst
<1>3. pc[p] \in PutCalls \cup {"CopyMeta"} \cup DelCalls
  BY <1>1, <1>2
     DEF Renaming, CopyAt, ControlAt, AllLabels, Labels, Active, Readers, Writers, Deleters,
         BucketOps, UploadOps, JobOps, Src, Dst
<1>4. Flux(p) \subseteq IF pc[p] \in PutCalls THEN {Dst(p)} ELSE {Src(p)}
  BY <1>3, NoFlux, FluxAt, OneLeft DEF Renaming, Src
<1>5. Held(p) \in quiet[p] /\ Held(p) \notin Flux(p)
  BY <1>2, <1>4 DEF Held, Renaming
<1>6. Held(p) \notin dirty /\ acked[Held(p)] \in Versions
      /\ acked[Held(p)].body = got[p].body
  <2>1. CASE pc[p] \in PutCalls
    <3>1. acked[Src(p)] # None /\ got[p].body = acked[Src(p)].body
      BY <1>1, <1>2, <2>1 DEF CopyAt, Renaming, Src, Dst
    <3>2. /\ data[Src(p)] \in Bodies /\ meta[Src(p)] \in Documents
          /\ acked[Src(p)] = Version(data[Src(p)], meta[Src(p)])
      BY <1>2, <1>5, <2>1, <3>1, ObjectFound DEF Held, Renaming
    <3>. QED
      BY <2>1, <3>1, <3>2 DEF Held, Renaming, Version, Versions, Documents
  <2>2. CASE pc[p] \notin PutCalls
    <3>1. /\ Dst(p) \notin dirty /\ acked[Dst(p)] \in Versions
          /\ acked[Dst(p)] = Version(got[p].body, [etag |-> Md5(got[p].body),
                                                   attrs |-> got[p].attrs])
      BY <1>1, <1>2, <1>3, <2>2 DEF CopyAt, Renaming, Src, Dst
    <3>. QED
      BY <2>2, <3>1 DEF Held, Version
  <2>. QED
    BY <2>1, <2>2
<1>7. Held(p) \in Resources /\ Held(p) \notin Torn
  BY <1>2, <1>5, <1>6, QuietAlone DEF Held, Resources, Torn, IInv
<1>. QED
  BY <1>2, <1>3, <1>5, <1>6, <1>7

\* A step that leaves alone what is on disk keeps the body of a rename.
LEMMA RenameStays ==
    ASSUME IInv, AnswersInv, NEW p \in Workers, Renaming(p),
           UNCHANGED [x \in Resources |-> OnDisk(x)]
    PROVE  Kept(p)
<1>1. PICK x \in {Src(p), Dst(p)} : x = Held(p)
  BY DEF Held
<1>2. x \in Resources /\ x \notin Torn /\ acked[x] \in Versions /\ acked[x].body = got[p].body
  BY <1>1, RenameHolds
<1>3. OnDisk(x)' = OnDisk(x) /\ OnDisk(x) = acked[x]
  BY <1>2, OnDiskIs
<1>. QED
  BY <1>2, <1>3 DEF Kept

\* So does one that leaves the resource held as it is acknowledged.
LEMMA RenameFramed ==
    ASSUME IInv, IInv', AnswersInv, NEW p \in Workers, Renaming(p),
           acked'[Held(p)] = acked[Held(p)], Held(p) \notin Torn'
    PROVE  Kept(p)
<1>1. PICK x \in {Src(p), Dst(p)} : x = Held(p)
  BY DEF Held
<1>2. /\ x \in Resources /\ acked[x] \in Versions /\ acked[x].body = got[p].body
      /\ acked'[x] = acked[x] /\ x \notin Torn'
  BY <1>1, RenameHolds
<1>3. OnDisk(x)' = acked[x]
  BY <1>2, OnDiskIsNext
<1>. QED
  BY <1>2, <1>3 DEF Kept

\* The calls of the rename itself.
LEMMA RenameMoves ==
    ASSUME IInv, IInv', AnswersInv, NEW p \in Workers, Renaming(p), Step(p)
    PROVE  Kept(p)
<1> DEFINE x == Held(p)
<1>1. /\ req' = req /\ pc[p] \in PutCalls \cup {"CopyMeta"} \cup DelCalls
      /\ Src(p) # Dst(p) /\ Dst(p)' = Dst(p)
      /\ x \in Resources /\ x \in quiet[p] /\ x \notin Torn
      /\ req[p].op = "Rename"
  BY RenameHolds, OwnStep DEF Dst, Renaming
<1>2. \A q \in Workers \ {p} : Flux(q)' = Flux(q)
  BY StepPays DEF Pays, Effect, Flux
<1>3. /\ acked'[x] = acked[x] /\ (x \in dirty' => x \in dirty)
      /\ x \notin Flux(p)'
  <2>1. CASE pc[p] \in PutCalls
    <3>1. x = Src(p) /\ AfterPut(p) = "CopyMeta"
      BY <1>1, <2>1 DEF Held, AfterPut
    <3>2. /\ acked'[x] = acked[x] /\ (x \in dirty' => x \in dirty)
          /\ pc'[p] \in PutCalls \cup {"CopyMeta", "done"}
      BY <1>1, <2>1, <3>1, PutCallsStep
    <3>. QED
      BY <1>1, <3>1, <3>2, NoFlux, FluxAt
  <2>2. CASE pc[p] = "CopyMeta"
    <3>1. UNCHANGED <<acked, dirty>> /\ pc'[p] \in {"done", "DelExists"}
      BY <1>1, <2>2, CopyMetaStep, StepCalls
    <3>. QED
      BY <3>1, NoFlux
  <2>3. CASE pc[p] \in DelCalls
    <3>1. x = Dst(p) /\ Head(todo[p]) = Src(p)
      BY <1>1, <2>3, OneLeft DEF Held, Renaming, Src
    <3>2. /\ acked'[x] = acked[x] /\ (x \in dirty' => x \in dirty)
          /\ pc'[p] \in DelCalls \cup {"done"} /\ (pc'[p] = "DelMeta" => todo' = todo)
      BY <1>1, <2>3, <3>1, DelCallsStep
    <3>. QED
      BY <1>1, <3>1, <3>2, NoFlux, FluxAt
  <2>. QED
    BY <1>1, <2>1, <2>2, <2>3
<1>4. x \notin Torn'
  BY <1>1, <1>2, <1>3 DEF Torn
<1>. QED
  BY <1>3, <1>4, RenameFramed

\* The calls of another request.
LEMMA RenameUndisturbed ==
    ASSUME IInv, IInv', AnswersInv, NEW p \in Workers, Renaming(p),
           NEW o \in Workers \ {p}, Step(o)
    PROVE  Kept(p)
<1> DEFINE x == Held(p)
<1>1. x \in Resources /\ x \in quiet[p] /\ x \notin Torn
  BY RenameHolds
<1>2. PICK S \in SUBSET Resources : Effect(o, S)
  BY StepPays DEF Pays
<1>3. quiet' = quiet /\ (\A q \in Workers \ {o} : Flux(q)' = Flux(q))
  BY <1>2 DEF Effect, Flux
<1>4. x \notin Flux(o)'
  BY <1>1, <1>2 DEF Effect, IInv, Exclusive
<1>5. acked'[x] = acked[x] /\ x \notin dirty'
  BY <1>1, <1>3, StillStep DEF Still, Torn
<1>6. x \notin Torn'
  BY <1>1, <1>3, <1>4, <1>5 DEF Torn
<1>. QED
  BY <1>5, <1>6, RenameFramed

LEMMA RenamesSay ==
    ASSUME IInv, IInv', AnswersInv, NEW p \in Workers, Renaming(p), Next
    PROVE  Kept(p)
<1>1. ASSUME NEW o \in Workers, Step(o) PROVE Kept(p)
  BY <1>1, RenameMoves, RenameUndisturbed
<1>2. ASSUME NEW o \in Workers, Respond(o) PROVE Kept(p)
  BY <1>2, StoreRespond, RenameStays
<1>3. ASSUME NEW o \in Workers, NEW r, IsRequest(r), Begin(o, r) PROVE Kept(p)
  BY <1>3, StoreClaim, RenameStays DEF Store!Claim
<1>4. CASE Crash
  BY <1>4, StoreRestart, RenameStays DEF Store!Restart
<1>. QED
  BY <1>1, <1>2, <1>3, <1>4, RequestsAssumption DEF Next

LEMMA ListingsSay ==
    ASSUME AnswersInv PROVE ListingsAreComplete
BY DEF AnswersInv, AnswersAt, ListingAt, ListedOf, ListingsAreComplete, Answered, Undisturbed

LEMMA BucketsSay ==
    ASSUME AnswersInv PROVE BucketAnswersAreExact
<1> SUFFICES ASSUME NEW p \in Workers, pc[p] = "done"
             PROVE  LET b == req[p].bucket IN
                    /\ req[p].op \in {"HeadBucket", "GetBucketLocation"} /\ Undisturbed(p, b)
                       => got[p].code = IF acked[b] = None THEN "NoSuchBucket" ELSE "OK"
                    /\ Answered(p, "CreateBucket", "OK") /\ b \in quiet[p]
                       => b \notin dirty /\ acked[b] = Registered
                    /\ Answered(p, "CreateBucket", "BucketAlreadyExists") /\ Undisturbed(p, b)
                       => acked[b] = Registered
                    /\ Answered(p, "DeleteBucket", "OK")
                       => /\ b \in quiet[p] => b \notin dirty /\ acked[b] = None
                          /\ \A a \in ObjectsOf(b) : Undisturbed(p, a) => acked[a] = None
                    /\ Answered(p, "DeleteBucket", "NoSuchBucket") /\ Undisturbed(p, b)
                       => acked[b] = None
                    /\ Answered(p, "DeleteBucket", "BucketNotEmpty")
                          /\ {b} \cup ObjectsOf(b) \subseteq quiet[p]
                       => b \in litter \/ \E a \in ObjectsOf(b) : data[a] # None
  BY DEF BucketAnswersAreExact
<1>1. BucketAt(p)
  BY DEF AnswersInv, AnswersAt
<1>. QED
  BY <1>1 DEF BucketAt

\* GetObject and HeadObject answer from two and three calls as if from one:
\* with one whole version, the acknowledged one, and 404 only for what is not
\* there.
THEOREM ReadsAreExactCorrect == Spec => []ReadsAreExact
BY ReadsSay, AnswersInvariant, PTL

\* A PUT that is answered 200 has stored what it was sent, whatever a crash or
\* a failed write had left there, and reports the MD5 of it.
THEOREM PutRepairsCorrect == Spec => []PutRepairs
BY PutsSay, AnswersInvariant, PTL

\* A DELETE, a batch and a rename have deleted every key they named when they
\* answer 200, and the keys before the one they were at when they gave up.
THEOREM DeletesTakeEffectCorrect == Spec => []DeletesTakeEffect
BY DeletesSay, AnswersInvariant, PTL

\* A copy has the body and the headers its source has, the MD5 of that body,
\* and is what the answer says.
THEOREM CopiesAreExactCorrect == Spec => []CopiesAreExact
BY CopiesSay, AnswersInvariant, PTL

\* Every step of RenameObject, a failing one included, and every step beside it,
\* a crash included, leaves the body it has in hand under one of the two names.
THEOREM RenameKeepsACopyCorrect == Spec => RenameKeepsACopy
<1>1. ASSUME IInv, IInv', AnswersInv, [Next]_vars
      PROVE  [\A p \in Workers, s, d \in Objects :
                 /\ Active(p) /\ req[p].op = "Rename" /\ req[p].src = s /\ req[p].dst = d
                 /\ got[p].body # None /\ {s, d} \subseteq quiet[p] /\ s \notin dirty
                 => \E x \in {s, d} :
                        OnDisk(x)' \in Versions /\ OnDisk(x)'.body = got[p].body]_vars
  <2>1. ASSUME NEW p \in Workers, Renaming(p), Next PROVE Kept(p)
    BY <1>1, <2>1, RenamesSay
  <2>. QED
    BY <1>1, <2>1 DEF Renaming, Kept, Src, Dst
<1>. QED
  BY <1>1, InvariantHolds, AnswersInvariant, PTL DEF Spec, RenameKeepsACopy

\* ListObjects and ListBuckets show every acknowledged entry and no deleted
\* one, however many calls the listing takes.
THEOREM ListingsAreCompleteCorrect == Spec => []ListingsAreComplete
BY ListingsSay, AnswersInvariant, PTL

\* HEAD, ?location and PUT of a bucket agree on whether it exists, and a DELETE
\* that answers 404 or 204 agrees with them; 409 means that it found a file.
THEOREM BucketAnswersAreExactCorrect == Spec => []BucketAnswersAreExact
BY BucketsSay, AnswersInvariant, PTL

=============================================================================
