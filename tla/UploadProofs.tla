---------------------------- MODULE UploadProofs ----------------------------
(***************************************************************************)
(* The whole server: what Backend promises of objects and buckets holds    *)
(* with multipart requests beside it, and what a multipart request is      *)
(* answered is exact.                                                      *)
(*                                                                         *)
(* A call of Multipart writes no file of an object or a bucket (Beside),   *)
(* so the invariant of the plain requests is kept (BesideTypes,            *)
(* BesideKeeps); the second metadata write of a completion is a write of   *)
(* PutObject again, and AgainOK is what makes it one.                      *)
(***************************************************************************)
EXTENDS MultipartProofs, BackendRequests, MultipartAnswers

USE DEF FluxCalls, InHand

----------------------------------------------------------------------------
(***************************************************************************)
(* Calls of Multipart, as the object and bucket requests see them.         *)
(***************************************************************************)
\* p goes on to l with g in hand and touches no file of an object or a bucket.
Beside(p, l, g) ==
    /\ pc' = [pc EXCEPT ![p] = l]
    /\ got' = [got EXCEPT ![p] = g]
    /\ pc[p] \notin FluxCalls \cup {"idle", "done"} /\ l \in AllLabels \ {"idle"}
    /\ IsAnswer(g) /\ InHand(l, g)
    /\ ControlAt(req[p].op, l)
    /\ l \notin DelCalls \cup {"PutCopy", "PutRename", "CreateRegistry", "CreateOpen"}
    /\ UNCHANGED <<bucketFile, data, meta, litter, history, req, temp, todo>>
    /\ dirs' \in [Buckets -> SUBSET DirNames]
    /\ \A b \in Buckets : "bucket" \in dirs[b] => "bucket" \in dirs'[b]
    /\ unlinked' \in [Workers -> BOOLEAN]
    /\ \A q \in Workers : pc[q] \in FluxCalls => unlinked'[q] = unlinked[q]
    /\ DOMAIN scan' = Workers
    /\ \A q \in Workers \ {p} : scan'[q] \subseteq scan[q]
    /\ ScanOK(req[p].op, scan'[p])

\* Every variable keeps a value of its kind.
LEMMA BesideTypes ==
    ASSUME TypeInv, NEW p \in Workers, NEW l, NEW g, Beside(p, l, g),
           pc[p] \notin {"PutCopy", "PutRename"}
    PROVE  TypeInv'
<1> USE DEF Beside
<1>1. Moves(p, l, g)
  BY DEF Moves, TypeInv, TypesOK, ServersOK
<1>2. temp'[p] = None /\ todo'[p] \in Seq(Range(req[p].dels))
  BY DEF TypeInv, TypesOK, ServersOK, BodiesOK, TodoOK
<1>3. req[p].op \in {"Rename", "Delete"} => todo'[p] # <<>>
  BY DEF TypeInv, TodoOK, Active
<1>4. Ready(p, l, g)
  BY <1>2, <1>3 DEF Ready
<1>5. DiskTypeOK' /\ HistoryTypeOK' /\ \A a \in Objects : data'[a] # Garbled
  BY DEF TypeInv, TypesOK, DiskTypeOK, HistoryTypeOK, BodiesOK, history
<1>. QED
  BY <1>1, <1>4, <1>5, MovesTypes

\* Nothing is mutated, so what was quiet is.
LEMMA BesideExclusive ==
    ASSUME Exclusive, NEW p \in Workers, NEW l, NEW g, Beside(p, l, g)
    PROVE  Exclusive'
<1>1. \A q \in Workers : Active(q)' => Active(q)
  BY DEF Beside, Active
<1>. QED
  BY <1>1 DEF Beside, Exclusive, history

\* Unless p goes on to write a metadata file or to remove a bucket, the
\* invariant of the plain requests is kept.
LEMMA BesideKeeps ==
    ASSUME IInv, NEW p \in Workers, NEW l, NEW g, Beside(p, l, g),
           pc[p] \notin {"PutCopy", "PutRename"}, l \notin FluxCalls \cup RemoveCalls
    PROVE  IInv'
<1> USE DEF Beside
<1>1. TypeInv' /\ Exclusive'
  BY BesideTypes, BesideExclusive DEF IInv
<1>2. \A q \in Workers : q # p => pc'[q] = pc[q] /\ got'[q] = got[q]
  BY DEF IInv, TypeInv, TypesOK, ServersOK
<1>3. pc'[p] = l
  BY DEF IInv, TypeInv, TypesOK, ServersOK
<1>. QED
  BY <1>1, <1>2, <1>3, IdleKeeps DEF history

\* The calls at which only a request about uploads can be.
OwnCalls == UploadLabels \ {"RmdirUploads"}

\* A request about uploads goes on to a call of its own or to PutObject, or
\* it ends.
LEMMA UploadBeside ==
    ASSUME TypeInv, NEW p \in Workers, pc[p] \in OwnCalls,
           NEW l \in OwnCalls \cup {"done", "PutExists", "MetaMkdir"},
           l \in {"PutExists", "MetaMkdir"} => req[p].op = "Complete",
           NEW g, IsAnswer(g), InHand(l, g), Goto(p, l), got' = [got EXCEPT ![p] = g],
           UNCHANGED <<bucketFile, data, meta, litter, history, req, temp, todo>>,
           dirs' \in [Buckets -> SUBSET DirNames],
           \A b \in Buckets : "bucket" \in dirs[b] => "bucket" \in dirs'[b],
           unlinked' \in [Workers -> BOOLEAN],
           \A q \in Workers : pc[q] \in FluxCalls => unlinked'[q] = unlinked[q],
           DOMAIN scan' = Workers, \A q \in Workers \ {p} : scan'[q] \subseteq scan[q]
    PROVE  Beside(p, l, g)
<1>1. req[p].op \in UploadOps
  BY DEF TypeInv, ControlOK, ControlAt, OwnCalls
<1>2. req[p].op \notin Ops
  BY <1>1 DEF UploadOps, JobOps, Ops, Readers, Writers, Deleters, BucketOps
<1>3. l \in AllLabels \ {"idle"}
  BY DEF AllLabels, OwnCalls, UploadLabels, Labels
<1>4. ControlAt(req[p].op, l)
  BY <1>1 DEF ControlAt, OwnCalls, UploadLabels, GetCalls, PutCalls, HeadCalls, DelCalls,
     ListCalls, CreateCalls, RemoveCalls, DeleteCalls, Writers
<1>5. /\ pc[p] \notin FluxCalls \cup {"idle", "done"}
      /\ l \notin DelCalls \cup {"PutCopy", "PutRename", "CreateRegistry", "CreateOpen"}
  BY DEF OwnCalls, UploadLabels, DelCalls
<1>. QED
  BY <1>2, <1>3, <1>4, <1>5 DEF Beside, ScanOK, Goto

\* The same, when p only looks or works on files of an upload.
LEMMA ElsewhereBeside ==
    ASSUME TypeInv, NEW p \in Workers, pc[p] \in OwnCalls,
           NEW l \in OwnCalls \cup {"done", "PutExists", "MetaMkdir"},
           l \in {"PutExists", "MetaMkdir"} => req[p].op = "Complete",
           NEW g, IsAnswer(g), InHand(l, g), Goto(p, l), got' = [got EXCEPT ![p] = g],
           Elsewhere,
           unlinked' \in [Workers -> BOOLEAN],
           \A q \in Workers : pc[q] \in FluxCalls => unlinked'[q] = unlinked[q],
           DOMAIN scan' = Workers, \A q \in Workers \ {p} : scan'[q] \subseteq scan[q]
    PROVE  Beside(p, l, g)
<1>1. UNCHANGED <<bucketFile, dirs, data, meta, litter, history, req, temp, todo>>
  BY DEF Elsewhere, disk
<1>2. dirs' \in [Buckets -> SUBSET DirNames]
  BY <1>1 DEF TypeInv, TypesOK, DiskTypeOK
<1>. QED
  BY <1>1, <1>2, UploadBeside

\* A call that makes one of those moves, to anywhere but MetaMkdir.
Aside(p) == \E l, g : Beside(p, l, g) /\ l \in OwnCalls \cup {"done", "PutExists"}
                      /\ pc[p] \in OwnCalls

LEMMA AsideKeeps ==
    ASSUME IInv, NEW p \in Workers, Aside(p)
    PROVE  IInv'
<1>1. PICK l, g : /\ Beside(p, l, g) /\ l \in OwnCalls \cup {"done", "PutExists"}
                  /\ pc[p] \in OwnCalls
  BY DEF Aside
<1>2. /\ pc[p] \notin {"PutCopy", "PutRename"}
      /\ l \notin FluxCalls \cup RemoveCalls
  BY <1>1 DEF OwnCalls, UploadLabels, RemoveCalls
<1>. QED
  BY <1>1, <1>2, BesideKeeps

\* A request that fails.
LEMMA FailAside ==
    ASSUME TypeInv, NEW p \in Workers, pc[p] \in OwnCalls, NEW code \in Codes,
           Fail(p, code), Elsewhere,
           unlinked' \in [Workers -> BOOLEAN],
           \A q \in Workers : pc[q] \in FluxCalls => unlinked'[q] = unlinked[q],
           DOMAIN scan' = Workers, \A q \in Workers \ {p} : scan'[q] \subseteq scan[q]
    PROVE  Aside(p)
<1> DEFINE g == [Nothing EXCEPT !.code = code]
<1>1. IsAnswer(g)
  BY DEF Nothing, IsAnswer, AnswersWith
<1>2. Goto(p, "done") /\ got' = [got EXCEPT ![p] = g]
  BY DEF Fail, Finish
<1> HIDE DEF g
<1>3. InHand("done", g)
  BY DEF PutCalls
<1>4. Beside(p, "done", g)
  BY <1>1, <1>2, <1>3, ElsewhereBeside
<1>. QED
  BY <1>4 DEF Aside

\* A request that succeeds.
LEMMA SucceedAside ==
    ASSUME TypeInv, NEW p \in Workers, pc[p] \in OwnCalls, Succeed(p), Elsewhere,
           unlinked' \in [Workers -> BOOLEAN],
           \A q \in Workers : pc[q] \in FluxCalls => unlinked'[q] = unlinked[q],
           DOMAIN scan' = Workers, \A q \in Workers \ {p} : scan'[q] \subseteq scan[q]
    PROVE  Aside(p)
<1> DEFINE g == [got[p] EXCEPT !.code = "OK"]
<1>1. IsAnswer(g)
  BY AnswerTypes DEF TypeInv, TypesOK, ServersOK, Codes
<1>2. Goto(p, "done") /\ got' = [got EXCEPT ![p] = g]
  BY DEF Succeed, Finish
<1> HIDE DEF g
<1>3. InHand("done", g)
  BY DEF PutCalls
<1>4. Beside(p, "done", g)
  BY <1>1, <1>2, <1>3, ElsewhereBeside
<1>. QED
  BY <1>4 DEF Aside

\* A request that goes on to another call of Multipart.
LEMMA GotoAside ==
    ASSUME TypeInv, NEW p \in Workers, pc[p] \in OwnCalls, NEW l \in OwnCalls,
           Goto(p, l), NEW g, IsAnswer(g), got' = [got EXCEPT ![p] = g], Elsewhere,
           unlinked' \in [Workers -> BOOLEAN],
           \A q \in Workers : pc[q] \in FluxCalls => unlinked'[q] = unlinked[q],
           DOMAIN scan' = Workers, \A q \in Workers \ {p} : scan'[q] \subseteq scan[q]
    PROVE  Aside(p)
<1>1. InHand(l, g)
  BY DEF OwnCalls, UploadLabels, PutCalls
<1>2. l \notin {"PutExists", "MetaMkdir"}
  BY DEF OwnCalls, UploadLabels
<1>3. Beside(p, l, g)
  BY <1>1, <1>2, ElsewhereBeside
<1>. QED
  BY <1>3 DEF Aside

\* The same with nothing new in hand.
LEMMA StayAside ==
    ASSUME TypeInv, NEW p \in Workers, pc[p] \in OwnCalls, NEW l \in OwnCalls,
           Goto(p, l), got' = got, Elsewhere,
           unlinked' \in [Workers -> BOOLEAN],
           \A q \in Workers : pc[q] \in FluxCalls => unlinked'[q] = unlinked[q],
           DOMAIN scan' = Workers, \A q \in Workers \ {p} : scan'[q] \subseteq scan[q]
    PROVE  Aside(p)
<1>1. got' = [got EXCEPT ![p] = got[p]] /\ IsAnswer(got[p])
  BY DEF TypeInv, TypesOK, ServersOK
<1>. QED
  BY <1>1, GotoAside

\* Of a call that only looks.
LEMMA LookFacts ==
    ASSUME TypeInv, Look
    PROVE  /\ Elsewhere /\ unlinked' \in [Workers -> BOOLEAN]
           /\ \A q \in Workers : unlinked'[q] = unlinked[q]
           /\ scan' = scan => /\ DOMAIN scan' = Workers
                              /\ \A q \in Workers : scan'[q] \subseteq scan[q]
BY DEF Look, Elsewhere, TypeInv, TypesOK, ServersOK

\* The buckets are looked at.
LEMMA BucketKnownAside ==
    ASSUME TypeInv, NEW p \in Workers, NEW label \in OwnCalls, NEW next \in OwnCalls,
           BucketKnown(p, label, next)
    PROVE  Aside(p)
<1>1. pc[p] \in OwnCalls /\ Look /\ scan' = scan
  BY DEF BucketKnown, LookUpload
<1>2. (Goto(p, next) /\ got' = got) \/ Fail(p, "NoSuchBucket")
  BY DEF BucketKnown, FailUpload
<1>. QED
  BY <1>1, <1>2, LookFacts, StayAside, FailAside DEF Codes

\* MkdirAll of the upload's directory.
LEMMA UploadMkdirAside ==
    ASSUME TypeInv, PartsInv, NEW p \in Workers, UploadMkdir(p)
    PROVE  Aside(p)
<1>1. pc[p] = "UploadMkdir" /\ pc[p] \in OwnCalls /\ "DocOpen" \in OwnCalls
  BY DEF UploadMkdir, OwnCalls, UploadLabels
<1>2. dirs' \in [Buckets -> SUBSET DirNames]
  BY DEF UploadMkdir, TypeInv, TypesOK, DiskTypeOK, DirNames, SubDirs
<1>3. \A b \in Buckets : "bucket" \in dirs[b] => "bucket" \in dirs'[b]
  BY DEF UploadMkdir, TypeInv, TypesOK, DiskTypeOK
<1>4. /\ got' = [got EXCEPT ![p] = got[p]] /\ IsAnswer(got[p]) /\ InHand("DocOpen", got[p])
      /\ unlinked' \in [Workers -> BOOLEAN] /\ DOMAIN scan' = Workers
  BY DEF UploadMkdir, TypeInv, TypesOK, ServersOK, PutCalls
<1>5. Beside(p, "DocOpen", got[p])
  BY <1>1, <1>2, <1>3, <1>4, UploadBeside DEF UploadMkdir
<1>. QED
  BY <1>1, <1>5 DEF Aside

\* The first half of a document's write.
LEMMA DocOpenAside ==
    ASSUME TypeInv, NEW p \in Workers, DocOpen(p)
    PROVE  Aside(p)
<1>1. pc[p] = "DocOpen" /\ pc[p] \in OwnCalls /\ "DocWrite" \in OwnCalls
  BY DEF DocOpen, OwnCalls, UploadLabels
<1>2. /\ Elsewhere /\ unlinked' \in [Workers -> BOOLEAN] /\ scan' = scan /\ DOMAIN scan = Workers
      /\ \A q \in Workers : pc[q] \in FluxCalls => unlinked'[q] = unlinked[q]
  BY <1>1 DEF DocOpen, TypeInv, TypesOK, ServersOK
<1>3. (Goto(p, "DocWrite") /\ got' = got) \/ Fail(p, "InternalError")
  BY DEF DocOpen, FailUpload
<1>. QED
  BY <1>1, <1>2, <1>3, StayAside, FailAside DEF Codes

\* The second half.
LEMMA DocWriteAside ==
    ASSUME TypeInv, NEW p \in Workers, DocWrite(p)
    PROVE  Aside(p)
<1>1. pc[p] = "DocWrite" /\ pc[p] \in OwnCalls
  BY DEF DocWrite, OwnCalls, UploadLabels
<1>2. /\ Elsewhere /\ unlinked' \in [Workers -> BOOLEAN] /\ scan' = scan /\ DOMAIN scan = Workers
      /\ \A q \in Workers : pc[q] \in FluxCalls => unlinked'[q] = unlinked[q]
  BY <1>1 DEF DocWrite, TypeInv, TypesOK, ServersOK
<1>3. Succeed(p) \/ Fail(p, "InternalError")
  BY DEF DocWrite, FailUpload
<1>. QED
  BY <1>1, <1>2, <1>3, SucceedAside, FailAside DEF Codes

\* The number of a part is looked at.
LEMMA PartNumberAside ==
    ASSUME TypeInv, NEW p \in Workers, PartNumber(p)
    PROVE  Aside(p)
<1>1. /\ pc[p] = "PartNumber" /\ pc[p] \in OwnCalls /\ "UploadExists" \in OwnCalls
      /\ Look /\ scan' = scan
  BY DEF PartNumber, LookUpload, OwnCalls, UploadLabels
<1>2. (Goto(p, "UploadExists") /\ got' = got) \/ Fail(p, "InvalidPart")
  BY DEF PartNumber, FailUpload
<1>. QED
  BY <1>1, <1>2, LookFacts, StayAside, FailAside DEF Codes

\* The headers of the upload are in hand from here on.
LEMMA UploadReadAside ==
    ASSUME TypeInv, PartsInv, NEW p \in Workers, UploadRead(p)
    PROVE  Aside(p)
<1> DEFINE state == doc[Path(p)]
<1>1. pc[p] = "UploadRead" /\ pc[p] \in OwnCalls /\ Look /\ scan' = scan
  BY DEF UploadRead, LookUpload, OwnCalls, UploadLabels
<1>2. CASE Fail(p, "NoSuchUpload") \/ Fail(p, "InternalError")
  BY <1>1, <1>2, LookFacts, FailAside DEF Codes
<1>3. CASE /\ state \in Sessions
           /\ Goto(p, AfterRead[req[p].op])
           /\ got' = [got EXCEPT ![p].attrs = state.attrs]
  <2>1. IsAnswer([got[p] EXCEPT !.attrs = state.attrs])
    BY <1>3 DEF Sessions, IsAnswer, AnswersWith, TypeInv, TypesOK, ServersOK
  <2>2. got' = [got EXCEPT ![p] = [got[p] EXCEPT !.attrs = state.attrs]]
    BY <1>3
  <2>3. req[p].op \in PartOps \cup {"Complete", "Abort", "ListParts"}
    BY <1>1 DEF PartsInv, WorkerOK, RequestOK, UploadControlAt
  <2>4. AfterRead[req[p].op] \in OwnCalls
    BY <2>3 DEF AfterRead, PartOps, OwnCalls, UploadLabels
  <2>. QED
    BY <1>1, <1>3, <2>1, <2>2, <2>4, LookFacts, GotoAside
<1>. QED
  BY <1>2, <1>3 DEF UploadRead, FailUpload

\* A temp file is made in the upload's directory: who is removing the
\* directory does not know its name.
LEMMA CreateTempAside ==
    ASSUME TypeInv, NEW p \in Workers, pc[p] \in OwnCalls, NEW next \in OwnCalls,
           CreateTemp(p, next)
    PROVE  Aside(p)
<1>1. Elsewhere /\ unlinked' = unlinked /\ unlinked' \in [Workers -> BOOLEAN]
  BY DEF CreateTemp, TypeInv, TypesOK, ServersOK
<1>2. DOMAIN scan' = Workers /\ \A q \in Workers : scan'[q] \subseteq scan[q]
  BY DEF CreateTemp, TypeInv, TypesOK, ServersOK
<1>3. (Goto(p, next) /\ got' = got) \/ Fail(p, "InternalError")
  BY DEF CreateTemp, FailUpload
<1>. QED
  BY <1>1, <1>2, <1>3, StayAside, FailAside DEF Codes

LEMMA PartTempAside ==
    ASSUME TypeInv, NEW p \in Workers, PartTemp(p)
    PROVE  Aside(p)
<1>1. pc[p] \in OwnCalls /\ "PartCopy" \in OwnCalls
  BY DEF PartTemp, OwnCalls, UploadLabels
<1>. QED
  BY <1>1, CreateTempAside DEF PartTemp

LEMMA CombinedTempAside ==
    ASSUME TypeInv, NEW p \in Workers, CombinedTemp(p)
    PROVE  Aside(p)
<1>1. pc[p] \in OwnCalls /\ "CombineMeta" \in OwnCalls
  BY DEF CombinedTemp, OwnCalls, UploadLabels
<1>2. CASE CreateTemp(p, "CombineMeta")
  BY <1>1, <1>2, CreateTempAside
<1>3. CASE FailUpload(p, "InvalidPart") /\ LookUpload
  BY <1>1, <1>3, LookFacts, FailAside DEF FailUpload, LookUpload, Codes
<1>. QED
  BY <1>2, <1>3 DEF CombinedTemp

\* The body of a part is written to the temp file.
LEMMA PartCopyAside ==
    ASSUME TypeInv, NEW p \in Workers, PartCopy(p)
    PROVE  Aside(p)
<1>1. /\ pc[p] \in OwnCalls /\ "PartRename" \in OwnCalls /\ Look /\ scan' = scan
  BY DEF PartCopy, LookUpload, OwnCalls, UploadLabels
<1>2. (Goto(p, "PartRename") /\ got' = got) \/ Fail(p, "InternalError")
  BY DEF PartCopy, FailUpload
<1>. QED
  BY <1>1, <1>2, LookFacts, StayAside, FailAside DEF Codes

\* It takes the name of the part.
LEMMA PartRenameAside ==
    ASSUME TypeInv, NEW p \in Workers, PartRename(p)
    PROVE  Aside(p)
<1>1. pc[p] \in OwnCalls /\ "DocOpen" \in OwnCalls
  BY DEF PartRename, OwnCalls, UploadLabels
<1>2. /\ Elsewhere /\ unlinked' = unlinked /\ unlinked' \in [Workers -> BOOLEAN]
      /\ scan' = scan /\ DOMAIN scan = Workers
  BY DEF PartRename, TypeInv, TypesOK, ServersOK
<1>3. (Goto(p, "DocOpen") /\ got' = got) \/ Fail(p, "InternalError")
  BY DEF PartRename, FailUpload
<1>. QED
  BY <1>1, <1>2, <1>3, StayAside, FailAside DEF Codes

\* The document of the next selected part is looked at.
LEMMA CombineMetaAside ==
    ASSUME TypeInv, NEW p \in Workers, CombineMeta(p)
    PROVE  Aside(p)
<1>1. /\ pc[p] \in OwnCalls /\ "CombineData" \in OwnCalls /\ Look /\ scan' = scan
  BY DEF CombineMeta, LookUpload, OwnCalls, UploadLabels
<1>2. (Goto(p, "CombineData") /\ got' = got) \/ Fail(p, "InvalidPart")
  BY DEF CombineMeta, FailUpload
<1>. QED
  BY <1>1, <1>2, LookFacts, StayAside, FailAside DEF Codes

\* Bodies are joined to bodies.
LEMMA JoinTypes ==
    ASSUME NEW b \in Bodies \cup {None}, NEW c \in Bodies
    PROVE  Join(b, c) \in Bodies
<1>1. CASE b = None
  BY <1>1 DEF Join
<1>2. CASE b # None
  <2>1. b \in Seq(Bytes) /\ c \in Seq(Bytes)
    BY <1>2, BodiesAssumption
  <2>2. b \o c \in Seq(Bytes)
    BY <2>1
  <2>. QED
    BY <1>2, <2>2, BodiesAssumption DEF Join
<1>. QED
  BY <1>1, <1>2

\* Its data is joined to what was read before.
LEMMA CombineDataAside ==
    ASSUME TypeInv, PartsInv, UploadInv, NEW p \in Workers, CombineData(p)
    PROVE  Aside(p)
<1> DEFINE body == partData[Item(p)]
<1>1. pc[p] \in OwnCalls /\ Look /\ scan' = scan
  BY DEF CombineData, LookUpload, OwnCalls, UploadLabels
<1>2. CASE Fail(p, "InvalidPart") \/ Fail(p, "InternalError")
  BY <1>1, <1>2, LookFacts, FailAside DEF Codes
<1>3. CASE /\ body # None
           /\ Goto(p, IF job[p].left = {} THEN "CombinedOpen" ELSE "CombineMeta")
           /\ got' = [got EXCEPT ![p].body = Join(@, body)]
  <2> DEFINE g == [got[p] EXCEPT !.body = Join(got[p].body, body)]
  <2>1. pc[p] = "CombineData" /\ req[p].op = "Complete" /\ Path(p) \in Paths
    BY DEF CombineData, PartsInv, WorkerOK, RequestOK, UploadControlAt, CombineCalls, JobOps
  <2>2. job[p].part \in 1..PartCount
    BY <2>1 DEF UploadInv, UploadAt, CompleteAt
  <2>3. body \in Bodies
    BY <1>3, <2>1, <2>2 DEF UploadInv, UploadValuesOK, Item, Parts
  <2>4. IsAnswer(got[p]) /\ got[p].body \in Bodies \cup {None}
    BY DEF TypeInv, TypesOK, ServersOK, IsAnswer, AnswersWith
  <2>5. Join(got[p].body, body) \in Bodies
    BY <2>3, <2>4, JoinTypes
  <2>6. IsAnswer(g)
    BY <2>4, <2>5 DEF IsAnswer, AnswersWith
  <2>7. got' = [got EXCEPT ![p] = g]
    BY <1>3
  <2>8. {"CombinedOpen", "CombineMeta"} \subseteq OwnCalls
    BY DEF OwnCalls, UploadLabels
  <2> HIDE DEF g
  <2>. QED
    BY <1>1, <1>3, <2>6, <2>7, <2>8, LookFacts, GotoAside
<1>. QED
  BY <1>2, <1>3 DEF CombineData, FailUpload

\* What was joined is handed to PutObject, with the headers of the upload.
LEMMA CombinedOpenAside ==
    ASSUME TypeInv, PartsInv, UploadInv, NEW p \in Workers, CombinedOpen(p)
    PROVE  Aside(p)
<1>1. pc[p] = "CombinedOpen" /\ pc[p] \in OwnCalls /\ Look /\ scan' = scan
  BY DEF CombinedOpen, LookUpload, OwnCalls, UploadLabels
<1>2. CASE Fail(p, "InternalError")
  BY <1>1, <1>2, LookFacts, FailAside DEF Codes
<1>3. CASE Goto(p, "PutExists") /\ got' = got
  <2>1. req[p].op = "Complete"
    BY <1>1 DEF PartsInv, WorkerOK, RequestOK, UploadControlAt, CombineCalls
  <2>2. IsAnswer(got[p]) /\ got' = [got EXCEPT ![p] = got[p]]
    BY <1>3 DEF TypeInv, TypesOK, ServersOK
  <2>3. InHand("PutExists", got[p])
    BY <1>1 DEF UploadInv, InHandOK, CombineCalls
  <2>4. Beside(p, "PutExists", got[p])
    BY <1>1, <1>3, <2>1, <2>2, <2>3, LookFacts, ElsewhereBeside
  <2>. QED
    BY <1>1, <2>4 DEF Aside
<1>. QED
  BY <1>2, <1>3 DEF CombinedOpen, FailUpload

\* RemoveAll of the upload's directory, name by name.
LEMMA RemoveNamesAside ==
    ASSUME TypeInv, NEW p \in Workers, RemoveNames(p)
    PROVE  Aside(p)
<1>1. pc[p] \in OwnCalls /\ "RemoveEntries" \in OwnCalls
  BY DEF RemoveNames, OwnCalls, UploadLabels
<1>2. /\ Elsewhere /\ unlinked' = unlinked /\ unlinked' \in [Workers -> BOOLEAN]
      /\ DOMAIN scan' = Workers /\ \A q \in Workers \ {p} : scan'[q] \subseteq scan[q]
      /\ Goto(p, "RemoveEntries") /\ got' = got
  BY DEF RemoveNames, TypeInv, TypesOK, ServersOK
<1>. QED
  BY <1>1, <1>2, StayAside

LEMMA RemoveEntryAside ==
    ASSUME TypeInv, NEW p \in Workers, RemoveEntry(p)
    PROVE  Aside(p)
<1>1. pc[p] = "RemoveEntries" /\ "RemoveEntries" \in OwnCalls
  BY DEF RemoveEntry, OwnCalls, UploadLabels
<1>2. Goto(p, "RemoveEntries") /\ got' = got /\ Elsewhere
  BY <1>1 DEF RemoveEntry, Goto, TypeInv, TypesOK, ServersOK
<1>3. /\ unlinked' \in [Workers -> BOOLEAN]
      /\ \A q \in Workers : pc[q] \in FluxCalls => unlinked'[q] = unlinked[q]
  BY DEF RemoveEntry, Unlink, TypeInv, TypesOK, ServersOK
<1>4. DOMAIN scan' = Workers /\ \A q \in Workers \ {p} : scan'[q] \subseteq scan[q]
  BY DEF RemoveEntry, TypeInv, TypesOK, ServersOK
<1>. QED
  BY <1>1, <1>2, <1>3, <1>4, StayAside

LEMMA RemoveFolderAside ==
    ASSUME TypeInv, NEW p \in Workers, RemoveFolder(p)
    PROVE  Aside(p)
<1>1. pc[p] \in OwnCalls
  BY DEF RemoveFolder, OwnCalls, UploadLabels
<1>2. /\ Elsewhere /\ unlinked' = unlinked /\ unlinked' \in [Workers -> BOOLEAN]
      /\ scan' = scan /\ DOMAIN scan = Workers
  BY DEF RemoveFolder, TypeInv, TypesOK, ServersOK
<1>3. Succeed(p) \/ Fail(p, "InternalError")
  BY DEF RemoveFolder, FailUpload
<1>. QED
  BY <1>1, <1>2, <1>3, SucceedAside, FailAside DEF Codes

\* The listings.
LEMMA PartsScanAside ==
    ASSUME TypeInv, NEW p \in Workers, PartsScan(p)
    PROVE  Aside(p)
<1>1. pc[p] \in OwnCalls /\ "PartsRead" \in OwnCalls /\ Look
  BY DEF PartsScan, OwnCalls, UploadLabels
<1>2. (Goto(p, "PartsRead") /\ got' = got) \/ Fail(p, "InternalError")
  BY DEF PartsScan, FailUpload
<1>3. DOMAIN scan' = Workers /\ \A q \in Workers \ {p} : scan'[q] \subseteq scan[q]
  BY DEF PartsScan, TypeInv, TypesOK, ServersOK
<1>. QED
  BY <1>1, <1>2, <1>3, LookFacts, StayAside, FailAside DEF Codes

LEMMA UploadsScanAside ==
    ASSUME TypeInv, NEW p \in Workers, UploadsScan(p)
    PROVE  Aside(p)
<1>1. pc[p] \in OwnCalls /\ "UploadsRead" \in OwnCalls /\ Look
  BY DEF UploadsScan, OwnCalls, UploadLabels
<1>2. Goto(p, "UploadsRead") /\ got' = got
  BY DEF UploadsScan
<1>3. DOMAIN scan' = Workers /\ \A q \in Workers \ {p} : scan'[q] \subseteq scan[q]
  BY DEF UploadsScan, TypeInv, TypesOK, ServersOK
<1>. QED
  BY <1>1, <1>2, <1>3, LookFacts, StayAside

LEMMA ReadEntryAside ==
    ASSUME TypeInv, NEW p \in Workers, pc[p] \in OwnCalls, Look,
           NEW x, NEW content, ReadEntry(p, x, content)
    PROVE  Aside(p)
<1> DEFINE g == [got[p] EXCEPT !.listed = got[p].listed \cup content]
<1>1. IsAnswer(got[p])
  BY DEF TypeInv, TypesOK, ServersOK
<1>2. IsAnswer(g)
  BY <1>1 DEF IsAnswer, AnswersWith
<1>3. got' = [got EXCEPT ![p] = g]
  BY DEF ReadEntry
<1>4. Goto(p, pc[p])
  BY DEF ReadEntry, Goto, TypeInv, TypesOK, ServersOK
<1>5. DOMAIN scan' = Workers /\ \A q \in Workers \ {p} : scan'[q] \subseteq scan[q]
  BY DEF ReadEntry, TypeInv, TypesOK, ServersOK
<1> HIDE DEF g
<1>. QED
  BY <1>2, <1>3, <1>4, <1>5, LookFacts, GotoAside

LEMMA PartsReadAside ==
    ASSUME TypeInv, NEW p \in Workers, PartsRead(p)
    PROVE  Aside(p)
<1>1. pc[p] \in OwnCalls /\ Look
  BY DEF PartsRead, OwnCalls, UploadLabels
<1>2. \/ \E x \in scan[p] : ReadEntry(p, x, {<<x, doc[x]>>})
      \/ scan' = scan /\ (Succeed(p) \/ Fail(p, "InternalError"))
  BY DEF PartsRead, FailUpload
<1>. QED
  BY <1>1, <1>2, LookFacts, ReadEntryAside, SucceedAside, FailAside DEF Codes

LEMMA UploadsReadAside ==
    ASSUME TypeInv, NEW p \in Workers, UploadsRead(p)
    PROVE  Aside(p)
<1>1. pc[p] \in OwnCalls /\ Look
  BY DEF UploadsRead, OwnCalls, UploadLabels
<1>2. \/ \E d \in scan[p] :
             ReadEntry(p, d, IF doc[d] \in Sessions THEN {<<d, doc[d]>>} ELSE {})
      \/ scan' = scan /\ Succeed(p)
  BY DEF UploadsRead
<1>. QED
  BY <1>1, <1>2, LookFacts, ReadEntryAside, SucceedAside

\* Every call of Multipart but three is one of these moves.
LEMMA UploadCallsAside ==
    ASSUME TypeInv, PartsInv, UploadInv, NEW p \in Workers, UploadStep(p)
    PROVE  Aside(p) \/ CompleteMeta(p) \/ SweepUploads(p) \/ RmdirUploads(p)
<1>1. UploadBucket(p) => Aside(p)
  BY BucketKnownAside DEF UploadBucket, OwnCalls, UploadLabels
<1>2. UploadExists(p) => Aside(p)
  BY BucketKnownAside DEF UploadExists, OwnCalls, UploadLabels
<1>3. CompleteExists(p) => Aside(p)
  BY BucketKnownAside DEF CompleteExists, OwnCalls, UploadLabels
<1>4. UploadsExists(p) => Aside(p)
  BY BucketKnownAside DEF UploadsExists, OwnCalls, UploadLabels
<1>. QED
  BY <1>1, <1>2, <1>3, <1>4, UploadMkdirAside, DocOpenAside, DocWriteAside, PartNumberAside,
     UploadReadAside, PartTempAside, PartCopyAside, PartRenameAside, CombinedTempAside,
     CombineMetaAside, CombineDataAside, CombinedOpenAside, RemoveNamesAside,
     RemoveEntryAside, RemoveFolderAside, PartsScanAside, PartsReadAside, UploadsScanAside,
     UploadsReadAside DEF UploadStep

----------------------------------------------------------------------------
(***************************************************************************)
(* The other three calls.                                                  *)
(***************************************************************************)
\* DeleteBucket goes from one of its removals to the next.
LEMMA SweepsKeep ==
    ASSUME IInv, NEW p \in Workers, NEW l \in {"RemoveFiles", "RmdirUploads"},
           pc[p] \in {"RemoveFiles", "RmdirUploads"}, Beside(p, l, got[p]),
           \A q \in Workers \ {p} : scan'[q] = scan[q]
    PROVE  IInv'
<1>1. TypeInv'
  BY BesideTypes DEF IInv
<1>2. /\ pc[p] \in RemoveCalls /\ pc'[p] \in RemoveCalls
      /\ pc[p] \notin FluxCalls /\ pc'[p] \notin FluxCalls /\ Active(p)
      /\ \A q \in Workers \ {p} : pc'[q] = pc[q] /\ got'[q] = got[q]
  BY DEF Beside, RemoveCalls, Active, IInv, TypeInv, TypesOK, ServersOK
<1>3. Flux(p) = {} /\ Flux(p)' = {}
  BY <1>2, NoFlux
<1>4. Effect(p, {})
  BY <1>2, <1>3 DEF Effect, Beside, SameFiles, history
<1>5. QuietShapeAt(p)'
  <2>1. \A a \in ObjectsOf(req[p].bucket) \cap quiet[p] : data[a] = None
    BY <1>2 DEF IInv, DiskInv, QuietShape
  <2>. QED
    BY <1>2, <2>1 DEF QuietShapeAt, Beside, history, RemoveCalls
<1>6. Owed(p, {})
  BY <1>3, <1>5 DEF Owed
<1>. QED
  BY <1>1, <1>4, <1>6, EffectKeeps

LEMMA SweepUploadsBeside ==
    ASSUME IInv, NEW p \in Workers, SweepUploads(p)
    PROVE  IInv'
<1>1. /\ pc[p] = "RemoveFiles" /\ Elsewhere /\ scan' = scan /\ DOMAIN scan = Workers
      /\ Goto(p, "RmdirUploads") /\ got' = [got EXCEPT ![p] = got[p]] /\ IsAnswer(got[p])
  BY DEF SweepUploads, IInv, TypeInv, TypesOK, ServersOK
<1>2. /\ unlinked' \in [Workers -> BOOLEAN]
      /\ \A q \in Workers : pc[q] \in FluxCalls => unlinked'[q] = unlinked[q]
  BY DEF SweepUploads, Unlink, IInv, TypeInv, TypesOK, ServersOK
<1>3. req[p].op = "DeleteBucket" /\ InHand("RmdirUploads", got[p])
      /\ "RmdirUploads" \in AllLabels \ {"idle"} /\ ScanOK(req[p].op, scan[p])
  BY <1>1 DEF IInv, TypeInv, TypesOK, ServersOK, ControlOK, ControlAt, RemoveCalls, DeleteCalls,
     PutCalls, AllLabels, UploadLabels
<1>4. ControlAt("DeleteBucket", "RmdirUploads")
  BY DEF ControlAt, RemoveCalls, DeleteCalls, GetCalls, PutCalls, HeadCalls, DelCalls, ListCalls,
     CreateCalls
<1>5. Beside(p, "RmdirUploads", got[p])
  BY <1>1, <1>2, <1>3, <1>4
     DEF Beside, Goto, Elsewhere, disk, DelCalls, IInv, TypeInv, TypesOK, DiskTypeOK
<1>. QED
  BY <1>1, <1>5, SweepsKeep

LEMMA RmdirUploadsBeside ==
    ASSUME IInv, NEW p \in Workers, RmdirUploads(p)
    PROVE  IInv'
<1>1. /\ pc[p] = "RmdirUploads" /\ DOMAIN scan' = Workers
      /\ \A q \in Workers \ {p} : scan'[q] = scan[q]
      /\ scan'[p] \subseteq scan[p]
      /\ Goto(p, "RemoveFiles") /\ got' = [got EXCEPT ![p] = got[p]] /\ IsAnswer(got[p])
      /\ unlinked' \in [Workers -> BOOLEAN] /\ unlinked' = unlinked
  BY DEF RmdirUploads, IInv, TypeInv, TypesOK, ServersOK
<1>2. /\ dirs' \in [Buckets -> SUBSET DirNames]
      /\ \A b \in Buckets : "bucket" \in dirs[b] => "bucket" \in dirs'[b]
  BY DEF RmdirUploads, IInv, TypeInv, TypesOK, DiskTypeOK
<1>3. req[p].op = "DeleteBucket" /\ InHand("RemoveFiles", got[p])
      /\ "RemoveFiles" \in AllLabels \ {"idle"} /\ ScanOK(req[p].op, scan'[p])
  BY <1>1 DEF IInv, TypeInv, TypesOK, ServersOK, ControlOK, ControlAt, RemoveCalls, DeleteCalls,
     PutCalls, AllLabels, Labels, ScanOK
<1>4. ControlAt("DeleteBucket", "RemoveFiles")
  BY DEF ControlAt, RemoveCalls, DeleteCalls, GetCalls, PutCalls, HeadCalls, DelCalls, ListCalls,
     CreateCalls, UploadLabels
<1>5. Beside(p, "RemoveFiles", got[p])
  BY <1>1, <1>2, <1>3, <1>4 DEF Beside, Goto, RmdirUploads, DelCalls
<1>. QED
  BY <1>1, <1>5, SweepsKeep

\* A completion takes up its object for the second time.  It is the one it
\* stored, so what PutObject has written of it by now is on disk.
LEMMA CompleteMetaMoves ==
    ASSUME TypeInv, PartsInv, UploadInv, NEW p \in Workers, CompleteMeta(p)
    PROVE  \/ Aside(p) /\ pc'[p] = "done"
           \/ /\ pc[p] = "CompleteMeta" /\ req[p].op = "Complete" /\ Dst(p) \in Objects
              /\ \E g : Beside(p, "MetaMkdir", g) /\ g.body = got[p].body /\ got'[p] = g
                        /\ g.etag = [kind |-> "multipart", of |-> job[p].etags]
<1>1. pc[p] = "CompleteMeta" /\ pc[p] \in OwnCalls /\ Look /\ scan' = scan
  BY DEF CompleteMeta, LookUpload, OwnCalls, UploadLabels
<1>2. CASE Fail(p, "InternalError")
  <2>1. pc'[p] = "done"
    BY <1>2 DEF Fail, Finish, Goto, TypeInv, TypesOK, ServersOK
  <2>. QED
    BY <1>1, <1>2, <2>1, LookFacts, FailAside DEF Codes
<1>3. CASE ~Fail(p, "InternalError")
  <2> DEFINE g == [got[p] EXCEPT !.etag = [kind |-> "multipart", of |-> job[p].etags],
                                 !.attrs = meta[Dst(p)].attrs]
  <2>1. /\ meta[Dst(p)] \in Documents /\ Goto(p, "MetaMkdir")
        /\ got' = [got EXCEPT ![p] = g]
    BY <1>3 DEF CompleteMeta, FailUpload
  <2>2. req[p].op = "Complete" /\ Dst(p) \in Objects
    BY <1>1 DEF PartsInv, WorkerOK, RequestOK, UploadControlAt, CombineCalls, JobOps
  <2>3. job[p].etags \in Bodies /\ got[p].body \in Bodies /\ IsAnswer(got[p])
    BY <1>1 DEF UploadInv, InHandOK, TypeInv, TypesOK, ServersOK
  <2>4. meta[Dst(p)].attrs \in Uploads
    BY <2>1 DEF Documents
  <2>5. [kind |-> "multipart", of |-> job[p].etags] \in ETags
    BY <2>3 DEF ETags
  <2>6. /\ IsAnswer(g) /\ g.body = got[p].body /\ g.attrs \in Uploads
        /\ g.etag = [kind |-> "multipart", of |-> job[p].etags]
    BY <2>3, <2>4, <2>5 DEF IsAnswer, AnswersWith
  <2> HIDE DEF g
  <2>7. InHand("MetaMkdir", g) /\ got'[p] = g
    BY <2>1, <2>3, <2>6 DEF TypeInv, TypesOK, ServersOK
  <2>8. Beside(p, "MetaMkdir", g)
    BY <1>1, <2>1, <2>2, <2>6, <2>7, LookFacts, ElsewhereBeside
  <2>. QED
    BY <1>1, <2>2, <2>6, <2>7, <2>8
<1>. QED
  BY <1>2, <1>3

LEMMA CompleteMetaBeside ==
    ASSUME IInv, PartsInv, UploadInv, NEW p \in Workers, CompleteMeta(p)
    PROVE  IInv'
<1>1. CASE Aside(p)
  BY <1>1, AsideKeeps
<1>2. CASE ~Aside(p)
  <2>1. PICK g : /\ Beside(p, "MetaMkdir", g) /\ g.body = got[p].body /\ got'[p] = g
                 /\ pc[p] = "CompleteMeta" /\ req[p].op = "Complete" /\ Dst(p) \in Objects
    BY <1>2, CompleteMetaMoves DEF IInv
  <2> DEFINE x == Dst(p)
  <2>2. TypeInv' /\ Exclusive'
    BY <2>1, BesideTypes, BesideExclusive DEF IInv
  <2>3. /\ Flux(p) = {} /\ Flux(p)' = {x} /\ x \in Again(p) /\ pc'[p] = "MetaMkdir"
        /\ \A q \in Workers \ {p} : /\ pc'[q] = pc[q] /\ got'[q] = got[q]
                                    /\ Flux(q)' = Flux(q)
    BY <2>1 DEF Beside, Flux, Again, Dst, IInv, TypeInv, TypesOK, ServersOK
  <2>4. UNCHANGED <<bucketFile, data, meta, acked, dirty, quiet, req, todo>>
    BY <2>1 DEF Beside, history
  <2>5. x \in quiet[p] => x \notin dirty
    BY <2>3 DEF UploadInv, AgainOK
  <2>6. x \notin dirty => /\ acked[x] # None /\ acked[x].body = got[p].body
                          /\ \A q \in Workers \ {p} : x \notin Flux(q)
    BY <2>3 DEF UploadInv, AgainOK
  <2>7. FluxUnique'
    BY <2>3, <2>4, <2>6 DEF IInv, DiskInv, FluxUnique
  <2>8. x \notin dirty => data[x] = got'[p].body
    <3>1. SUFFICES ASSUME x \notin dirty PROVE data[x] = got'[p].body
      OBVIOUS
    <3>2. Settled(x)
      BY <2>1, <2>3, <2>6, <3>1 DEF IInv, DiskInv, AckedStateHolds, Resources
    <3>. QED
      BY <2>1, <2>6, <3>1, <3>2, NamesAssumption DEF Settled, Version
  <2>9. FluxShape'
    <3> SUFFICES ASSUME NEW q \in Workers, NEW y \in Flux(q)',
                        y \in quiet'[q] \/ y \notin dirty'
                 PROVE  Halfway(q, y)'
      BY DEF FluxShape
    <3>1. CASE q = p
      BY <2>3, <2>4, <2>5, <2>8, <3>1 DEF Halfway
    <3>2. CASE q # p
      <4>1. y \in Flux(q) /\ pc[q] \in FluxCalls /\ y \in Resources
        BY <2>3, <3>2, FluxMutates DEF IInv
      <4>2. Halfway(q, y)
        BY <2>4, <4>1 DEF IInv, DiskInv, FluxShape
      <4>3. unlinked'[q] = unlinked[q]
        BY <2>1, <4>1 DEF Beside
      <4>4. pc[q] = "CreateWrite" => y \in Buckets
        BY <4>1, TargetTypes DEF Flux, IInv, CreateCalls, DeleteCalls
      <4>. QED
        BY <2>1, <2>3, <2>4, <3>2, <4>2, <4>3, <4>4 DEF Halfway, Beside
    <3>. QED
      BY <3>1, <3>2
  <2>10. QuietShape'
    <3> SUFFICES ASSUME NEW q \in Workers PROVE QuietShapeAt(q)'
      BY DEF QuietShape, QuietShapeAt
    <3>1. CASE q = p
      BY <2>3, <3>1 DEF QuietShapeAt, RemoveCalls
    <3>2. CASE q # p
      <4>1. QuietShapeAt(q)
        BY DEF IInv, DiskInv, QuietShape, QuietShapeAt
      <4>2. pc[q] \in CreateCalls => req[q].bucket \in Buckets
        BY TargetTypes DEF IInv
      <4>. QED
        BY <2>1, <2>3, <2>4, <3>2, <4>1, <4>2 DEF QuietShapeAt, Beside, CreateCalls
    <3>. QED
      BY <3>1, <3>2
  <2>11. AckedStateHolds'
    <3> SUFFICES ASSUME NEW y \in Resources, y \notin dirty',
                        \A q \in Workers : y \notin Flux(q)'
                 PROVE  Settled(y)'
      BY DEF AckedStateHolds
    <3>1. Settled(y)
      BY <2>3, <2>4 DEF IInv, DiskInv, AckedStateHolds
    <3>. QED
      BY <2>1, <2>4, <3>1 DEF Settled, Beside
  <2>. QED
    BY <2>2, <2>7, <2>9, <2>10, <2>11 DEF IInv, DiskInv
<1>. QED
  BY <1>1, <1>2

\* Every call of Multipart keeps the invariant of the plain requests.
LEMMA UploadStepIInv ==
    ASSUME IInv, PartsInv, UploadInv, NEW p \in Workers, UploadStep(p)
    PROVE  IInv'
BY UploadCallsAside, AsideKeeps, CompleteMetaBeside, SweepUploadsBeside, RmdirUploadsBeside
   DEF IInv

----------------------------------------------------------------------------
(***************************************************************************)
(* What upload directories hold.                                           *)
(***************************************************************************)
\* The files hold what they held, nothing, half of something, or a value of
\* their kind; so does what was kept.
LEMMA ValuesKept ==
    ASSUME UploadValuesOK,
           \A d \in Paths : doc'[d] \in {doc[d], None, Empty, Garbled} \cup Sessions,
           \A x \in Parts : doc'[x] \in {doc[x], None, Empty, Garbled} \cup Bodies,
           \A x \in Parts : kept'[x] \in {kept[x], None} \cup Bodies,
           partData' = [x \in Parts |-> partData'[x]],
           \A x \in Parts : partData'[x] \in {partData[x], None} \cup Bodies,
           chunk' = [q \in Workers |-> chunk'[q]],
           \A q \in Workers : chunk'[q] \in {chunk[q], None, Garbled} \cup Bodies
    PROVE  UploadValuesOK'
<1>1. \A d \in Paths : doc'[d] \in Sessions \cup {None, Empty, Garbled}
  BY DEF UploadValuesOK
<1>2. \A x \in Parts : /\ doc'[x] \in Bodies \cup {None, Empty, Garbled}
                       /\ kept'[x] \in Bodies \cup {None}
  BY DEF UploadValuesOK
<1>3. \A x \in Parts : partData'[x] \in Bodies \cup {None}
  BY DEF UploadValuesOK
<1>4. \A q \in Workers : chunk'[q] \in Bodies \cup {None, Garbled}
  BY DEF UploadValuesOK
<1>. QED
  BY <1>1, <1>2, <1>3, <1>4 DEF UploadValuesOK

\* Only temp files come or go.
LEMMA FilesUntouched ==
    ASSUME UploadValuesOK, UNCHANGED <<doc, partData, kept>>,
           chunk' = [q \in Workers |-> chunk'[q]],
           \A q \in Workers : chunk'[q] \in {chunk[q], None, Garbled} \cup Bodies
    PROVE  UploadValuesOK'
<1>1. partData' = [x \in Parts |-> partData'[x]]
  BY DEF UploadValuesOK
<1>. QED
  BY <1>1, ValuesKept

\* The temp file of p at most goes.
DropsChunk(p) == chunk' = chunk \/ chunk' = [chunk EXCEPT ![p] = None]

LEMMA NothingWritten ==
    ASSUME UploadValuesOK, NEW p \in Workers, UNCHANGED <<doc, partData, kept>>, DropsChunk(p)
    PROVE  UploadValuesOK'
<1>1. /\ chunk' = [q \in Workers |-> chunk'[q]]
      /\ \A q \in Workers : chunk'[q] \in {chunk[q], None, Garbled} \cup Bodies
  BY DEF DropsChunk, UploadValuesOK
<1>. QED
  BY <1>1, FilesUntouched

\* A request for a part has its body in hand.
LEMMA PartBody ==
    ASSUME TypeInv, PartsInv, NEW p \in Workers, req[p].op \in PartOps, pc[p] \in PartCalls
    PROVE  got[p].body \in Bodies
<1>1. got[p].body # None
  BY DEF PartsInv, WorkerOK, RequestOK, PartCalls
<1>2. IsAnswer(got[p])
  BY DEF TypeInv, TypesOK, ServersOK
<1>. QED
  BY <1>1, <1>2 DEF IsAnswer, AnswersWith

\* What a document is to hold.
LEMMA NewDocValue ==
    ASSUME TypeInv, PartsInv, NEW p \in Workers, pc[p] \in {"DocOpen", "DocWrite"}
    PROVE  /\ Item(p) \in Paths => NewDoc(p) \in Sessions
           /\ Item(p) \in Parts => NewDoc(p) \in Bodies
           /\ Item(p) \in Items
<1>1. /\ Path(p) \in Paths /\ Item(p) \in Items /\ Dst(p) \in Objects
      /\ req[p].op \in {"CreateUpload"} \cup PartOps
      /\ req[p].op = "CreateUpload" => Item(p) = Path(p) /\ got[p].attrs \in Uploads
      /\ req[p].op # "CreateUpload" => Item(p) \in Parts
  BY AtDocument DEF RequestOK, JobOps, PartOps
<1>2. \A x \in Parts : x \notin Paths
  BY ItemFacts
<1>3. req[p].op \in PartOps => got[p].body \in Bodies
  BY PartBody DEF PartCalls
<1>. QED
  BY <1>1, <1>2, <1>3 DEF NewDoc, Sessions, PartOps

\* The document of an upload or of a part is truncated.
LEMMA DocOpenValues ==
    ASSUME TypeInv, PartsInv, UploadValuesOK, NEW p \in Workers, DocOpen(p)
    PROVE  UploadValuesOK'
<1>1. DOMAIN doc = Items /\ DOMAIN kept = Items /\ Paths \subseteq Items /\ Parts \subseteq Items
  BY ItemFacts DEF PartsInv, Tables, Items
<1>2. \A x \in Items : doc'[x] \in {doc[x], Empty} /\ kept'[x] \in {kept[x], None}
  BY <1>1 DEF DocOpen, Lose, uploadHistory
<1>3. /\ partData' = [x \in Parts |-> partData'[x]] /\ partData' = partData
      /\ chunk' = [q \in Workers |-> chunk'[q]]
      /\ \A q \in Workers : chunk'[q] \in {chunk[q], None}
  BY DEF DocOpen, FailUpload, UploadValuesOK
<1>. QED
  BY <1>1, <1>2, <1>3, ValuesKept

\* It is written, or half of it is.
LEMMA DocWriteValues ==
    ASSUME TypeInv, PartsInv, UploadValuesOK, NEW p \in Workers, DocWrite(p)
    PROVE  UploadValuesOK'
<1>1. /\ DOMAIN doc = Items /\ DOMAIN kept = Items
      /\ Paths \subseteq Items /\ Parts \subseteq Items
  BY DEF PartsInv, Tables, Items
<1>2. /\ pc[p] = "DocWrite" /\ Item(p) \in Items
      /\ Item(p) \in Paths => NewDoc(p) \in Sessions
      /\ Item(p) \in Parts => NewDoc(p) \in Bodies
  BY NewDocValue DEF DocWrite
<1>3. /\ \A x \in Items \ {Item(p)} : doc'[x] = doc[x]
      /\ doc'[Item(p)] \in {doc[Item(p)], NewDoc(p), Garbled}
  BY <1>1, <1>2 DEF DocWrite, Written
<1>4. \A x \in Items : kept'[x] \in {kept[x], None} \/ (x = Item(p) /\ kept'[x] = NewDoc(p))
  BY <1>1 DEF DocWrite, Keep, Lose
<1>5. /\ partData' = [x \in Parts |-> partData'[x]] /\ partData' = partData
      /\ chunk' = [q \in Workers |-> chunk'[q]]
      /\ \A q \in Workers : chunk'[q] \in {chunk[q], None}
  BY DEF DocWrite, FailUpload, UploadValuesOK
<1>6. \A d \in Paths : doc'[d] \in {doc[d], None, Empty, Garbled} \cup Sessions
  BY <1>1, <1>2, <1>3
<1>7. \A x \in Parts : doc'[x] \in {doc[x], None, Empty, Garbled} \cup Bodies
  BY <1>1, <1>2, <1>3
<1>8. \A x \in Parts : kept'[x] \in {kept[x], None} \cup Bodies
  BY <1>1, <1>2, <1>4
<1>. QED
  BY <1>5, <1>6, <1>7, <1>8, ValuesKept

\* A part's data file is replaced by a whole body.
LEMMA PartRenameValues ==
    ASSUME TypeInv, PartsInv, UploadValuesOK, NEW p \in Workers, PartRename(p)
    PROVE  UploadValuesOK'
<1>1. /\ pc[p] = "PartRename" /\ req[p].op \in PartOps /\ chunk[p] \in {None, got[p].body}
  BY DEF PartRename, PartsInv, WorkerOK, RequestOK, UploadControlAt
<1>2. got[p].body \in Bodies
  BY <1>1, PartBody DEF PartCalls
<1>3. /\ partData' = [x \in Parts |-> partData'[x]]
      /\ \A x \in Parts : partData'[x] \in {partData[x], None} \cup Bodies
  BY <1>1, <1>2 DEF PartRename, UploadValuesOK
<1>4. /\ chunk' = [q \in Workers |-> chunk'[q]]
      /\ \A q \in Workers : chunk'[q] \in {chunk[q], None}
  BY DEF PartRename, FailUpload, UploadValuesOK
<1>5. doc' = doc /\ \A x \in Items : kept'[x] \in {kept[x], None}
  BY DEF PartRename, Unsettle, Lose, uploadHistory
<1>6. Parts \subseteq Items
  BY DEF Items
<1>. QED
  BY <1>3, <1>4, <1>5, <1>6, ValuesKept

\* RemoveAll, whoever calls it.
LEMMA UnlinkValues ==
    ASSUME UploadValuesOK, NEW names, Unlink(names),
           \A x \in Parts : kept'[x] \in {kept[x], None}
    PROVE  UploadValuesOK'
<1>1. Parts \subseteq Items /\ Paths \subseteq Items
  BY DEF Items
<1>2. \A x \in Items : doc'[x] \in {doc[x], None}
  BY DEF Unlink
<1>3. /\ partData' = [x \in Parts |-> partData'[x]]
      /\ \A x \in Parts : partData'[x] \in {partData[x], None}
      /\ chunk' = [q \in Workers |-> chunk'[q]]
      /\ \A q \in Workers : chunk'[q] \in {chunk[q], None}
  BY DEF Unlink
<1>. QED
  BY <1>1, <1>2, <1>3, ValuesKept

\* The calls of Multipart.
LEMMA UploadStepValues ==
    ASSUME TypeInv, PartsInv, UploadValuesOK, NEW p \in Workers, UploadStep(p)
    PROVE  UploadValuesOK'
<1>0. Parts \subseteq Items
  BY DEF Items
<1>1. CASE \/ UploadBucket(p) \/ UploadExists(p) \/ CompleteExists(p) \/ UploadsExists(p)
  BY <1>1, NothingWritten DEF UploadBucket, UploadExists, CompleteExists, UploadsExists,
     BucketKnown, FailUpload, LookUpload, uploadDisk, uploadHistory, DropsChunk
<1>2. CASE UploadMkdir(p)
  BY <1>2, NothingWritten DEF UploadMkdir, uploadHistory, DropsChunk
<1>3. CASE PartNumber(p) \/ UploadRead(p)
  BY <1>3, NothingWritten DEF PartNumber, UploadRead, FailUpload, LookUpload, uploadDisk,
     uploadHistory, DropsChunk
<1>4. CASE \E next : CreateTemp(p, next)
  <2>1. /\ UNCHANGED <<doc, partData, kept>> /\ chunk' = [q \in Workers |-> chunk'[q]]
        /\ \A q \in Workers : chunk'[q] \in {chunk[q], None, Garbled}
    BY <1>4 DEF CreateTemp, FailUpload, uploadDisk, uploadHistory, UploadValuesOK
  <2>. QED
    BY <2>1, FilesUntouched
<1>5. CASE PartTemp(p) \/ CombinedTemp(p)
  <2>1. CASE \E next : CreateTemp(p, next)
    BY <1>4, <2>1
  <2>2. CASE FailUpload(p, "InvalidPart") /\ LookUpload
    BY <2>2, NothingWritten DEF FailUpload, LookUpload, uploadDisk, uploadHistory, DropsChunk
  <2>. QED
    BY <1>5, <2>1, <2>2 DEF PartTemp, CombinedTemp
<1>6. CASE PartCopy(p)
  <2>1. req[p].op \in PartOps /\ pc[p] = "PartCopy"
    BY <1>6 DEF PartCopy, PartsInv, WorkerOK, RequestOK, UploadControlAt
  <2>2. got[p].body \in Bodies
    BY <2>1, PartBody DEF PartCalls
  <2>3. /\ UNCHANGED <<doc, partData, kept>> /\ chunk' = [q \in Workers |-> chunk'[q]]
        /\ \A q \in Workers : chunk'[q] \in {chunk[q], None, Garbled} \cup Bodies
    BY <1>6, <2>2 DEF PartCopy, FailUpload, LookUpload, uploadDisk, uploadHistory, UploadValuesOK
  <2>. QED
    BY <2>3, FilesUntouched
<1>7. CASE CombineMeta(p) \/ CombineData(p) \/ CombinedOpen(p) \/ CompleteMeta(p)
  BY <1>7, NothingWritten DEF CombineMeta, CombineData, CombinedOpen, CompleteMeta, FailUpload,
     LookUpload, uploadDisk, uploadHistory, DropsChunk
<1>8. CASE RemoveNames(p)
  <2>1. doc' = doc /\ partData' = partData /\ chunk' = chunk
        /\ \A x \in Parts : kept'[x] \in {kept[x], None}
    BY <1>0, <1>8 DEF RemoveNames, Unsettle, Lose, uploadDisk
  <2>2. partData' = [x \in Parts |-> partData'[x]] /\ chunk' = [q \in Workers |-> chunk'[q]]
    BY <2>1 DEF UploadValuesOK
  <2>. QED
    BY <2>1, <2>2, ValuesKept
<1>9. CASE RemoveEntry(p)
  BY <1>9, UnlinkValues DEF RemoveEntry, uploadHistory
<1>10. CASE RemoveFolder(p)
  <2>1. doc' = doc /\ partData' = partData /\ \A q \in Workers : chunk'[q] \in {chunk[q], None}
        /\ \A x \in Parts : kept'[x] \in {kept[x], None}
    BY <1>0, <1>10 DEF RemoveFolder, FailUpload, Keep, Lose, UploadValuesOK
  <2>2. partData' = [x \in Parts |-> partData'[x]] /\ chunk' = [q \in Workers |-> chunk'[q]]
    BY <1>10, <2>1 DEF RemoveFolder, FailUpload, UploadValuesOK
  <2>. QED
    BY <2>1, <2>2, ValuesKept
<1>11. CASE SweepUploads(p)
  BY <1>0, <1>11, UnlinkValues DEF SweepUploads, Keep
<1>12. CASE RmdirUploads(p)
  BY <1>12, NothingWritten DEF RmdirUploads, uploadHistory, DropsChunk
<1>13. CASE PartsScan(p) \/ PartsRead(p) \/ UploadsScan(p) \/ UploadsRead(p)
  BY <1>13, NothingWritten DEF PartsScan, PartsRead, UploadsScan, UploadsRead, ReadEntry,
     FailUpload, uploadDisk, uploadHistory, DropsChunk
<1>. QED
  BY <1>1, <1>2, <1>3, <1>5, <1>6, <1>7, <1>8, <1>9, <1>10, <1>11, <1>12, <1>13,
     DocOpenValues, DocWriteValues, PartRenameValues DEF UploadStep

----------------------------------------------------------------------------
(***************************************************************************)
(* The other workers, when p makes a call.                                 *)
(***************************************************************************)
\* q does not move, and neither does what is quiet or calm for it.
Stands(q) ==
    /\ pc'[q] = pc[q] /\ req'[q] = req[q] /\ got'[q] = got[q] /\ job'[q] = job[q]
    /\ pc[q] # "RemoveEntries" => scan'[q] = scan[q]
    /\ quiet'[q] \subseteq quiet[q]
    /\ \A x \in quiet'[q] : acked'[x] = acked[x] /\ (x \in dirty' <=> x \in dirty)
    /\ calm'[q] \subseteq calm[q]
    /\ \A x \in calm'[q] : kept'[x] = kept[x] /\ (x \in unsure' <=> x \in unsure)

\* What an upload request has in hand, and what it was answered, stays true.
LEMMA StandsKeeps ==
    ASSUME PartsInv, NEW q \in Workers, Stands(q), pc[q] # "idle", InHandOK(q), UploadAt(q)
    PROVE  InHandOK(q)' /\ UploadAt(q)'
<1> USE DEF Stands
<1>1. /\ Path(q)' = Path(q) /\ Item(q)' = Item(q) /\ Src(q)' = Src(q) /\ Dst(q)' = Dst(q)
      /\ UploadControlAt(req[q].op, pc[q])
  BY DEF Path, Item, Src, Dst, PartsInv, WorkerOK, RequestOK
<1>2. InHandOK(q)'
  BY DEF InHandOK
<1>3. FoundOpen(q) => FoundOpen(q)'
  BY <1>1 DEF FoundOpen
<1>4. PartAt(q)'
  BY <1>1, <1>3 DEF UploadAt, PartAt, Undisturbed
<1>5. CompleteAt(q)'
  BY <1>1, <1>3 DEF UploadAt, CompleteAt
<1>6. PartsAt(q)'
  BY <1>1, <1>3 DEF UploadAt, PartsAt
<1>7. UploadAnswered(q)'
  <2> SUFFICES ASSUME pc[q] = "done", job[q] # None, Sure(q, ItemsOf(Path(q)))'
               PROVE  UploadAnswered(q)'
    BY DEF UploadAnswered
  <2> DEFINE d == Path(q)
  <2>1. /\ \A x \in ItemsOf(d) : x \in calm'[q] /\ kept'[x] = kept[x]
        /\ Sure(q, ItemsOf(d))
    BY <1>1 DEF Sure
  <2>2. d \in ItemsOf(d) /\ \A n \in 1..PartCount : <<d, n>> \in ItemsOf(d)
    BY DEF ItemsOf
  <2>3. kept'[d] = kept[d]
    BY <2>1, <2>2
  <2>4. req[q].op \in PartOps /\ got[q].code = "OK" => kept'[Item(q)] = kept[Item(q)]
    BY <2>1, <2>2 DEF UploadAt, PartAt, Item, PartOps
  <2>5. Refusable(d, job[q].sel) => Refusable(d, job[q].sel)'
    BY <1>1, <2>1, <2>2 DEF Refusable
  <2> HIDE DEF d
  <2>. QED
    BY <1>1, <2>1, <2>3, <2>4, <2>5
       DEF UploadAt, UploadAnswered, Answered, Undisturbed, PartOps, d
<1>. QED
  BY <1>2, <1>4, <1>5, <1>6, <1>7 DEF UploadAt

\* Of the items, a call of p changes the history of its own only.
KeptApart(p) ==
    /\ calm' = calm
    /\ \A x \in Items \ Mine(p) : kept'[x] = kept[x] /\ (x \in unsure' <=> x \in unsure)

LEMMA UploadStepKept ==
    ASSUME PartsInv, NEW p \in Workers, UploadStep(p)
    PROVE  KeptApart(p)
<1>1. CASE uploadHistory' = uploadHistory
  BY <1>1 DEF KeptApart, uploadHistory
<1>2. CASE DocOpen(p)
  <2>1. Item(p) \in Mine(p)
    BY <1>2, AtDocument DEF DocOpen
  <2>. QED
    BY <1>2, <2>1 DEF DocOpen, Lose, KeptApart, uploadHistory
<1>3. CASE DocWrite(p)
  <2>1. Item(p) \in Mine(p) /\ Active(p)
    BY <1>3, AtDocument DEF DocWrite
  <2>2. Mine(p) = Rewrites(req[p], job[p])
    BY <2>1 DEF Mine
  <2>. QED
    BY <1>3, <2>1, <2>2 DEF DocWrite, Lose, Keep, KeptApart
<1>4. CASE PartRename(p)
  <2>1. req[p].op \in PartOps /\ Active(p)
    BY <1>4 DEF PartRename, PartsInv, WorkerOK, RequestOK, UploadControlAt, Active
  <2>2. Item(p) \in Mine(p)
    BY <2>1 DEF Mine, Rewrites, Item, Path, PartOps
  <2>. QED
    BY <1>4, <2>2 DEF PartRename, Unsettle, Lose, KeptApart, uploadHistory
<1>5. CASE RemoveNames(p) \/ RemoveFolder(p)
  <2>1. ItemsOf(Path(p)) = Mine(p)
    BY <1>5, AtRemoval DEF RemoveNames, RemoveFolder
  <2>. QED
    BY <1>5, <2>1 DEF RemoveNames, RemoveFolder, Unsettle, Lose, Keep, KeptApart
<1>6. CASE SweepUploads(p)
  <2>1. ItemsIn(req[p].bucket) = Mine(p)
    BY <1>6, AtSweep DEF SweepUploads
  <2>. QED
    BY <1>6, <2>1 DEF SweepUploads, Keep, KeptApart
<1>7. CASE CreateTemp(p, "PartCopy") \/ CreateTemp(p, "CombineMeta") \/ LookUpload
  BY <1>1, <1>7 DEF CreateTemp, LookUpload
<1>8. CASE \/ UploadBucket(p) \/ UploadExists(p) \/ CompleteExists(p) \/ UploadsExists(p)
           \/ PartNumber(p) \/ UploadRead(p) \/ PartTemp(p) \/ PartCopy(p)
           \/ CombinedTemp(p) \/ CombineMeta(p) \/ CombineData(p) \/ CombinedOpen(p)
           \/ CompleteMeta(p)
  BY <1>7, <1>8 DEF UploadBucket, UploadExists, CompleteExists, UploadsExists, BucketKnown,
     PartNumber, UploadRead, PartTemp, PartCopy, CombinedTemp, CombineMeta, CombineData,
     CombinedOpen, CompleteMeta
<1>9. CASE \/ UploadMkdir(p) \/ RemoveEntry(p) \/ RmdirUploads(p) \/ PartsScan(p)
           \/ PartsRead(p) \/ UploadsScan(p) \/ UploadsRead(p)
  BY <1>1, <1>9 DEF UploadMkdir, RemoveEntry, RmdirUploads, PartsScan, PartsRead, UploadsScan,
     UploadsRead
<1>. QED
  BY <1>2, <1>3, <1>4, <1>5, <1>6, <1>8, <1>9 DEF UploadStep

\* A call of p, as the others see it.
Frame(p) ==
    /\ Active(p) /\ UNCHANGED <<req, quiet>> /\ KeptApart(p)
    /\ \A q \in Workers \ {p} :
           /\ pc'[q] = pc[q] /\ got'[q] = got[q] /\ job'[q] = job[q]
           /\ pc[q] # "RemoveEntries" => scan'[q] = scan[q]
           /\ \A x \in quiet[q] : acked'[x] = acked[x] /\ (x \in dirty' <=> x \in dirty)

LEMMA FrameStands ==
    ASSUME PartsInv, NEW p \in Workers, NEW q \in Workers \ {p}, Frame(p)
    PROVE  Stands(q)
<1>1. calm[q] \cap Mine(p) = {} /\ calm[q] \subseteq Items
  BY DEF PartsInv, CalmExclusive, Tables, Mine, Frame
<1>. QED
  BY <1>1 DEF Stands, Frame, KeptApart

\* The calls of Multipart have this frame.
LEMMA UploadStepFrame ==
    ASSUME PartsInv, NEW p \in Workers, UploadStep(p)
    PROVE  Frame(p) /\ UNCHANGED <<history, req, todo>>
<1> USE DEF PartsInv, Tables
<1>1. UNCHANGED <<history, req, todo>> /\ Active(p)
  BY DEF UploadStep, UploadBucket, UploadExists, CompleteExists, UploadsExists, BucketKnown,
     PartNumber, UploadRead, PartTemp, PartCopy, CombinedTemp, CombineMeta, CombineData,
     CombinedOpen, CompleteMeta, UploadMkdir, DocOpen, DocWrite, PartRename, RemoveNames,
     RemoveEntry, RemoveFolder, SweepUploads, RmdirUploads, PartsScan, PartsRead, UploadsScan,
     UploadsRead, CreateTemp, LookUpload, Look, Elsewhere, Active
<1>2. KeptApart(p)
  BY UploadStepKept
<1>3. SUFFICES \A q \in Workers \ {p} :
                  /\ pc'[q] = pc[q] /\ got'[q] = got[q] /\ job'[q] = job[q]
                  /\ pc[q] # "RemoveEntries" => scan'[q] = scan[q]
  BY <1>1, <1>2 DEF Frame, history
<1>4. CASE \/ UploadBucket(p) \/ UploadExists(p) \/ CompleteExists(p) \/ UploadsExists(p)
  BY <1>4 DEF UploadBucket, UploadExists, CompleteExists, UploadsExists, BucketKnown,
     LookUpload, Goto, FailUpload, Fail, Finish
<1>5. CASE PartNumber(p) \/ UploadRead(p) \/ PartCopy(p)
  BY <1>5 DEF PartNumber, UploadRead, PartCopy, LookUpload, Goto, FailUpload, Fail, Finish
<1>6. CASE CombineMeta(p)
  BY <1>6 DEF CombineMeta, LookUpload, Goto, FailUpload, Fail, Finish
<1>7. CASE CombineData(p) \/ CombinedOpen(p)
  BY <1>7 DEF CombineData, CombinedOpen, LookUpload, Goto, FailUpload, Fail, Finish
<1>8. CASE CompleteMeta(p)
  BY <1>8 DEF CompleteMeta, LookUpload, Goto, FailUpload, Fail, Finish
<1>9. CASE PartTemp(p) \/ CombinedTemp(p)
  BY <1>9 DEF PartTemp, CombinedTemp, CreateTemp, LookUpload, Goto, FailUpload, Fail, Finish
<1>10. CASE UploadMkdir(p) \/ RemoveNames(p) \/ RmdirUploads(p) \/ SweepUploads(p)
  BY <1>10 DEF UploadMkdir, RemoveNames, RmdirUploads, SweepUploads, Goto
<1>11. CASE RemoveEntry(p)
  BY <1>11 DEF RemoveEntry
<1>12. CASE DocOpen(p) \/ PartRename(p)
  BY <1>12 DEF DocOpen, PartRename, Goto, FailUpload, Fail, Finish
<1>13. CASE DocWrite(p) \/ RemoveFolder(p)
  BY <1>13 DEF DocWrite, RemoveFolder, FailUpload, Fail, Succeed, Finish, Goto
<1>14. CASE PartsScan(p) \/ UploadsScan(p)
  BY <1>14 DEF PartsScan, UploadsScan, Goto, FailUpload, Fail, Finish
<1>15. CASE PartsRead(p) \/ UploadsRead(p)
  BY <1>15 DEF PartsRead, UploadsRead, ReadEntry, Goto, FailUpload, Fail, Succeed, Finish
<1>. QED
  BY <1>4, <1>5, <1>6, <1>7, <1>8, <1>9, <1>10, <1>11, <1>12, <1>13, <1>14, <1>15
     DEF UploadStep

\* So have those of the plain requests, and the ones it begins and ends.
LEMMA PlainFrameIs ==
    ASSUME IInv, NEW p \in Workers, PlainStep(p)
    PROVE  Frame(p)
<1>1. Active(p) /\ req' = req /\ quiet' = quiet
  BY OwnStep DEF PlainStep
<1>2. ASSUME NEW q \in Workers \ {p} PROVE Still(q)
  BY StillStep DEF PlainStep
<1>. QED
  BY <1>1, <1>2 DEF Frame, Still, PlainStep, KeptApart, uploadHistory

LEMMA BetweenStands ==
    ASSUME IInv, PartsInv, NEW p \in Workers, NEW q \in Workers \ {p},
           RespondUpload(p) \/ \E r, j : IsRequest(r) /\ BeginUpload(p, r, j)
    PROVE  Stands(q) /\ Still(q)
<1>1. Still(q)
  BY StillBegin DEF RespondUpload, BeginUpload
<1>2. job'[q] = job[q] /\ calm'[q] \subseteq calm[q] /\ UNCHANGED <<kept, unsure>>
  BY DEF RespondUpload, BeginUpload, PartsInv, Tables
<1>. QED
  BY <1>1, <1>2 DEF Still, Stands

----------------------------------------------------------------------------
(***************************************************************************)
(* The second metadata write of a completion.                              *)
(***************************************************************************)
\* A completion comes to its second write from the first.
LEMMA AgainIsOwn ==
    ASSUME TypeInv, PartsInv, NEW p \in Workers, NEW x \in Again(p)
    PROVE  /\ Active(p) /\ req[p].op = "Complete" /\ x = Dst(p)
           /\ x \in Mutates(req[p]) /\ x \in Objects /\ x \in Resources
<1>1. pc[p] \in {"CompleteExists", "CompleteMeta"} /\ x = Dst(p)
  BY DEF Again
<1>2. req[p].op = "Complete" /\ Dst(p) \in Objects
  BY <1>1 DEF PartsInv, WorkerOK, RequestOK, UploadControlAt, CombineCalls, JobOps
<1>. QED
  BY <1>1, <1>2 DEF Active, Mutates, Dst, Resources

\* Another worker makes a call.
LEMMA AgainOthers ==
    ASSUME TypeInv, Exclusive, PartsInv, AgainOK, NEW p \in Workers, NEW q \in Workers \ {p},
           NEW x \in Again(q),
           Active(p), UNCHANGED <<req, quiet>>, pc'[q] = pc[q], got'[q] = got[q],
           \A o \in Workers \ {p} : pc'[o] = pc[o] /\ todo'[o] = todo[o],
           acked'[x] # acked[x] => x \in quiet[p] /\ x \in dirty \cup Flux(p),
           dirty \ dirty' \subseteq quiet[p],
           x \in dirty' \ dirty => x \in Mutates(req[p]),
           x \in Flux(p)' => x \in Flux(p) \cup Again(p) \cup quiet[p] \cup dirty',
           x \in Again(p)' => x \in Flux(p) \cup Again(p)
    PROVE  /\ x \in quiet'[q] => x \notin dirty'
           /\ x \notin dirty' => /\ acked'[x] # None /\ acked'[x].body = got'[q].body
                                 /\ \A o \in Workers \ {q} : x \notin Flux(o)' \cup Again(o)'
<1>1. x \in quiet[q] => x \notin dirty /\ x \notin Mutates(req[p])
  BY DEF AgainOK, Exclusive
<1>2. x \notin quiet[p]
  BY AgainIsOwn DEF Exclusive
<1>3. x \in quiet'[q] => x \notin dirty'
  BY <1>1
<1>4. ASSUME x \notin dirty'
      PROVE  /\ acked'[x] # None /\ acked'[x].body = got'[q].body
             /\ \A o \in Workers \ {q} : x \notin Flux(o)' \cup Again(o)'
  <2>1. x \notin dirty
    BY <1>2, <1>4
  <2>2. /\ acked[x] # None /\ acked[x].body = got[q].body
        /\ \A o \in Workers \ {q} : x \notin Flux(o) \cup Again(o)
    BY <2>1 DEF AgainOK
  <2>3. acked'[x] = acked[x]
    BY <1>2
  <2>4. \A o \in Workers \ {p} : Flux(o)' = Flux(o) /\ Again(o)' = Again(o)
    BY DEF Flux, Again, Dst
  <2>5. x \notin Flux(p)' \cup Again(p)'
    BY <1>2, <1>4, <2>2
  <2>. QED
    BY <2>2, <2>3, <2>4, <2>5
<1>. QED
  BY <1>3, <1>4

\* p itself goes on to it, or comes from the first write.
LEMMA AgainUploadStep ==
    ASSUME IInv, PartsInv, UploadInv, NEW p \in Workers, UploadStep(p)
    PROVE  AgainOK'
<1> USE DEF IInv
<1>1. UNCHANGED <<acked, dirty, quiet, req, todo>> /\ Frame(p) /\ Active(p)
  BY UploadStepFrame DEF Frame, history
<1>2. Flux(p)' \subseteq Again(p)
  <2>1. CASE Aside(p)
    <3>1. pc'[p] \notin FluxCalls
      BY <2>1 DEF Aside, Beside, OwnCalls, UploadLabels, TypeInv, TypesOK, ServersOK
    <3>. QED
      BY <3>1, NoFlux
  <2>2. CASE CompleteMeta(p)
    <3>1. \/ pc'[p] = "done"
          \/ pc[p] = "CompleteMeta" /\ \E g : Beside(p, "MetaMkdir", g)
      BY <2>2, CompleteMetaMoves
    <3>2. pc'[p] = "done" \/ (pc[p] = "CompleteMeta" /\ pc'[p] = "MetaMkdir")
      BY <3>1 DEF Beside, TypeInv, TypesOK, ServersOK
    <3>. QED
      BY <1>1, <3>2 DEF Flux, Again, Dst
  <2>3. CASE SweepUploads(p) \/ RmdirUploads(p)
    <3>1. pc'[p] \in {"RmdirUploads", "RemoveFiles"}
      BY <2>3 DEF SweepUploads, RmdirUploads, Goto, TypeInv, TypesOK, ServersOK
    <3>. QED
      BY <3>1 DEF Flux
  <2>. QED
    BY <2>1, <2>2, <2>3, UploadCallsAside
<1>3. Again(p)' # {} => pc[p] = "CompleteExists" /\ got' = got /\ Again(p)' = Again(p)
  <2>1. SUFFICES ASSUME pc'[p] \in {"CompleteExists", "CompleteMeta"}
                 PROVE  pc[p] = "CompleteExists" /\ got' = got
    BY <1>1 DEF Again, Dst
  <2>2. DOMAIN pc = Workers
    BY DEF TypeInv, TypesOK, ServersOK
  <2>3. CASE CompleteExists(p)
    BY <2>1, <2>2, <2>3 DEF CompleteExists, BucketKnown, FailUpload, Fail, Finish, Goto
  <2>4. CASE \/ UploadBucket(p) \/ UploadExists(p) \/ UploadsExists(p) \/ PartNumber(p)
             \/ PartTemp(p) \/ PartCopy(p) \/ CombinedTemp(p)
    BY <2>1, <2>2, <2>4 DEF UploadBucket, UploadExists, UploadsExists, BucketKnown, PartNumber,
       PartTemp, PartCopy, CombinedTemp, CreateTemp, FailUpload, Fail, Finish, Goto
  <2>5. CASE UploadRead(p)
    <3>1. req[p].op \in PartOps \cup {"Complete", "Abort", "ListParts"}
      BY <2>5 DEF UploadRead, PartsInv, WorkerOK, RequestOK, UploadControlAt
    <3>2. AfterRead[req[p].op] \notin {"CompleteExists", "CompleteMeta"}
      BY <3>1 DEF AfterRead, PartOps
    <3>. QED
      BY <2>1, <2>2, <2>5, <3>2 DEF UploadRead, FailUpload, Fail, Finish, Goto
  <2>6. CASE CombineMeta(p) \/ CombineData(p) \/ CombinedOpen(p) \/ CompleteMeta(p)
    BY <2>1, <2>2, <2>6 DEF CombineMeta, CombineData, CombinedOpen, CompleteMeta, FailUpload,
       Fail, Finish, Goto
  <2>7. CASE \/ UploadMkdir(p) \/ DocOpen(p) \/ DocWrite(p) \/ PartRename(p) \/ RemoveNames(p)
             \/ RemoveEntry(p) \/ RemoveFolder(p) \/ SweepUploads(p) \/ RmdirUploads(p)
    BY <2>1, <2>2, <2>7 DEF UploadMkdir, DocOpen, DocWrite, PartRename, RemoveNames, RemoveEntry,
       RemoveFolder, SweepUploads, RmdirUploads, FailUpload, Fail, Succeed, Finish, Goto
  <2>8. CASE PartsScan(p) \/ PartsRead(p) \/ UploadsScan(p) \/ UploadsRead(p)
    BY <2>1, <2>2, <2>8 DEF PartsScan, PartsRead, UploadsScan, UploadsRead, ReadEntry,
       FailUpload, Fail, Succeed, Finish, Goto
  <2>. QED
    BY <2>3, <2>4, <2>5, <2>6, <2>7, <2>8 DEF UploadStep
<1> SUFFICES ASSUME NEW q \in Workers, NEW x \in Again(q)'
             PROVE  /\ x \in quiet'[q] => x \notin dirty'
                    /\ x \notin dirty' =>
                           /\ acked'[x] # None /\ acked'[x].body = got'[q].body
                           /\ \A o \in Workers \ {q} : x \notin Flux(o)' \cup Again(o)'
  BY DEF AgainOK
<1>4. \A o \in Workers \ {p} : pc'[o] = pc[o] /\ todo'[o] = todo[o] /\ got'[o] = got[o]
  BY <1>1 DEF Frame
<1>5. \A o \in Workers \ {p} : Flux(o)' = Flux(o) /\ Again(o)' = Again(o)
  BY <1>1, <1>4 DEF Flux, Again, Dst
<1>6. CASE q = p
  BY <1>1, <1>3, <1>5, <1>6 DEF UploadInv, AgainOK
<1>7. CASE q # p
  <2>1. x \in Again(q) /\ AgainOK
    BY <1>5, <1>7 DEF UploadInv
  <2>. QED
    BY <1>1, <1>2, <1>3, <1>4, <1>7, <2>1, AgainOthers
<1>. QED
  BY <1>6, <1>7

\* What the calls of ObjectStore do for a completion: PutObject, from one end
\* to the other.
LEMMA CompletePuts ==
    ASSUME IInv, PartsInv, NEW p \in Workers, Step(p), req[p].op = "Complete"
    PROVE  /\ pc[p] \in PutCalls /\ Dst(p) \in Objects
           /\ \/ /\ got'[p] = got[p] /\ pc'[p] \in PutCalls
                 /\ acked' = acked
              \/ /\ got'[p] = got[p] /\ pc'[p] = AfterPut(p) /\ pc[p] = "MetaWrite"
                 /\ Commit(p, {Dst(p)}, Version(got[p].body, NewDocument(p)))
              \/ /\ pc'[p] = "done" /\ got'[p].code \in {"NoSuchBucket", "InternalError"}
<1>1. pc[p] \in Labels \ {"idle", "done"}
  BY OwnStep
<1>2. pc[p] \in PutCalls
  BY <1>1 DEF PartsInv, WorkerOK, RequestOK, UploadControlAt, UploadOps, JobOps, ObjectPuts,
     PutCalls
<1>. QED
  BY <1>2, PutCallsStep

\* At the end of its first write, the object is what was written, unless it
\* is dirty.
LEMMA AgainPlainStep ==
    ASSUME IInv, IInv', PartsInv, PartsInv', UploadInv, NEW p \in Workers, PlainStep(p)
    PROVE  AgainOK'
<1>1. PICK S \in SUBSET Resources : Effect(p, S)
  BY StepPays DEF PlainStep, Pays
<1>2. /\ UNCHANGED <<req, quiet>> /\ Active(p)
      /\ \A o \in Workers \ {p} : pc'[o] = pc[o] /\ todo'[o] = todo[o] /\ got'[o] = got[o]
  BY <1>1 DEF Effect
<1>3. ASSUME NEW x \in Again(p)'
      PROVE  /\ x = Dst(p) /\ x \in Flux(p) /\ got'[p] = got[p] /\ pc[p] \in PutCalls
             /\ pc'[p] = "CompleteExists"
             /\ Commit(p, {x}, Version(got[p].body, NewDocument(p)))
  <2>1. req[p].op = "Complete" /\ x = Dst(p)
    BY <1>2, <1>3 DEF Again, Dst, PartsInv, WorkerOK, RequestOK, UploadControlAt, CombineCalls
  <2>2. pc'[p] \in {"CompleteExists", "CompleteMeta"}
    BY <1>3 DEF Again
  <2>3. /\ got'[p] = got[p] /\ pc'[p] = AfterPut(p) /\ pc[p] = "MetaWrite"
        /\ Commit(p, {Dst(p)}, Version(got[p].body, NewDocument(p)))
    BY <2>1, <2>2, CompletePuts DEF PlainStep, PutCalls
  <2>. QED
    BY <2>1, <2>2, <2>3 DEF AfterPut, Flux, Dst, PutCalls
<1> SUFFICES ASSUME NEW q \in Workers, NEW x \in Again(q)'
             PROVE  /\ x \in quiet'[q] => x \notin dirty'
                    /\ x \notin dirty' =>
                           /\ acked'[x] # None /\ acked'[x].body = got'[q].body
                           /\ \A o \in Workers \ {q} : x \notin Flux(o)' \cup Again(o)'
  BY DEF AgainOK
<1>4. \A o \in Workers \ {p} : Flux(o)' = Flux(o) /\ Again(o)' = Again(o)
  BY <1>2 DEF Flux, Again, Dst
<1>5. CASE q = p
  <2>1. /\ x = Dst(p) /\ got'[p] = got[p] /\ pc[p] \in PutCalls
        /\ Commit(p, {x}, Version(got[p].body, NewDocument(p)))
    BY <1>3, <1>5
  <2>2. x \in Resources
    BY <2>1, TargetTypes DEF Dst, Resources, IInv
  <2>3. Version(got[p].body, NewDocument(p)) # None
    BY <2>1, DocumentTypes, ValuesAssumption DEF IInv
  <2>4. x \in quiet'[p] => x \notin dirty'
    BY <1>2, <2>1 DEF Commit
  <2>5. ASSUME x \notin dirty'
        PROVE  /\ acked'[x] # None /\ acked'[x].body = got'[p].body
               /\ \A o \in Workers \ {p} : x \notin Flux(o)' \cup Again(o)'
    <3>1. x \in quiet[p]
      BY <2>1, <2>5 DEF Commit
    <3>2. acked'[x] = Version(got[p].body, NewDocument(p))
      BY <2>1, <2>2, <3>1 DEF Commit
    <3>3. \A o \in Workers \ {p} : x \notin Flux(o)
      BY <3>1, QuietAlone DEF IInv
    <3>4. \A o \in Workers \ {p} : x \notin Again(o)
      BY <3>1, AgainIsOwn DEF IInv, Exclusive
    <3>. QED
      BY <1>4, <2>1, <2>3, <3>2, <3>3, <3>4 DEF Version
  <2>. QED
    BY <1>5, <2>4, <2>5
<1>6. CASE q # p
  <2>1. x \in Again(q) /\ AgainOK
    BY <1>4, <1>6 DEF UploadInv
  <2>2. /\ acked'[x] # acked[x] => x \in quiet[p] /\ x \in dirty \cup Flux(p)
        /\ dirty \ dirty' \subseteq quiet[p]
        /\ x \in dirty' \ dirty => x \in Mutates(req[p])
        /\ x \in Flux(p)' => x \in Flux(p) \cup Again(p) \cup quiet[p] \cup dirty'
    <3>1. x \in Resources
      BY <2>1, AgainIsOwn DEF IInv
    <3>. QED
      BY <1>1, <3>1 DEF Effect
  <2>3. x \in Again(p)' => x \in Flux(p)
    BY <1>3
  <2>4. TypeInv /\ Exclusive
    BY DEF IInv
  <2>. QED
    BY <1>2, <1>6, <2>1, <2>2, <2>3, <2>4, AgainOthers
<1>. QED
  BY <1>5, <1>6

\* A request begins or ends, the process is killed, or nothing happens.
LEMMA AgainBetween ==
    ASSUME TypeInv, AgainOK, UNCHANGED <<acked, dirty>>,
           \A q \in Workers :
              \/ /\ pc'[q] = pc[q] /\ got'[q] = got[q] /\ req'[q] = req[q] /\ todo'[q] = todo[q]
                 /\ quiet'[q] \subseteq quiet[q]
              \/ Flux(q)' = {} /\ Again(q)' = {}
    PROVE  AgainOK'
<1>1. \A q \in Workers : /\ Flux(q)' \subseteq Flux(q) /\ Again(q)' \subseteq Again(q)
                         /\ Again(q)' # {} => quiet'[q] \subseteq quiet[q] /\ got'[q] = got[q]
  BY DEF Flux, Again, Dst
<1>. QED
  BY <1>1 DEF AgainOK

----------------------------------------------------------------------------
(***************************************************************************)
(* What a request about an upload finds, and what it is answered.          *)
(***************************************************************************)
\* What the invariant says of p alone.
OwnOK(p) == InHandOK(p) /\ UploadAt(p)

\* A request that is not about one upload has nothing to say about one.
LEMMA OthersOwn ==
    ASSUME NEW p \in Workers, UploadControlAt(req'[p].op, pc'[p]), req'[p].op \notin JobOps,
           job'[p] # None => req'[p].op \in JobOps
    PROVE  OwnOK(p)'
<1>1. InHandOK(p)'
  BY DEF InHandOK, UploadControlAt, CombineCalls, JobOps
<1>2. PartAt(p)' /\ CompleteAt(p)' /\ PartsAt(p)'
  BY DEF PartAt, CompleteAt, PartsAt, UploadControlAt, PartOps, JobOps
<1>3. UploadAnswered(p)'
  BY DEF UploadAnswered
<1>. QED
  BY <1>1, <1>2, <1>3 DEF OwnOK, UploadAt

\* What a worker at a call of its own has to start from.
AtOwn(p) ==
    /\ Active(p) /\ RequestOK(p) /\ FilesOK(p) /\ OwnOK(p)
    /\ req[p].op \in JobOps /\ req' = req
    /\ p \in DOMAIN pc /\ p \in DOMAIN got /\ p \in DOMAIN job

\* A request that ends has to be answered rightly, no more.
LEMMA EndsOwn ==
    ASSUME NEW p \in Workers, AtOwn(p), pc'[p] = "done", job' = job,
           got'[p].code = "OK" /\ req[p].op \in PartOps => job[p].part \in 1..PartCount,
           UploadAnswered(p)'
    PROVE  OwnOK(p)'
<1>1. InHandOK(p)'
  BY DEF AtOwn, OwnOK, InHandOK, CombineCalls, ObjectPuts
<1>2. PartAt(p)' /\ CompleteAt(p)' /\ PartsAt(p)'
  BY DEF PartAt, CompleteAt, PartsAt, PartCalls, AtOwn
<1>. QED
  BY <1>1, <1>2 DEF OwnOK, UploadAt

\* Nothing is said of an answer but these.
LEMMA FailsOwn ==
    ASSUME NEW p \in Workers, AtOwn(p), job' = job, NEW code, Fail(p, code),
           code \in {"NoSuchBucket", "NoSuchKey", "InternalError", "InvalidPart"},
           code = "InternalError" => req[p].op \notin {"Abort", "ListParts"},
           code = "InvalidPart" => req[p].op # "Complete"
    PROVE  OwnOK(p)'
<1>1. pc'[p] = "done" /\ got'[p].code = code
  BY DEF Fail, Finish, Goto, Nothing, AtOwn
<1>2. UploadAnswered(p)'
  BY <1>1 DEF UploadAnswered, Answered, AtOwn
<1>. QED
  BY <1>1, <1>2, EndsOwn

\* A request that fails where nothing had disturbed it would be wrong to.
LEMMA DisturbedOwn ==
    ASSUME NEW p \in Workers, AtOwn(p), job' = job, NEW code, Fail(p, code), code # "OK",
           ~Sure(p, ItemsOf(Path(p)))'
    PROVE  OwnOK(p)'
<1>1. pc'[p] = "done" /\ got'[p].code = code
  BY DEF Fail, Finish, Goto, Nothing, AtOwn
<1>2. UploadAnswered(p)'
  BY DEF UploadAnswered
<1>. QED
  BY <1>1, <1>2, EndsOwn

\* What a step of a worker starts from.
LEMMA OwnAt ==
    ASSUME IInv, PartsInv, UploadInv, NEW p \in Workers, UploadStep(p) \/ PlainStep(p),
           req[p].op \in JobOps
    PROVE  AtOwn(p)
<1>1. Active(p) /\ req' = req
  BY UploadStepFrame, PlainFrameIs DEF Frame
<1>2. RequestOK(p) /\ FilesOK(p) /\ OwnOK(p)
  BY <1>1 DEF Active, PartsInv, WorkerOK, UploadInv, OwnOK
<1>. QED
  BY <1>1, <1>2 DEF AtOwn, PartsInv, Tables

\* What is calm for it and certain is in the files.
LEMMA FoundCalm ==
    ASSUME PartsInv, NEW p \in Workers, Midway(p) = {}, NEW x \in calm[p] \ unsure
    PROVE  x \in Items /\ doc[x] = kept[x] /\ (x \in Parts => partData[x] = kept[x])
BY CalmIsSettled DEF ItemSettled

\* The bucket of the request is looked for.
LEMMA BucketKnownOwn ==
    ASSUME NEW p \in Workers, AtOwn(p), NEW label, NEW next, BucketKnown(p, label, next),
           <<label, next>> \in {<<"UploadBucket", "UploadMkdir">>,
                                <<"UploadExists", "UploadRead">>,
                                <<"CompleteExists", "CompleteMeta">>}
    PROVE  OwnOK(p)'
<1>1. CASE FailUpload(p, "NoSuchBucket")
  BY <1>1, FailsOwn DEF FailUpload, BucketKnown
<1>2. CASE Goto(p, next) /\ UNCHANGED <<got, chunk>>
  <2>1. /\ pc[p] = label /\ pc'[p] = next /\ got' = got /\ job' = job
        /\ UNCHANGED <<req, acked, dirty, quiet, kept, unsure, calm>>
    BY <1>2 DEF AtOwn, BucketKnown, LookUpload, Look, Goto, history, uploadHistory
  <2>2. InHandOK(p)'
    BY <2>1 DEF AtOwn, OwnOK, InHandOK, CombineCalls, ObjectPuts
  <2>3. PartAt(p)' /\ CompleteAt(p)' /\ PartsAt(p)' /\ UploadAnswered(p)'
    BY <2>1 DEF AtOwn, OwnOK, UploadAt, PartAt, CompleteAt, PartsAt, UploadAnswered, PartCalls,
       Undisturbed, Src, RequestOK, UploadControlAt, CombineCalls, PartOps
  <2>. QED
    BY <2>2, <2>3 DEF OwnOK, UploadAt
<1>. QED
  BY <1>1, <1>2 DEF BucketKnown

\* Between its calls an upload request has nothing to say of the upload, ...
LEMMA SilentOwn ==
    ASSUME NEW p \in Workers, AtOwn(p), job' = job,
           pc'[p] \in CreateUploadCalls \cup {"RemoveNames", "RemoveEntries"} \cup ObjectGets,
           pc'[p] \in {"DocOpen", "DocWrite"} => req[p].op \notin PartOps
    PROVE  OwnOK(p)'
<1>1. InHandOK(p)'
  BY DEF AtOwn, OwnOK, InHandOK, CombineCalls, ObjectPuts, CreateUploadCalls, ObjectGets
<1>2. PartAt(p)' /\ CompleteAt(p)' /\ PartsAt(p)' /\ UploadAnswered(p)'
  BY DEF AtOwn, PartAt, CompleteAt, PartsAt, UploadAnswered, PartCalls, CreateUploadCalls,
     ObjectGets
<1>. QED
  BY <1>1, <1>2 DEF OwnOK, UploadAt

\* ... except one that writes a part: it has the part's body in hand, and it
\* has found the upload.
LEMMA PartGoesOnOwn ==
    ASSUME NEW p \in Workers, AtOwn(p), job' = job, req[p].op \in PartOps,
           pc[p] \in PartCalls, pc'[p] \in PartCalls,
           got'[p].body = got[p].body, UNCHANGED <<acked, dirty, quiet>>,
           pc'[p] \notin {"PartNumber", "UploadExists", "UploadRead"} => FoundOpen(p)'
    PROVE  OwnOK(p)'
<1>1. InHandOK(p)'
  BY DEF AtOwn, OwnOK, InHandOK, CombineCalls, ObjectPuts, PartCalls, PartOps
<1>2. PartAt(p)'
  BY DEF AtOwn, OwnOK, UploadAt, PartAt, PartCalls, Undisturbed, Src
<1>3. CompleteAt(p)' /\ PartsAt(p)' /\ UploadAnswered(p)'
  BY DEF AtOwn, CompleteAt, PartsAt, UploadAnswered, PartCalls, PartOps
<1>. QED
  BY <1>1, <1>2, <1>3 DEF OwnOK, UploadAt

LEMMA PartNumberOwn ==
    ASSUME NEW p \in Workers, AtOwn(p), PartNumber(p)
    PROVE  OwnOK(p)'
<1>1. pc[p] = "PartNumber" /\ req[p].op \in PartOps /\ job' = job
      /\ UNCHANGED <<acked, dirty, quiet>>
  BY DEF AtOwn, PartNumber, RequestOK, UploadControlAt, LookUpload, Look, history
<1>2. CASE FailUpload(p, "InvalidPart")
  BY <1>1, <1>2, FailsOwn DEF FailUpload, PartOps
<1>3. CASE Goto(p, "UploadExists") /\ UNCHANGED <<got, chunk>>
  <2>1. pc'[p] = "UploadExists" /\ got' = got
    BY <1>3 DEF Goto, AtOwn
  <2>. QED
    BY <1>1, <2>1, PartGoesOnOwn DEF PartCalls
<1>. QED
  BY <1>2, <1>3 DEF PartNumber

LEMMA PartCopyOwn ==
    ASSUME NEW p \in Workers, AtOwn(p), PartCopy(p)
    PROVE  OwnOK(p)'
<1>1. pc[p] = "PartCopy" /\ req[p].op \in PartOps /\ job' = job
      /\ UNCHANGED <<acked, dirty, quiet, kept, unsure, calm, req>>
  BY DEF AtOwn, PartCopy, RequestOK, UploadControlAt, LookUpload, Look, history, uploadHistory
<1>2. CASE FailUpload(p, "InternalError")
  BY <1>1, <1>2, FailsOwn DEF FailUpload, PartOps
<1>3. CASE Goto(p, "PartRename") /\ UNCHANGED got
  <2>1. pc'[p] = "PartRename" /\ got' = got
    BY <1>3 DEF Goto, AtOwn
  <2>2. FoundOpen(p)'
    BY <1>1 DEF AtOwn, OwnOK, UploadAt, PartAt, PartCalls, FoundOpen, Path, Dst
  <2>. QED
    BY <1>1, <2>1, <2>2, PartGoesOnOwn DEF PartCalls
<1>. QED
  BY <1>2, <1>3 DEF PartCopy

\* A temp file is made for a part or for the whole.
LEMMA CreateTempOwn ==
    ASSUME NEW p \in Workers, AtOwn(p), PartTemp(p) \/ CombinedTemp(p)
    PROVE  OwnOK(p)'
<1>0. \/ req[p].op \in PartOps /\ pc[p] = "PartTemp"
      \/ req[p].op = "Complete" /\ pc[p] = "CombinedTemp"
  BY DEF AtOwn, PartTemp, CombinedTemp, RequestOK, UploadControlAt, CombineCalls
<1>1. job' = job /\ UNCHANGED <<acked, dirty, quiet, kept, unsure, calm, req>>
  BY DEF AtOwn, PartTemp, CombinedTemp, CreateTemp, LookUpload, Look, Elsewhere, history,
     uploadHistory
<1>2. FoundOpen(p)'
  BY <1>0, <1>1 DEF AtOwn, OwnOK, UploadAt, PartAt, CompleteAt, PartCalls, FoundOpen, Path, Dst
<1>3. CASE FailUpload(p, "InternalError")
  BY <1>0, <1>1, <1>3, FailsOwn DEF FailUpload, PartOps
<1>4. CASE Goto(p, "PartCopy") /\ got' = got /\ PartTemp(p)
  <2>1. pc'[p] = "PartCopy" /\ pc[p] = "PartTemp"
    BY <1>4 DEF Goto, AtOwn, PartTemp
  <2>. QED
    BY <1>0, <1>1, <1>2, <1>4, <2>1, PartGoesOnOwn DEF PartCalls
<1>5. CASE Goto(p, "CombineMeta") /\ got' = got /\ CombinedTemp(p)
  <2>1. pc'[p] = "CombineMeta" /\ pc[p] = "CombinedTemp"
    BY <1>5 DEF Goto, AtOwn, CombinedTemp
  <2>2. InHandOK(p)'
    BY <1>0, <1>1, <1>5, <2>1 DEF AtOwn, OwnOK, InHandOK, CombineCalls, ObjectPuts
  <2>3. PartAt(p)' /\ CompleteAt(p)' /\ PartsAt(p)' /\ UploadAnswered(p)'
    BY <1>0, <1>1, <1>2, <2>1 DEF AtOwn, OwnOK, UploadAt, PartAt, CompleteAt, PartsAt, UploadAnswered,
       PartOps
  <2>. QED
    BY <2>2, <2>3 DEF OwnOK, UploadAt
<1>6. CASE job[p].sel = <<>> /\ FailUpload(p, "InvalidPart") /\ req[p].op = "Complete"
  <2>1. pc'[p] = "done" /\ got'[p].code = "InvalidPart"
    BY <1>6 DEF FailUpload, Fail, Finish, Goto, Nothing, AtOwn
  <2>2. Path(p) \in ItemsOf(Path(p))
    BY DEF ItemsOf
  <2>3. UploadAnswered(p)'
    BY <1>0, <1>1, <1>2, <1>6, <2>1, <2>2 DEF UploadAnswered, Answered, Sure, FoundOpen, Refusable,
       Path, Dst, PartOps
  <2>. QED
    BY <1>0, <1>1, <2>1, <2>3, EndsOwn
<1>. QED
  BY <1>0, <1>1, <1>3, <1>4, <1>5, <1>6 DEF PartTemp, CombinedTemp, CreateTemp

\* Writing a part changes nothing about the upload.
LEMMA StillFound ==
    ASSUME PartsInv, NEW p \in Workers, AtOwn(p), req[p].op \in PartOps, pc[p] \in PartCalls,
           pc[p] \notin {"PartNumber", "UploadExists", "UploadRead"}, job' = job, calm' = calm,
           \A x \in Items \ {Item(p)} : kept'[x] = kept[x] /\ (x \in unsure' <=> x \in unsure)
    PROVE  /\ FoundOpen(p)' /\ Path(p)' = Path(p) /\ Item(p)' = Item(p) /\ Dst(p)' = Dst(p)
           /\ Path(p) \in Items /\ Path(p) # Item(p) /\ Item(p) \in ItemsOf(Path(p))
<1>1. Path(p) \in Paths /\ job[p].part \in 1..PartCount /\ req[p].op # "CreateUpload"
  BY DEF AtOwn, RequestOK, PartOps
<1>2. Item(p) \in Parts /\ Path(p) \in Items /\ Path(p) # Item(p) /\ Item(p) \in ItemsOf(Path(p))
  BY <1>1, ItemFacts DEF Item
<1>3. Path(p)' = Path(p) /\ Item(p)' = Item(p) /\ Dst(p)' = Dst(p)
  BY DEF Path, Item, Dst, AtOwn
<1>4. FoundOpen(p)
  BY DEF AtOwn, OwnOK, UploadAt, PartAt
<1>. QED
  BY <1>2, <1>3, <1>4 DEF FoundOpen

LEMMA PartRenameOwn ==
    ASSUME PartsInv, NEW p \in Workers, AtOwn(p), PartRename(p)
    PROVE  OwnOK(p)'
<1>1. /\ pc[p] = "PartRename" /\ req[p].op \in PartOps /\ job' = job /\ calm' = calm
      /\ UNCHANGED <<acked, dirty, quiet>>
  BY DEF AtOwn, PartRename, RequestOK, UploadControlAt, Elsewhere, history, uploadHistory,
     Unsettle, Lose
<1>2. CASE FailUpload(p, "InternalError")
  BY <1>1, <1>2, FailsOwn DEF FailUpload, PartOps
<1>3. CASE Goto(p, "DocOpen") /\ UNCHANGED got /\ Unsettle(p, {Item(p)})
  <2>1. pc'[p] = "DocOpen"
    BY <1>3 DEF Goto, AtOwn
  <2>2. \A x \in Items \ {Item(p)} : kept'[x] = kept[x] /\ (x \in unsure' <=> x \in unsure)
    BY <1>3 DEF Unsettle, Lose
  <2>3. FoundOpen(p)'
    BY <1>1, <2>2, StillFound DEF PartCalls
  <2>. QED
    BY <1>1, <1>3, <2>1, <2>3, PartGoesOnOwn DEF PartCalls
<1>. QED
  BY <1>2, <1>3 DEF PartRename

LEMMA DocOpenOwn ==
    ASSUME PartsInv, NEW p \in Workers, AtOwn(p), DocOpen(p)
    PROVE  OwnOK(p)'
<1>1. /\ pc[p] = "DocOpen" /\ req[p].op \in PartOps \cup {"CreateUpload"} /\ job' = job
      /\ UNCHANGED <<acked, dirty, quiet>>
  BY DEF AtOwn, DocOpen, RequestOK, UploadControlAt, Elsewhere, history
<1>2. CASE FailUpload(p, "InternalError")
  BY <1>1, <1>2, FailsOwn DEF FailUpload, PartOps
<1>3. CASE Goto(p, "DocWrite") /\ UNCHANGED <<got, uploadHistory>>
  <2>1. pc'[p] = "DocWrite" /\ UNCHANGED <<kept, unsure, calm>>
    BY <1>3 DEF Goto, AtOwn, uploadHistory
  <2>2. CASE req[p].op \notin PartOps
    BY <1>1, <2>1, <2>2, SilentOwn DEF CreateUploadCalls
  <2>3. CASE req[p].op \in PartOps
    <3>1. FoundOpen(p)'
      BY <1>1, <2>1, <2>3, StillFound DEF PartCalls
    <3>. QED
      BY <1>1, <1>3, <2>1, <2>3, <3>1, PartGoesOnOwn DEF PartCalls
  <2>. QED
    BY <2>2, <2>3
<1>. QED
  BY <1>2, <1>3 DEF DocOpen

LEMMA GotDomain ==
    ASSUME PartsInv, NEW p \in Workers
    PROVE  /\ p \in DOMAIN got /\ p \in DOMAIN scan /\ p \in DOMAIN pc
           /\ DOMAIN got[p] = DOMAIN Nothing /\ "code" \in DOMAIN got[p]
           /\ \A c : [got[p] EXCEPT !.code = c].code = c
BY DEF PartsInv, Tables, Nothing

\* The part is what was sent, or what the source of the copy held.
LEMMA DocWriteOwn ==
    ASSUME PartsInv, NEW p \in Workers, AtOwn(p), DocWrite(p)
    PROVE  OwnOK(p)'
<1>1. /\ pc[p] = "DocWrite" /\ req[p].op \in PartOps \cup {"CreateUpload"} /\ job' = job
      /\ calm' = calm /\ UNCHANGED <<acked, dirty, quiet, req>>
  BY DEF AtOwn, DocWrite, RequestOK, UploadControlAt, Elsewhere, history, Keep, Lose
<1>2. CASE FailUpload(p, "InternalError")
  BY <1>1, <1>2, FailsOwn DEF FailUpload, PartOps
<1>3. CASE Succeed(p) /\ Keep(p, Rewrites(req[p], job[p]), Item(p), NewDoc(p))
  <2>1. pc'[p] = "done" /\ got'[p].code = "OK"
    BY <1>3, GotDomain DEF Succeed, Finish, Goto, AtOwn
  <2>2. CASE req[p].op = "CreateUpload"
    <3>1. UploadAnswered(p)'
      BY <1>1, <2>1, <2>2 DEF UploadAnswered, Answered
    <3>. QED
      BY <1>1, <2>1, <2>2, <3>1, EndsOwn DEF PartOps
  <2>3. CASE req[p].op \in PartOps
    <3>1. Rewrites(req[p], job[p]) = {Item(p)} /\ NewDoc(p) = got[p].body
      BY <2>3 DEF Rewrites, Item, Path, NewDoc, PartOps
    <3>2. \A x \in Items \ {Item(p)} : kept'[x] = kept[x] /\ (x \in unsure' <=> x \in unsure)
      BY <1>3, <3>1 DEF Keep
    <3>3. /\ FoundOpen(p)' /\ Path(p)' = Path(p) /\ Item(p)' = Item(p)
          /\ Item(p) \in ItemsOf(Path(p)) /\ Path(p) \in ItemsOf(Path(p)) /\ Item(p) \in Items
      BY <1>1, <2>3, <3>2, StillFound, AtDocument DEF PartCalls, ItemsOf
    <3>4. Item(p) \in calm[p] => kept'[Item(p)] = got[p].body
      BY <1>3, <3>1, <3>3 DEF Keep
    <3>5. /\ req[p].op = "UploadPart" => got[p].body = req[p].up
          /\ req[p].op = "UploadPartCopy" /\ Undisturbed(p, Src(p))
                => acked[Src(p)] # None /\ acked[Src(p)].body = got[p].body
      BY <1>1, <2>3 DEF AtOwn, OwnOK, UploadAt, PartAt, PartCalls, PartOps
    <3>6. UploadAnswered(p)'
      BY <1>1, <2>1, <2>3, <3>3, <3>4, <3>5 DEF UploadAnswered, Answered, Sure, FoundOpen,
         Undisturbed, Src, Dst, PartOps
    <3>7. job[p].part \in 1..PartCount
      BY <1>1, <2>3 DEF AtOwn, RequestOK, PartCalls
    <3>. QED
      BY <1>1, <2>1, <3>6, <3>7, EndsOwn
  <2>. QED
    BY <1>1, <2>2, <2>3
<1>. QED
  BY <1>2, <1>3 DEF DocWrite

\* A new directory, or RemoveAll at work: the request has found what it needs.
LEMMA FolderOwn ==
    ASSUME NEW p \in Workers, AtOwn(p), UploadMkdir(p) \/ RemoveNames(p) \/ RemoveEntry(p)
    PROVE  OwnOK(p)'
<1>1. pc'[p] \in {"DocOpen", "RemoveEntries"} /\ job' = job
  BY DEF UploadMkdir, RemoveNames, RemoveEntry, Goto, AtOwn
<1>2. pc'[p] = "DocOpen" => req[p].op \notin PartOps
  BY DEF UploadMkdir, RemoveNames, RemoveEntry, Goto, AtOwn, RequestOK, UploadControlAt, PartOps
<1>. QED
  BY <1>1, <1>2, SilentOwn DEF CreateUploadCalls

\* When the directory is gone, so is the upload.
LEMMA RemoveFolderOwn ==
    ASSUME PartsInv, NEW p \in Workers, AtOwn(p), RemoveFolder(p)
    PROVE  OwnOK(p)'
<1>1. pc[p] = "RemoveEntries" /\ job' = job /\ req' = req
  BY DEF AtOwn, RemoveFolder
<1>2. /\ req[p].op \in {"Complete", "Abort"} /\ Path(p) \in Items /\ Path(p) \in ItemsOf(Path(p))
      /\ Path(p)' = Path(p)
  BY <1>1, AtRemoval DEF ItemsOf, Path
<1>3. CASE Succeed(p) /\ Keep(p, ItemsOf(Path(p)), None, None)
  <2>1. pc'[p] = "done" /\ got'[p].code = "OK"
    BY <1>3, GotDomain DEF Succeed, Finish, Goto, AtOwn
  <2>2. kept'[Path(p)] = None
    BY <1>2, <1>3 DEF Keep
  <2>3. UploadAnswered(p)'
    BY <1>1, <1>2, <2>1, <2>2 DEF UploadAnswered, Answered
  <2>. QED
    BY <1>1, <1>2, <2>1, <2>3, EndsOwn DEF PartOps
<1>4. CASE FailUpload(p, "InternalError") /\ Lose(ItemsOf(Path(p)))
  <2>1. ~Sure(p, ItemsOf(Path(p)))'
    BY <1>2, <1>4 DEF Lose, Sure, ItemsOf
  <2>. QED
    BY <1>1, <1>4, <2>1, DisturbedOwn DEF FailUpload
<1>. QED
  BY <1>3, <1>4 DEF RemoveFolder

\* readUpload finds an upload of this key just when there is one.
LEMMA UploadReadOwn ==
    ASSUME PartsInv, NEW p \in Workers, AtOwn(p), UploadRead(p)
    PROVE  OwnOK(p)'
<1>1. /\ pc[p] = "UploadRead" /\ job' = job
      /\ UNCHANGED <<acked, dirty, quiet, kept, unsure, calm, req>>
  BY DEF AtOwn, UploadRead, LookUpload, Look, history, uploadHistory
<1>2. /\ req[p].op \in PartOps \cup {"Complete", "Abort", "ListParts"}
      /\ Path(p) \in Paths /\ Path(p)' = Path(p) /\ Dst(p)' = Dst(p)
  BY <1>1 DEF AtOwn, RequestOK, UploadControlAt, Path, Dst, JobOps, PartOps
<1>3. Path(p) \in ItemsOf(Path(p))
  BY DEF ItemsOf
<1>4. /\ Path(p) \in calm[p] \ unsure => doc[Path(p)] = kept[Path(p)]
      /\ kept[Path(p)] \in Sessions \cup {None}
      /\ {None, Empty, Garbled} \cap Sessions = {} /\ None # Empty /\ None # Garbled
  BY <1>1, <1>2, FoundCalm, SessionsAssumption, ValuesAssumption
     DEF Midway, PartsInv, SessionsKept
<1>5. ASSUME doc[Path(p)] \in Sessions, doc[Path(p)].key = Dst(p),
             Goto(p, AfterRead[req[p].op]), got' = [got EXCEPT ![p].attrs = doc[Path(p)].attrs]
      PROVE  OwnOK(p)'
  <2>1. /\ pc'[p] = AfterRead[req[p].op] /\ got'[p].body = got[p].body
        /\ got'[p].attrs \in Uploads
    BY <1>5, GotDomain DEF Goto, AtOwn, Sessions, Nothing
  <2>2. FoundOpen(p)'
    BY <1>1, <1>2, <1>4, <1>5 DEF FoundOpen
  <2>3. CASE req[p].op \in PartOps
    <3>1. pc'[p] = "PartTemp"
      BY <2>1, <2>3 DEF AfterRead, PartOps
    <3>. QED
      BY <1>1, <2>1, <2>2, <2>3, <3>1, PartGoesOnOwn DEF PartCalls
  <2>4. CASE req[p].op = "Complete"
    <3>1. pc'[p] = "CombinedTemp"
      BY <2>1, <2>4 DEF AfterRead
    <3>2. InHandOK(p)'
      BY <1>1, <2>1, <2>4, <3>1 DEF AtOwn, OwnOK, InHandOK, ObjectPuts
    <3>3. PartAt(p)' /\ CompleteAt(p)' /\ PartsAt(p)' /\ UploadAnswered(p)'
      BY <1>1, <2>2, <2>4, <3>1 DEF AtOwn, OwnOK, UploadAt, PartAt, CompleteAt, PartsAt,
         UploadAnswered, PartOps
    <3>. QED
      BY <3>2, <3>3 DEF OwnOK, UploadAt
  <2>5. CASE req[p].op = "Abort"
    <3>1. pc'[p] = "RemoveNames"
      BY <2>1, <2>5 DEF AfterRead
    <3>. QED
      BY <1>1, <3>1, SilentOwn
  <2>6. CASE req[p].op = "ListParts"
    <3>1. pc'[p] = "PartsScan"
      BY <2>1, <2>6 DEF AfterRead
    <3>2. InHandOK(p)'
      BY <1>1, <3>1 DEF AtOwn, OwnOK, InHandOK, CombineCalls, ObjectPuts
    <3>3. PartAt(p)' /\ CompleteAt(p)' /\ PartsAt(p)' /\ UploadAnswered(p)'
      BY <1>1, <2>2, <2>6, <3>1 DEF AtOwn, PartAt, CompleteAt, PartsAt, UploadAnswered, PartOps
    <3>. QED
      BY <3>2, <3>3 DEF OwnOK, UploadAt
  <2>. QED
    BY <1>2, <2>3, <2>4, <2>5, <2>6
<1>6. ASSUME doc[Path(p)] = None \/ (doc[Path(p)] \in Sessions /\ doc[Path(p)].key # Dst(p)),
             Fail(p, "NoSuchUpload")
      PROVE  OwnOK(p)'
  <2>1. pc'[p] = "done" /\ got'[p].code = "NoSuchUpload"
    BY <1>6 DEF Fail, Finish, Goto, Nothing, AtOwn
  <2>2. UploadAnswered(p)'
    BY <1>1, <1>2, <1>3, <1>4, <1>6, <2>1 DEF UploadAnswered, Answered, Sure
  <2>. QED
    BY <1>1, <2>1, <2>2, EndsOwn
<1>7. ASSUME doc[Path(p)] \in {Empty, Garbled}, Fail(p, "InternalError")
      PROVE  OwnOK(p)'
  <2>1. ~Sure(p, ItemsOf(Path(p)))'
    BY <1>1, <1>2, <1>3, <1>4, <1>7 DEF Sure
  <2>. QED
    BY <1>1, <1>7, <2>1, DisturbedOwn
<1>. QED
  BY <1>5, <1>6, <1>7 DEF UploadRead, FailUpload

\* A completion goes from part to part.
LEMMA CompleteGoesOnOwn ==
    ASSUME NEW p \in Workers, AtOwn(p), req[p].op = "Complete", job' = job,
           pc[p] \in {"CombinedOpen", "CompleteMeta"}, pc'[p] \in ObjectPuts
    PROVE  OwnOK(p)'
<1>1. InHandOK(p)'
  BY DEF AtOwn, OwnOK, InHandOK, CombineCalls, ObjectPuts
<1>2. PartAt(p)' /\ CompleteAt(p)' /\ PartsAt(p)' /\ UploadAnswered(p)'
  BY DEF AtOwn, PartAt, CompleteAt, PartsAt, UploadAnswered, PartOps, ObjectPuts
<1>. QED
  BY <1>1, <1>2 DEF OwnOK, UploadAt

\* To and from PutObject.
LEMMA CombinedOwn ==
    ASSUME NEW p \in Workers, AtOwn(p), CombinedOpen(p) \/ CompleteMeta(p)
    PROVE  OwnOK(p)'
<1>1. /\ req[p].op = "Complete" /\ job' = job /\ pc[p] \in {"CombinedOpen", "CompleteMeta"}
  BY DEF AtOwn, CombinedOpen, CompleteMeta, RequestOK, UploadControlAt, CombineCalls
<1>2. CASE FailUpload(p, "InternalError")
  BY <1>1, <1>2, FailsOwn DEF FailUpload
<1>3. CASE Goto(p, "PutExists") \/ Goto(p, "MetaMkdir")
  <2>1. pc'[p] \in ObjectPuts
    BY <1>3 DEF Goto, AtOwn, ObjectPuts
  <2>. QED
    BY <1>1, <2>1, CompleteGoesOnOwn
<1>. QED
  BY <1>2, <1>3 DEF CombinedOpen, CompleteMeta

\* The next part is ticked off, or the selection is refused.
LEMMA CombineMetaOwn ==
    ASSUME PartsInv, UploadValuesOK, NEW p \in Workers, AtOwn(p), CombineMeta(p)
    PROVE  OwnOK(p)'
<1> DEFINE j == job[p]
<1>1. /\ pc[p] = "CombineMeta" /\ req[p].op = "Complete"
      /\ UNCHANGED <<acked, dirty, quiet, kept, unsure, calm, req>>
  BY DEF AtOwn, CombineMeta, LookUpload, Look, history, uploadHistory, RequestOK,
     UploadControlAt, CombineCalls
<1>2. /\ j \in [path: Paths, part: Int, sel: Selections, left: SUBSET Nat,
                etags: Bodies \cup {None}]
      /\ j.left \subseteq DOMAIN j.sel
      /\ j.part = 0 \/ \E i \in DOMAIN j.sel \ j.left : j.sel[i].part = j.part
      /\ FoundOpen(p) /\ got[p].attrs \in Uploads /\ j.path = Path(p)
  BY <1>1 DEF AtOwn, OwnOK, InHandOK, UploadAt, CompleteAt, JobOps, CombineCalls, Path
<1>3. PICK k \in DOMAIN j.sel :
         /\ NextSelected(p, k)
         /\ \/ /\ Accepted(p, j.sel[k])
               /\ job' = [job EXCEPT ![p].part = j.sel[k].part, ![p].left = @ \ {k},
                                     ![p].etags = Join(@, j.sel[k].etag)]
               /\ Goto(p, "CombineData") /\ UNCHANGED got
            \/ ~Accepted(p, j.sel[k]) /\ Fail(p, "InvalidPart") /\ UNCHANGED job
  BY DEF CombineMeta, FailUpload
<1> DEFINE s == j.sel[k]
           x == <<Path(p), s.part>>
<1>4. s \in [part: Int, etag: Bodies] /\ k \in j.left
  <2>1. j.sel \in Seq([part: Int, etag: Bodies])
    BY <1>2 DEF Selections
  <2>2. k \in j.left
    BY <1>3 DEF NextSelected
  <2>3. ASSUME NEW T, NEW q \in Seq(T), NEW i \in DOMAIN q PROVE q[i] \in T
    BY <2>3
  <2> HIDE DEF j
  <2>. QED
    BY <2>1, <2>2, <2>3
<1>5. s.part \in 1..PartCount => x \in ItemsOf(Path(p))
  BY DEF ItemsOf
<1>6. x \in calm[p] \ unsure => doc[x] = kept[x]
  BY <1>1, FoundCalm DEF Midway
<1>7. Path(p) \in ItemsOf(Path(p))
  BY DEF ItemsOf
<1> HIDE DEF x, s, j
<1>8. CASE Accepted(p, s)
  <2>1. /\ job' = [job EXCEPT ![p].part = s.part, ![p].left = @ \ {k},
                              ![p].etags = Join(@, s.etag)]
        /\ pc'[p] = "CombineData" /\ got' = got
    BY <1>3, <1>8 DEF Goto, AtOwn, s, j
  <2>2. /\ job'[p].path = j.path /\ job'[p].part = s.part /\ job'[p].sel = j.sel
        /\ job'[p].left = j.left \ {k} /\ job'[p].etags = Join(j.etags, s.etag)
    BY <1>2, <2>1 DEF AtOwn, j
  <2>3. Join(j.etags, s.etag) \in Bodies
    BY <1>2, <1>4, JoinTypes
  <2>4. job'[p] \in [path: Paths, part: Int, sel: Selections, left: SUBSET Nat,
                     etags: Bodies \cup {None}]
    BY <1>2, <1>4, <2>1, <2>3 DEF AtOwn, j
  <2>5. InHandOK(p)'
    BY <1>1, <1>2, <2>1, <2>2, <2>3, <2>4 DEF InHandOK, ObjectPuts
  <2>6. Path(p)' = Path(p) /\ Item(p)' = x /\ Dst(p)' = Dst(p)
    BY <1>1, <1>2, <2>2 DEF Path, Item, Dst, x
  <2>7. s.part \in 1..PartCount /\ doc[x] = s.etag /\ s.etag # None
    BY <1>4, <1>8, ValuesAssumption DEF Accepted, validPartNumber, x
  <2>8. FoundOpen(p)'
    BY <1>1, <1>2, <2>6 DEF FoundOpen
  <2>9. \E i \in DOMAIN job'[p].sel \ job'[p].left : job'[p].sel[i].part = job'[p].part
    BY <1>2, <1>3, <2>2 DEF s, j
  <2>10. CompleteAt(p)'
    BY <1>1, <1>6, <2>1, <2>2, <2>6, <2>7, <2>8, <2>9 DEF CompleteAt
  <2>11. PartAt(p)' /\ PartsAt(p)' /\ UploadAnswered(p)'
    BY <1>1, <2>1 DEF PartAt, PartsAt, UploadAnswered, PartOps
  <2>. QED
    BY <2>5, <2>10, <2>11 DEF OwnOK, UploadAt
<1>9. CASE ~Accepted(p, s)
  <2>1. pc'[p] = "done" /\ got'[p].code = "InvalidPart" /\ job' = job
    BY <1>3, <1>9 DEF Fail, Finish, Goto, Nothing, AtOwn, s, j
  <2>2. ItemsOf(Path(p)) \subseteq calm[p] \ unsure => Refusable(Path(p), j.sel)
    <3>1. SUFFICES ASSUME ItemsOf(Path(p)) \subseteq calm[p] \ unsure
                   PROVE  Refusable(Path(p), j.sel)
      OBVIOUS
    <3>2. CASE s.part \notin 1..PartCount
      BY <1>3, <3>2 DEF Refusable, s, j
    <3>3. CASE s.part \in 1..PartCount /\ s.part = j.part
      <4>1. PICK i \in DOMAIN j.sel \ j.left : j.sel[i].part = j.part
        BY <1>2, <3>3, PartCountAssumption
      <4>. QED
        BY <1>2, <1>3, <1>4, <3>3, <4>1 DEF Refusable, s
    <3>4. CASE s.part \in 1..PartCount /\ s.part # j.part
      <4>1. doc[x] # s.etag
        BY <1>9, <3>4 DEF Accepted, validPartNumber, x, j
      <4>2. kept[x] # s.etag
        BY <1>5, <1>6, <3>1, <3>4, <4>1
      <4>. QED
        BY <1>3, <4>2 DEF Refusable, s, x, j
    <3>. QED
      BY <3>2, <3>3, <3>4
  <2>3. Path(p)' = Path(p) /\ Dst(p)' = Dst(p) /\ job'[p].sel = j.sel
    BY <1>1, <2>1 DEF Path, Dst, j
  <2>4. Refusable(Path(p), j.sel)' <=> Refusable(Path(p), j.sel)
    BY <1>1, <2>1, <2>3 DEF Refusable, j
  <2>5. UploadAnswered(p)'
    BY <1>1, <1>2, <1>7, <2>1, <2>2, <2>3, <2>4 DEF UploadAnswered, Answered, Sure, FoundOpen, j
  <2>. QED
    BY <1>1, <2>1, <2>5, EndsOwn
<1>. QED
  BY <1>8, <1>9

\* Its data is there, if nothing overlapped the completion.
LEMMA CombineDataOwn ==
    ASSUME TypeInv, PartsInv, UploadValuesOK, NEW p \in Workers, AtOwn(p), CombineData(p)
    PROVE  OwnOK(p)'
<1>1. /\ pc[p] = "CombineData" /\ req[p].op = "Complete" /\ job' = job
      /\ UNCHANGED <<acked, dirty, quiet, kept, unsure, calm, req>>
  BY DEF AtOwn, CombineData, LookUpload, Look, history, uploadHistory, RequestOK,
     UploadControlAt, CombineCalls
<1>2. /\ job[p].part \in 1..PartCount /\ Path(p) \in Paths /\ FoundOpen(p)
      /\ Item(p) = <<Path(p), job[p].part>>
      /\ Item(p) \in calm[p] \ unsure => kept[Item(p)] # None
  BY <1>1 DEF AtOwn, OwnOK, UploadAt, CompleteAt, RequestOK, JobOps, Item
<1>3. Item(p) \in Parts /\ Item(p) \in ItemsOf(Path(p))
  BY <1>2, ItemFacts
<1>4. Path(p)' = Path(p) /\ Item(p)' = Item(p) /\ Dst(p)' = Dst(p)
  BY <1>1 DEF Path, Item, Dst
<1>5. CASE Fail(p, "InternalError")
  BY <1>1, <1>5, FailsOwn
<1>6. CASE partData[Item(p)] = None /\ Fail(p, "InvalidPart")
  <2>1. Item(p) \notin calm[p] \ unsure
    BY <1>1, <1>2, <1>3, <1>6, FoundCalm DEF Midway
  <2>2. ~Sure(p, ItemsOf(Path(p)))'
    BY <1>1, <1>3, <1>4, <2>1 DEF Sure
  <2>. QED
    BY <1>1, <1>6, <2>2, DisturbedOwn
<1>7. CASE /\ partData[Item(p)] # None
           /\ got' = [got EXCEPT ![p].body = Join(@, partData[Item(p)])]
           /\ Goto(p, IF job[p].left = {} THEN "CombinedOpen" ELSE "CombineMeta")
  <2>1. got[p].body \in Bodies \cup {None} /\ partData[Item(p)] \in Bodies
    BY <1>3, <1>7 DEF UploadValuesOK, TypeInv, TypesOK, ServersOK, IsAnswer, AnswersWith
  <2>2. got'[p].body = Join(got[p].body, partData[Item(p)]) /\ got'[p].attrs = got[p].attrs
    BY <1>7, GotDomain DEF Nothing
  <2>3. got'[p].body \in Bodies /\ pc'[p] \in {"CombinedOpen", "CombineMeta"}
    BY <1>7, <2>1, <2>2, JoinTypes DEF Goto, AtOwn
  <2>4. InHandOK(p)'
    BY <1>1, <2>2, <2>3 DEF AtOwn, OwnOK, InHandOK, CombineCalls, ObjectPuts
  <2>5. FoundOpen(p)'
    BY <1>1, <1>2, <1>4 DEF FoundOpen
  <2>6. CompleteAt(p)'
    BY <1>1, <2>3, <2>5 DEF AtOwn, OwnOK, UploadAt, CompleteAt
  <2>7. PartAt(p)' /\ PartsAt(p)' /\ UploadAnswered(p)'
    BY <1>1, <2>3 DEF PartAt, PartsAt, UploadAnswered, PartOps
  <2>. QED
    BY <2>4, <2>6, <2>7 DEF OwnOK, UploadAt
<1>. QED
  BY <1>5, <1>6, <1>7 DEF CombineData, FailUpload

\* The directory is there, if nothing overlapped the listing, ...
LEMMA PartsScanOwn ==
    ASSUME PartsInv, NEW p \in Workers, AtOwn(p), PartsScan(p)
    PROVE  OwnOK(p)'
<1>1. /\ pc[p] = "PartsScan" /\ req[p].op = "ListParts" /\ job' = job
      /\ UNCHANGED <<acked, dirty, quiet, kept, unsure, calm, req>>
  BY DEF AtOwn, PartsScan, Look, history, uploadHistory, RequestOK, UploadControlAt
<1>2. FoundOpen(p) /\ Path(p) \in Paths
  BY <1>1 DEF AtOwn, OwnOK, UploadAt, PartsAt, RequestOK, JobOps
<1>3. Path(p)' = Path(p) /\ Dst(p)' = Dst(p)
  BY <1>1 DEF Path, Dst
<1>4. Path(p) \in ItemsOf(Path(p)) /\ \A x \in ItemsOf(Path(p)) \ {Path(p)} : x \in Parts
  BY <1>2, ItemFacts
<1>5. CASE /\ scan' = [scan EXCEPT ![p] = {x \in ItemsOf(Path(p)) \ {Path(p)} : doc[x] # None}]
           /\ Goto(p, "PartsRead") /\ UNCHANGED got
  <2>1. /\ scan'[p] = {x \in ItemsOf(Path(p)) \ {Path(p)} : doc[x] # None}
        /\ pc'[p] = "PartsRead"
    BY <1>5, GotDomain DEF Goto
  <2>2. \A x \in scan'[p] : /\ x \in Parts \cap ItemsOf(Path(p))
                            /\ x \in calm[p] \ unsure => kept[x] # None
    BY <1>1, <1>4, <2>1, FoundCalm DEF Midway
  <2>3. FoundOpen(p)'
    BY <1>1, <1>2, <1>3 DEF FoundOpen
  <2>4. PartsAt(p)'
    BY <1>1, <1>3, <2>1, <2>2, <2>3 DEF PartsAt
  <2>5. InHandOK(p)'
    BY <1>1, <2>1 DEF AtOwn, OwnOK, InHandOK, CombineCalls, ObjectPuts
  <2>6. PartAt(p)' /\ CompleteAt(p)' /\ UploadAnswered(p)'
    BY <1>1, <2>1 DEF PartAt, CompleteAt, UploadAnswered, PartOps
  <2>. QED
    BY <2>4, <2>5, <2>6 DEF OwnOK, UploadAt
<1>6. CASE Path(p) \notin folders /\ Fail(p, "InternalError")
  <2>1. Path(p) \notin calm[p] \ unsure
    BY <1>1, <1>2, <1>4, <1>6, FoundCalm DEF Midway, FoundOpen, PartsInv, InFolders
  <2>2. ~Sure(p, ItemsOf(Path(p)))'
    BY <1>1, <1>3, <1>4, <2>1 DEF Sure
  <2>. QED
    BY <1>1, <1>6, <2>2, DisturbedOwn
<1>. QED
  BY <1>5, <1>6 DEF PartsScan, FailUpload

\* ... and so is each part.
LEMMA PartsReadOwn ==
    ASSUME PartsInv, UploadValuesOK, NEW p \in Workers, AtOwn(p), PartsRead(p)
    PROVE  OwnOK(p)'
<1>1. /\ pc[p] = "PartsRead" /\ req[p].op = "ListParts" /\ job' = job
      /\ UNCHANGED <<acked, dirty, quiet, kept, unsure, calm, req>>
  BY DEF AtOwn, PartsRead, Look, history, uploadHistory, RequestOK, UploadControlAt
<1>2. Path(p)' = Path(p) /\ Dst(p)' = Dst(p)
  BY <1>1 DEF Path, Dst
<1>3. /\ FoundOpen(p)
      /\ \A x \in scan[p] : /\ x \in Parts \cap ItemsOf(Path(p))
                            /\ x \in calm[p] \ unsure => kept[x] # None
  BY <1>1 DEF AtOwn, OwnOK, UploadAt, PartsAt
<1>4. ASSUME NEW x \in scan[p], scan' = [scan EXCEPT ![p] = @ \ {x}], pc' = pc
      PROVE  OwnOK(p)'
  <2>1. scan'[p] = scan[p] \ {x}
    BY <1>4, GotDomain
  <2>2. FoundOpen(p)'
    BY <1>1, <1>2, <1>3 DEF FoundOpen
  <2>3. PartsAt(p)'
    BY <1>1, <1>2, <1>3, <2>1, <2>2 DEF PartsAt
  <2>4. InHandOK(p)'
    BY <1>1, <1>4 DEF AtOwn, OwnOK, InHandOK, CombineCalls, ObjectPuts
  <2>5. PartAt(p)' /\ CompleteAt(p)' /\ UploadAnswered(p)'
    BY <1>1, <1>4 DEF PartAt, CompleteAt, UploadAnswered, PartOps
  <2>. QED
    BY <2>3, <2>4, <2>5 DEF OwnOK, UploadAt
<1>5. ASSUME NEW x \in scan[p], doc[x] \notin Bodies, Fail(p, "InternalError")
      PROVE  OwnOK(p)'
  <2>1. x \notin calm[p] \ unsure
    BY <1>1, <1>3, <1>5, FoundCalm DEF Midway, UploadValuesOK
  <2>2. ~Sure(p, ItemsOf(Path(p)))'
    BY <1>1, <1>2, <1>3, <2>1 DEF Sure
  <2>. QED
    BY <1>1, <1>5, <2>2, DisturbedOwn
<1>6. CASE Succeed(p)
  <2>1. pc'[p] = "done" /\ got'[p].code = "OK"
    BY <1>6, GotDomain DEF Succeed, Finish, Goto
  <2>2. UploadAnswered(p)'
    BY <1>1, <2>1 DEF UploadAnswered, Answered
  <2>. QED
    BY <1>1, <2>1, <2>2, EndsOwn DEF PartOps
<1>. QED
  BY <1>4, <1>5, <1>6 DEF PartsRead, ReadEntry, FailUpload

\* UploadPartCopy reads the source as CopyObject does.
LEMMA PartCopyGets ==
    ASSUME IInv, PartsInv, NEW p \in Workers, AtOwn(p), Step(p), job' = job,
           req[p].op = "UploadPartCopy"
    PROVE  OwnOK(p)'
<1>1. /\ pc[p] \in ObjectGets /\ IsRequest(req[p]) /\ Src(p) \in Objects
  BY OwnStep DEF AtOwn, RequestOK, UploadControlAt, UploadOps, JobOps, IsRequest, Src
<1>2. GetExists(p) \/ GetMeta(p) \/ GetOpen(p)
  BY <1>1, StepCalls DEF ObjectGets
<1>3. UNCHANGED <<acked, dirty, quiet, req>>
  BY <1>2 DEF GetExists, GetMeta, GetOpen, Look, history
<1>4. CASE \E code \in {"NoSuchBucket", "InternalError"} : Fail(p, code)
  BY <1>1, <1>4, FailsOwn
<1>5. CASE Goto(p, "GetMeta") \/ Goto(p, "GetOpen")
  <2>1. pc'[p] \in ObjectGets
    BY <1>5 DEF Goto, AtOwn, ObjectGets
  <2>. QED
    BY <2>1, SilentOwn DEF ObjectGets
<1>6. ASSUME Goto(p, "PartNumber"), got' = [got EXCEPT ![p].body = data[Src(p)]],
             pc[p] = "GetOpen", data[Src(p)] # None
      PROVE  OwnOK(p)'
  <2>1. pc'[p] = "PartNumber" /\ got'[p].body = data[Src(p)] /\ Src(p)' = Src(p)
    BY <1>3, <1>6, GotDomain DEF Goto, Nothing, Src
  <2>2. InHandOK(p)'
    BY <1>1, <2>1 DEF AtOwn, OwnOK, InHandOK, CombineCalls, ObjectPuts
  <2>3. Undisturbed(p, Src(p)) => acked[Src(p)] # None /\ acked[Src(p)].body = data[Src(p)]
    BY <1>1, <1>6, ObjectFound, NoFlux DEF Undisturbed
  <2>4. PartAt(p)'
    BY <1>3, <2>1, <2>3 DEF PartAt, Undisturbed
  <2>5. CompleteAt(p)' /\ PartsAt(p)' /\ UploadAnswered(p)'
    BY <1>3, <2>1 DEF CompleteAt, PartsAt, UploadAnswered
  <2>. QED
    BY <2>2, <2>4, <2>5 DEF OwnOK, UploadAt
<1>. QED
  BY <1>2, <1>4, <1>5, <1>6 DEF GetExists, GetMeta, GetOpen, ReadDocument, Missing

\* PutObject for a completion.
LEMMA CompletePutsOwn ==
    ASSUME IInv, PartsInv, NEW p \in Workers, AtOwn(p), PlainStep(p), req[p].op = "Complete"
    PROVE  OwnOK(p)'
<1>1. /\ pc[p] \in PutCalls /\ job' = job /\ req' = req
      /\ \/ pc'[p] \in PutCalls
         \/ pc'[p] = AfterPut(p) /\ got'[p] = got[p] /\ pc[p] = "MetaWrite"
         \/ pc'[p] = "done" /\ got'[p].code \in {"NoSuchBucket", "InternalError"}
  BY CompletePuts, OwnStep DEF PlainStep
<1>2. job[p].etags \in Bodies
  BY <1>1 DEF AtOwn, OwnOK, InHandOK, PutCalls, ObjectPuts
<1>3. CASE pc'[p] \in PutCalls
  <2>1. InHandOK(p)'
    BY <1>1, <1>2, <1>3 DEF AtOwn, OwnOK, InHandOK, PutCalls, CombineCalls
  <2>2. PartAt(p)' /\ CompleteAt(p)' /\ PartsAt(p)' /\ UploadAnswered(p)'
    BY <1>1, <1>3 DEF PartAt, CompleteAt, PartsAt, UploadAnswered, PartOps, PutCalls
  <2>. QED
    BY <2>1, <2>2 DEF OwnOK, UploadAt
<1>4. CASE pc'[p] = AfterPut(p) /\ got'[p] = got[p] /\ pc[p] = "MetaWrite"
  <2>1. AfterPut(p) \in {"CompleteExists", "RemoveNames"}
    BY DEF AfterPut
  <2>2. CASE pc'[p] = "RemoveNames"
    BY <1>1, <2>2, SilentOwn
  <2>3. CASE pc'[p] = "CompleteExists"
    <3>1. got[p].body \in Bodies /\ got[p].attrs \in Uploads
      BY <1>1, OwnStep DEF PlainStep
    <3>2. InHandOK(p)'
      BY <1>1, <1>2, <1>4, <2>3, <3>1 DEF AtOwn, OwnOK, InHandOK, CombineCalls, ObjectPuts
    <3>3. PartAt(p)' /\ CompleteAt(p)' /\ PartsAt(p)' /\ UploadAnswered(p)'
      BY <1>1, <2>3 DEF PartAt, CompleteAt, PartsAt, UploadAnswered, PartOps
    <3>. QED
      BY <3>2, <3>3 DEF OwnOK, UploadAt
  <2>. QED
    BY <1>4, <2>1, <2>2, <2>3
<1>5. CASE pc'[p] = "done" /\ got'[p].code \in {"NoSuchBucket", "InternalError"}
  <2>1. UploadAnswered(p)'
    BY <1>1, <1>5 DEF UploadAnswered, Answered
  <2>. QED
    BY <1>1, <1>5, <2>1, EndsOwn
<1>. QED
  BY <1>1, <1>3, <1>4, <1>5

\* Only the step that begins a request about an upload gives it a job.
LEMMA JobStays ==
    ASSUME PartsInv, JobsOK, NEW p \in Workers, UploadStep(p) \/ PlainStep(p),
           Active(p), req' = req, \A q \in Workers \ {p} : pc'[q] = pc[q] /\ job'[q] = job[q],
           pc'[p] # "idle"
    PROVE  JobsOK'
<1>1. job'[p] # None => job[p] # None \/ CombineMeta(p)
  BY DEF PlainStep, UploadStep, UploadBucket, UploadExists, CompleteExists, UploadsExists,
     BucketKnown, PartNumber, UploadRead, PartTemp, PartCopy, CombinedTemp, CombineData,
     CombinedOpen, CompleteMeta, UploadMkdir, DocOpen, DocWrite, PartRename, RemoveNames,
     RemoveEntry, RemoveFolder, SweepUploads, RmdirUploads, PartsScan, PartsRead, UploadsScan,
     UploadsRead, CreateTemp
<1>2. CombineMeta(p) => req[p].op \in JobOps
  BY DEF CombineMeta, PartsInv, WorkerOK, RequestOK, UploadControlAt, CombineCalls, JobOps
<1>. QED
  BY <1>1, <1>2 DEF JobsOK

\* What the invariant says of p itself is kept by its own calls.
LEMMA WorkOwn ==
    ASSUME IInv, PartsInv, PartsInv', UploadInv, NEW p \in Workers,
           UploadStep(p) \/ PlainStep(p), JobsOK', pc'[p] # "idle"
    PROVE  OwnOK(p)'
<1>1. req' = req
  BY UploadStepFrame, PlainFrameIs DEF Frame
<1>2. CASE req[p].op \notin JobOps
  <2>1. UploadControlAt(req'[p].op, pc'[p])
    BY DEF PartsInv, WorkerOK, RequestOK
  <2>2. job'[p] # None => req'[p].op \in JobOps
    BY DEF JobsOK
  <2>. QED
    BY <1>1, <1>2, <2>1, <2>2, OthersOwn
<1>3. CASE req[p].op \in JobOps
  <2>1. AtOwn(p) /\ UploadValuesOK /\ TypeInv
    BY <1>3, OwnAt DEF UploadInv, IInv
  <2>2. CASE PlainStep(p)
    <3>1. pc[p] \in Labels \ {"idle", "done"} /\ RequestOK(p) /\ Step(p) /\ job' = job
      BY <2>1, <2>2, OwnStep DEF PlainStep, AtOwn
    <3>2. req[p].op \in {"UploadPartCopy", "Complete"}
      BY <1>3, <3>1 DEF RequestOK, UploadControlAt, UploadOps
    <3>. QED
      BY <2>1, <2>2, <3>1, <3>2, PartCopyGets, CompletePutsOwn
  <2>3. CASE UploadBucket(p) \/ UploadExists(p) \/ CompleteExists(p)
    BY <2>1, <2>3, BucketKnownOwn DEF UploadBucket, UploadExists, CompleteExists
  <2>4. CASE \/ UploadMkdir(p) \/ DocOpen(p) \/ DocWrite(p) \/ PartNumber(p) \/ UploadRead(p)
             \/ PartTemp(p) \/ PartCopy(p) \/ PartRename(p) \/ CombinedTemp(p)
    BY <2>1, <2>4, FolderOwn, DocOpenOwn, DocWriteOwn, PartNumberOwn, UploadReadOwn,
       CreateTempOwn, PartCopyOwn, PartRenameOwn
  <2>5. CASE \/ CombineMeta(p) \/ CombineData(p) \/ CombinedOpen(p) \/ CompleteMeta(p)
             \/ RemoveNames(p) \/ RemoveEntry(p) \/ RemoveFolder(p)
             \/ PartsScan(p) \/ PartsRead(p)
    BY <2>1, <2>5, CombineMetaOwn, CombineDataOwn, CombinedOwn, FolderOwn, RemoveFolderOwn,
       PartsScanOwn, PartsReadOwn
  <2>6. ~(\/ SweepUploads(p) \/ RmdirUploads(p) \/ UploadsExists(p) \/ UploadsScan(p)
          \/ UploadsRead(p))
    BY <1>3, <2>1 DEF SweepUploads, RmdirUploads, UploadsExists, BucketKnown, UploadsScan,
       UploadsRead, AtOwn, RequestOK, UploadControlAt, JobOps, SweepCalls
  <2>. QED
    BY <2>2, <2>3, <2>4, <2>5, <2>6 DEF UploadStep
<1>. QED
  BY <1>2, <1>3

----------------------------------------------------------------------------
(***************************************************************************)
(* What the plain requests have in hand, beside multipart requests.        *)
(***************************************************************************)
\* A request about uploads has no plain answer to give, and DeleteBucket has
\* none yet while it sweeps.
LEMMA NoPlainAnswer ==
    ASSUME TypeInv', NEW q \in Workers, pc'[q] # "idle",
           \/ req'[q].op \in UploadOps
           \/ req'[q].op = "DeleteBucket" /\ pc'[q] \in {"RemoveFiles", "RmdirUploads"}
    PROVE  AnswersAt(q)'
<1>1. /\ IsRequest(req'[q]) /\ todo'[q] \in Seq(Range(req'[q].dels))
      /\ ControlAt(req'[q].op, pc'[q])
  BY DEF TypeInv, TypesOK, ServersOK, TodoOK, ControlOK
<1>2. req'[q].op \in UploadOps \cup {"DeleteBucket"}
  OBVIOUS
<1>3. req'[q].dels = <<>>
  BY <1>1, <1>2 DEF IsRequest, UploadOps, JobOps, Deleters
<1>4. Range(req'[q].dels) = {} /\ todo'[q] = <<>>
  BY <1>1, <1>3 DEF Range
<1>5. ReadsAt(q)' /\ PutAt(q)' /\ CopyAt(q)'
  BY <1>2 DEF ReadsAt, PutAt, CopyAt, Readers, UploadOps, JobOps, Answered
<1>6. DeletesAt(q)'
  BY <1>4 DEF DeletesAt
<1>7. ListingAt(q)'
  BY <1>1, <1>2 DEF ListingAt, Answered, ControlAt, ListCalls, UploadOps, JobOps
<1>8. BucketAt(q)'
  BY <1>1 DEF BucketAt, Answered, ControlAt, DeleteCalls, UploadOps, JobOps
<1>. QED
  BY <1>5, <1>6, <1>7, <1>8 DEF AnswersAt

\* The calls of Multipart leave the data files of objects alone.
LEMMA UploadStepData ==
    ASSUME NEW p \in Workers, UploadStep(p)
    PROVE  UNCHANGED <<data, bucketFile, litter>> /\ pc[p] \in UploadLabels \cup {"RemoveFiles"}
BY DEF UploadStep, UploadBucket, UploadExists, CompleteExists, UploadsExists, BucketKnown,
   PartNumber, UploadRead, PartTemp, PartCopy, CombinedTemp, CombineMeta, CombineData,
   CombinedOpen, CompleteMeta, UploadMkdir, DocOpen, DocWrite, PartRename, RemoveNames,
   RemoveEntry, RemoveFolder, SweepUploads, RmdirUploads, PartsScan, PartsRead, UploadsScan,
   UploadsRead, CreateTemp, LookUpload, Look, Elsewhere, disk, UploadLabels

\* A call of Multipart is no business of a plain request.
LEMMA UploadStepStill ==
    ASSUME IInv, PartsInv, NEW p \in Workers, NEW q \in Workers \ {p}, UploadStep(p),
           pc[q] # "idle", req[q].op \in Ops
    PROVE  Still(q)
<1>1. UNCHANGED <<data, bucketFile, litter>>
  BY UploadStepData
<1>2. pc[q] # "RemoveEntries"
  BY DEF PartsInv, WorkerOK, RequestOK, UploadControlAt, Ops, Readers, Writers, Deleters,
     BucketOps
<1>. QED
  BY <1>1, <1>2, UploadStepFrame DEF Frame, Still, history, BucketExists

\* So what the plain requests have found out stays true.
LEMMA UploadStepAnswers ==
    ASSUME IInv, TypeInv', AnswersInv, PartsInv, NEW p \in Workers, UploadStep(p)
    PROVE  AnswersInv'
<1> SUFFICES ASSUME NEW q \in Workers, pc'[q] # "idle" PROVE AnswersAt(q)'
  BY DEF AnswersInv
<1>1. req' = req /\ Active(p) /\ \A o \in Workers \ {p} : pc'[o] = pc[o]
  BY UploadStepFrame DEF Frame
<1>2. pc[q] # "idle" /\ req[q].op \in Ops \cup UploadOps
  <2>1. pc[q] # "idle"
    BY <1>1 DEF Active
  <2>. QED
    BY <2>1 DEF IInv, TypeInv, TypesOK, ServersOK, IsRequest
<1>3. CASE req[q].op \in UploadOps
  BY <1>1, <1>3, NoPlainAnswer
<1>4. CASE req[q].op \in Ops /\ q # p
  <2>1. Still(q) /\ AnswersAt(q)
    BY <1>2, <1>4, UploadStepStill DEF AnswersInv
  <2>. QED
    BY <1>2, <2>1, StillKeeps
<1>5. CASE req[q].op \in Ops /\ q = p
  <2>1. req[p].op \notin UploadOps
    BY <1>5 DEF Ops, Readers, Writers, Deleters, BucketOps, UploadOps, JobOps
  <2>2. SweepUploads(p) \/ RmdirUploads(p)
    <3>1. pc[p] \notin UploadLabels \ {"RmdirUploads"}
      BY <2>1 DEF IInv, TypeInv, ControlOK, ControlAt
    <3>. QED
      BY <3>1 DEF UploadStep, UploadBucket, UploadExists, CompleteExists, UploadsExists,
         BucketKnown, PartNumber, UploadRead, PartTemp, PartCopy, CombinedTemp, CombineMeta,
         CombineData, CombinedOpen, CompleteMeta, UploadMkdir, DocOpen, DocWrite, PartRename,
         RemoveNames, RemoveEntry, RemoveFolder, PartsScan, PartsRead, UploadsScan,
         UploadsRead, UploadLabels
  <2>3. req[p].op = "DeleteBucket"
    BY <2>2, AtSweep DEF SweepUploads, RmdirUploads
  <2>4. pc'[p] \in {"RemoveFiles", "RmdirUploads"}
    BY <2>2 DEF SweepUploads, RmdirUploads, Goto, PartsInv, Tables
  <2>. QED
    BY <1>1, <1>5, <2>3, <2>4, NoPlainAnswer
<1>. QED
  BY <1>2, <1>3, <1>4, <1>5

----------------------------------------------------------------------------
(***************************************************************************)
(* Between requests.                                                       *)
(***************************************************************************)
\* What is sent is a request.
LEMMA SentIs ==
    ASSUME NEW r, NEW j, Sendable(r, j)
    PROVE  /\ IsRequest(r)
           /\ r.op \in JobOps =>
                /\ j \in [path: Paths, part: Int, sel: Selections, left: SUBSET Nat,
                          etags: Bodies \cup {None}]
                /\ j.left = DOMAIN j.sel /\ (r.op \notin PartOps => j.part = 0)
                /\ FirstCall[r.op] \in {"UploadBucket", "PartNumber", "GetExists", "UploadExists"}
                /\ FirstCall[r.op] = "PartNumber" => r.op = "UploadPart"
                /\ FirstCall[r.op] = "GetExists" => r.op = "UploadPartCopy"
                /\ FirstCall[r.op] = "UploadExists" => r.op \notin PartOps
<1>1. CASE r \in Requests /\ j = None
  <2>1. IsRequest(r) /\ r.op \in Ops
    BY <1>1, RequestsAssumption
  <2>2. r.op \notin JobOps
    BY <2>1 DEF Ops, Readers, Writers, Deleters, BucketOps, JobOps
  <2>. QED
    BY <2>1, <2>2
<1>2. CASE \E c \in Calls : r = c.req /\ j = c.job
  <2>1. PICK c \in Calls : r = c.req /\ j = c.job /\ IsCall(c)
    BY <1>2, CallsAssumption
  <2>2. IsRequest(r) /\ (r.op \in {"DeleteBucket"} \cup UploadOps => r.bucket \in Buckets)
    BY <2>1 DEF IsCall, IsRequest, BucketOps
  <2>3. ASSUME r.op \in JobOps
        PROVE  /\ j \in Jobs(r.bucket) /\ j.left = DOMAIN j.sel
               /\ (r.op \notin PartOps => j.part = 0)
    BY <2>1, <2>3 DEF IsCall, JobOps, PartOps
  <2>4. \A k \in Jobs(r.bucket) : r.bucket \in Buckets =>
            k \in [path: Paths, part: Int, sel: Selections, left: SUBSET Nat,
                   etags: Bodies \cup {None}]
    BY DEF Jobs, Paths
  <2>5. r.op \in JobOps =>
           FirstCall[r.op] = CASE r.op = "CreateUpload" -> "UploadBucket"
                               [] r.op = "UploadPart" -> "PartNumber"
                               [] r.op = "UploadPartCopy" -> "GetExists"
                               [] OTHER -> "UploadExists"
    BY DEF FirstCall, JobOps
  <2>. QED
    BY <2>2, <2>3, <2>4, <2>5 DEF UploadOps, JobOps, PartOps
<1>. QED
  BY <1>1, <1>2 DEF Sendable

\* A request that begins has found out nothing yet.
LEMMA BeginOwn ==
    ASSUME IInv, PartsInv, PartsInv', NEW p \in Workers, NEW r, NEW j, Sendable(r, j),
           BeginUpload(p, r, j)
    PROVE  OwnOK(p)' /\ (job'[p] # None => pc'[p] # "idle" /\ req'[p].op \in JobOps)
<1>1. /\ pc'[p] = FirstCall[r.op] /\ req'[p] = r /\ job'[p] = j
      /\ got'[p].body = r.up
  BY GotDomain DEF BeginUpload, Begin, Goto, PartsInv, Tables, Nothing
<1>2. FirstCall[r.op] # "idle" /\ UploadControlAt(r.op, FirstCall[r.op])
      /\ (r.op \notin JobOps => j = None)
  BY FirstCallIs
<1>3. CASE r.op \notin JobOps
  BY <1>1, <1>2, <1>3, OthersOwn
<1>4. CASE r.op \in JobOps
  <2>1. /\ j \in [path: Paths, part: Int, sel: Selections, left: SUBSET Nat,
                  etags: Bodies \cup {None}]
        /\ j.left = DOMAIN j.sel /\ (r.op \notin PartOps => j.part = 0)
        /\ FirstCall[r.op] \in {"UploadBucket", "PartNumber", "GetExists", "UploadExists"}
        /\ FirstCall[r.op] = "PartNumber" => r.op = "UploadPart"
        /\ FirstCall[r.op] = "GetExists" => r.op = "UploadPartCopy"
        /\ FirstCall[r.op] = "UploadExists" => r.op \notin PartOps
    BY <1>4, SentIs
  <2>2. InHandOK(p)'
    BY <1>1, <2>1 DEF InHandOK, CombineCalls, ObjectPuts
  <2>3. PartAt(p)'
    BY <1>1, <2>1 DEF PartAt, PartCalls, PartOps
  <2>4. CompleteAt(p)' /\ PartsAt(p)' /\ UploadAnswered(p)'
    BY <1>1, <2>1 DEF CompleteAt, PartsAt, UploadAnswered, PartOps
  <2>. QED
    BY <1>1, <1>2, <1>4, <2>2, <2>3, <2>4 DEF OwnOK, UploadAt
<1>. QED
  BY <1>3, <1>4

\* Nobody else notices that a request begins or ends.
LEMMA BetweenUploadInv ==
    ASSUME IInv, PartsInv, UploadInv, NEW p \in Workers,
           RespondUpload(p) \/ \E r, j : IsRequest(r) /\ BeginUpload(p, r, j),
           pc'[p] # "idle" => OwnOK(p)',
           job'[p] # None => pc'[p] # "idle" /\ req'[p].op \in JobOps,
           Flux(p)' = {} /\ Again(p)' = {}
    PROVE  UploadInv'
<1>1. ASSUME NEW q \in Workers \ {p} PROVE Stands(q) /\ Still(q)
  BY <1>1, BetweenStands
<1>2. UploadValuesOK'
  <2>1. UNCHANGED <<doc, partData, kept, chunk>>
    BY DEF RespondUpload, BeginUpload, uploadDisk
  <2>. QED
    BY <2>1, NothingWritten DEF DropsChunk, UploadInv
<1>3. AgainOK'
  <2>1. UNCHANGED <<acked, dirty>>
    BY DEF RespondUpload, BeginUpload, Begin, Respond
  <2>. QED
    BY <1>1, <2>1, AgainBetween DEF Still, UploadInv, IInv
<1>4. JobsOK'
  BY <1>1 DEF JobsOK, Stands, UploadInv
<1>5. ASSUME NEW q \in Workers \ {p}, pc'[q] # "idle" PROVE InHandOK(q)' /\ UploadAt(q)'
  <2>1. pc[q] # "idle" /\ InHandOK(q) /\ UploadAt(q)
    BY <1>1, <1>5 DEF Stands, UploadInv
  <2>. QED
    BY <1>1, <2>1, StandsKeeps
<1>. QED
  BY <1>2, <1>3, <1>4, <1>5 DEF UploadInv, OwnOK

\* The process is killed: no request is left.
LEMMA CrashUploadInv ==
    ASSUME PartsInv, UploadInv, CrashUpload
    PROVE  UploadInv'
<1>1. /\ \A p \in Workers : pc'[p] = "idle" /\ job'[p] = None
      /\ UNCHANGED <<doc, partData>> /\ chunk' = [q \in Workers |-> None]
      /\ \A x \in Items : kept'[x] \in {kept[x], None}
  BY DEF CrashUpload, Crash, uploadDisk
<1>2. Parts \subseteq Items
  BY DEF Items
<1>3. UploadValuesOK'
  BY <1>1, <1>2 DEF UploadValuesOK, UploadInv
<1>4. AgainOK' /\ JobsOK'
  BY <1>1 DEF AgainOK, Again, JobsOK
<1>. QED
  BY <1>1, <1>3, <1>4 DEF UploadInv

\* The server starts.
LEMMA UploadInitInv ==
    ASSUME UploadInit
    PROVE  UploadInv
<1>1. \A p \in Workers : pc[p] = "idle" /\ job[p] = None /\ chunk[p] = None
  BY DEF UploadInit, InitWith
<1>2. UploadValuesOK
  <2>1. PICK state \in [folders -> Sessions],
             sent \in [folders \X (1..PartCount) -> Uploads \cup {None}] :
             doc = [x \in Items |-> IF x \in folders THEN state[x]
                                    ELSE IF x \in DOMAIN sent THEN sent[x] ELSE None]
    BY DEF UploadInit
  <2>2. /\ folders \subseteq Paths /\ kept = doc /\ partData = [x \in Parts |-> doc[x]]
        /\ chunk = [p \in Workers |-> None] /\ Uploads \subseteq Bodies
    BY ValuesAssumption DEF UploadInit
  <2>3. \A d \in Paths : doc[d] \in Sessions \cup {None}
    <3>1. \A d \in Paths : d \in Items /\ d \notin folders \X (1..PartCount)
      BY <2>2, ItemFacts DEF Items, Parts
    <3>. QED
      BY <2>1, <3>1
  <2>4. \A x \in Parts : doc[x] \in Bodies \cup {None}
    <3>1. \A x \in Parts : x \in Items /\ x \notin folders
      BY <2>2, ItemFacts
    <3>2. \A x \in DOMAIN sent : sent[x] \in Bodies \cup {None}
      BY <2>1, <2>2
    <3>. QED
      BY <2>1, <3>1, <3>2
  <2>. QED
    BY <2>2, <2>3, <2>4 DEF UploadValuesOK
<1>3. AgainOK /\ JobsOK
  BY <1>1 DEF AgainOK, Again, JobsOK
<1>. QED
  BY <1>1, <1>2, <1>3 DEF UploadInv

----------------------------------------------------------------------------
(***************************************************************************)
(* The whole server.                                                       *)
(***************************************************************************)
\* A worker makes a call.
LEMMA ServerWorks ==
    ASSUME ServerInv, NEW p \in Workers, UploadStep(p) \/ PlainStep(p)
    PROVE  ServerInv'
<1> USE DEF ServerInv
<1>1. PartsInv'
  BY UploadStepKeeps, PlainKeeps
<1>2. IInv'
  BY UploadStepIInv, StepKeeps DEF PlainStep
<1>3. Frame(p)
  BY UploadStepFrame, PlainFrameIs
<1>4. pc'[p] # "idle" /\ \A q \in Workers \ {p} : Stands(q)
  <2>1. req'[p] = req[p] /\ IsRequest(req[p]) /\ ~IsRequest(None)
    BY <1>3, RequestsAssumption DEF Frame, Active, IInv, TypeInv, TypesOK, ServersOK
  <2>2. pc'[p] = "idle" => req'[p] = None
    BY <1>2 DEF IInv, TypeInv, TypesOK, ServersOK
  <2>. QED
    BY <1>3, <2>1, <2>2, FrameStands
<1>5. AnswersInv'
  <2>1. CASE UploadStep(p)
    BY <1>2, <2>1, UploadStepAnswers DEF IInv
  <2>2. CASE PlainStep(p)
    BY <1>2, <2>2, AnswersKept DEF PlainStep, Next
  <2>. QED
    BY <2>1, <2>2
<1>6. UploadValuesOK'
  <2>1. CASE UploadStep(p)
    BY <2>1, UploadStepValues DEF IInv, UploadInv
  <2>2. CASE PlainStep(p)
    <3>1. UNCHANGED <<doc, partData, kept>> /\ DropsChunk(p)
      BY <2>2 DEF PlainStep, uploadDisk, uploadHistory, DropsChunk, UploadInv, UploadValuesOK
    <3>. QED
      BY <3>1, NothingWritten DEF UploadInv
  <2>. QED
    BY <2>1, <2>2
<1>7. AgainOK'
  BY <1>1, <1>2, AgainUploadStep, AgainPlainStep
<1>8. JobsOK'
  BY <1>3, <1>4, JobStays DEF Frame, UploadInv
<1>9. ASSUME NEW q \in Workers, pc'[q] # "idle" PROVE InHandOK(q)' /\ UploadAt(q)'
  <2>1. CASE q = p
    BY <1>1, <1>4, <1>8, <2>1, WorkOwn DEF OwnOK
  <2>2. CASE q # p
    <3>1. pc[q] # "idle" /\ InHandOK(q) /\ UploadAt(q) /\ Stands(q)
      BY <1>4, <1>9, <2>2 DEF Stands, UploadInv
    <3>. QED
      BY <3>1, StandsKeeps
  <2>. QED
    BY <2>1, <2>2
<1>. QED
  BY <1>1, <1>2, <1>5, <1>6, <1>7, <1>8, <1>9 DEF UploadInv

\* A request begins.
LEMMA ServerBegins ==
    ASSUME ServerInv, NEW p \in Workers, NEW r, NEW j, Sendable(r, j), BeginUpload(p, r, j)
    PROVE  ServerInv'
<1> USE DEF ServerInv
<1>1. IsRequest(r) /\ Begin(p, r)
  BY SentIs DEF BeginUpload
<1>2. PartsInv' /\ IInv'
  BY <1>1, BeginUploadKeeps, BeginKeeps
<1>3. AnswersInv'
  <2> SUFFICES ASSUME NEW q \in Workers, pc'[q] # "idle" PROVE AnswersAt(q)'
    BY DEF AnswersInv
  <2>1. CASE q = p
    BY <1>1, <2>1, BeginAnswers
  <2>2. CASE q # p
    BY <1>1, <2>2, StillBegin, StillKeeps DEF Still, AnswersInv
  <2>. QED
    BY <2>1, <2>2
<1>4. Flux(p)' = {} /\ Again(p)' = {}
  <2>1. pc'[p] = FirstCall[r.op]
    BY <1>1 DEF Begin, Goto, PartsInv, Tables
  <2>2. pc'[p] \notin FluxCalls \cup {"CompleteExists", "CompleteMeta"}
    BY <1>1, <2>1 DEF IsRequest, Ops, UploadOps, JobOps, FirstCall, Readers, Writers, Deleters,
       BucketOps
  <2>. QED
    BY <2>2 DEF Flux, Again
<1>5. OwnOK(p)' /\ (job'[p] # None => pc'[p] # "idle" /\ req'[p].op \in JobOps)
  BY <1>2, BeginOwn
<1>6. UploadInv'
  BY <1>1, <1>4, <1>5, BetweenUploadInv
<1>. QED
  BY <1>2, <1>3, <1>6

\* A request ends.
LEMMA ServerResponds ==
    ASSUME ServerInv, NEW p \in Workers, RespondUpload(p)
    PROVE  ServerInv'
<1> USE DEF ServerInv
<1>1. Respond(p) /\ pc'[p] = "idle" /\ job'[p] = None
  BY DEF RespondUpload, Respond, Goto, PartsInv, Tables
<1>2. PartsInv' /\ IInv' /\ AnswersInv'
  BY <1>1, RespondUploadKeeps, RespondKeeps, AnswersKept DEF Next
<1>3. Flux(p)' = {} /\ Again(p)' = {}
  BY <1>1 DEF Flux, Again
<1>4. UploadInv'
  BY <1>1, <1>3, BetweenUploadInv
<1>. QED
  BY <1>2, <1>4

\* Nothing happens.
LEMMA ServerStutters ==
    ASSUME ServerInv, UNCHANGED uploadVars
    PROVE  ServerInv'
<1> USE DEF ServerInv
<1>1. UNCHANGED vars /\ UNCHANGED <<doc, partData, chunk, job, kept, unsure, calm>>
  BY DEF uploadVars, uploadDisk, uploadHistory
<1>2. PartsInv' /\ IInv' /\ AnswersInv'
  BY <1>1, UploadNextKeeps, NextKeeps, AnswersKept
<1>3. \A q \in Workers : Stands(q)
  BY <1>1 DEF Stands, vars
<1>4. UploadValuesOK'
  BY <1>1 DEF UploadValuesOK, UploadInv
<1>5. AgainOK'
  BY <1>1, AgainBetween DEF vars, UploadInv, IInv
<1>6. JobsOK'
  BY <1>1 DEF vars, JobsOK, UploadInv
<1>7. ASSUME NEW q \in Workers, pc'[q] # "idle" PROVE InHandOK(q)' /\ UploadAt(q)'
  BY <1>1, <1>3, <1>7, StandsKeeps DEF vars, UploadInv
<1>. QED
  BY <1>2, <1>4, <1>5, <1>6, <1>7 DEF UploadInv

\* The process is killed.
LEMMA ServerCrashes ==
    ASSUME ServerInv, CrashUpload
    PROVE  ServerInv'
<1>1. IInv' /\ AnswersInv'
  BY CrashKeeps, AnswersKept DEF CrashUpload, Next, ServerInv
<1>. QED
  BY <1>1, CrashUploadKeeps, CrashUploadInv DEF ServerInv

\* The invariant of the whole server: object, bucket and multipart requests,
\* with crashes and failing writes, on one data directory.
THEOREM ServerInvariant == UploadSpec => []ServerInv
<1>1. UploadInit => ServerInv
  <2> SUFFICES ASSUME UploadInit PROVE ServerInv
    OBVIOUS
  <2>1. IInv
    BY InitKeeps DEF UploadInit
  <2>2. AnswersInv
    BY DEF UploadInit, InitWith, AnswersInv
  <2>. QED
    BY <2>1, <2>2, UploadInitKeeps, UploadInitInv DEF ServerInv
<1>2. ServerInv /\ [UploadNext]_uploadVars => ServerInv'
  <2> SUFFICES ASSUME ServerInv, [UploadNext]_uploadVars PROVE ServerInv'
    OBVIOUS
  <2>1. ASSUME NEW p \in Workers, NEW r \in Requests, BeginUpload(p, r, None)
        PROVE  ServerInv'
    BY <2>1, ServerBegins DEF Sendable
  <2>2. ASSUME NEW p \in Workers, NEW c \in Calls, BeginUpload(p, c.req, c.job)
        PROVE  ServerInv'
    BY <2>2, ServerBegins DEF Sendable
  <2>. QED
    BY <2>1, <2>2, ServerWorks, ServerResponds, ServerCrashes, ServerStutters DEF UploadNext
<1>. QED
  BY <1>1, <1>2, PTL DEF UploadSpec

\* What every undisturbed mutation left is what the disk holds, with multipart
\* requests under way too: no upload, completion or abort touches an object
\* or a bucket but by PutObject's calls.
THEOREM ServerAckedStateHolds == UploadSpec => []AckedStateHolds
<1>1. ServerInv => AckedStateHolds
  BY DEF ServerInv, IInv, DiskInv
<1>. QED
  BY <1>1, ServerInvariant, PTL

\* Every variable holds a value of its kind; a temp file belongs to a running
\* request, and whatever is in an upload directory is in one that exists.
THEOREM UploadTypeOKCorrect == UploadSpec => []UploadTypeOK
<1>1. ASSUME ServerInv PROVE UploadTypeOK
  <2> USE DEF ServerInv
  <2>1. DiskTypeOK /\ HistoryTypeOK
    BY <1>1 DEF IInv, TypeInv, TypesOK
  <2>2. Tables /\ SessionsKept /\ UploadValuesOK
    BY <1>1 DEF PartsInv, UploadInv
  <2>3. \A p \in Workers : /\ ~Active(p) => chunk[p] = None
                           /\ chunk[p] # None => Path(p) \in folders
    BY <1>1 DEF PartsInv, WorkerOK, FilesOK, Active
  <2>4. \A d \in Paths : UploadEntries(d) # {} => d \in folders
    <3> SUFFICES ASSUME NEW d \in Paths, d \notin folders PROVE UploadEntries(d) = {}
      OBVIOUS
    <3>1. \A x \in ItemsOf(d) : doc[x] = None
      BY <1>1 DEF PartsInv, InFolders
    <3>2. \A y \in {d} \X (1..PartCount) : partData[y] = None
      BY <1>1 DEF PartsInv, InFolders, ItemsOf, Parts
    <3>. QED
      BY <2>3, <3>1, <3>2 DEF UploadEntries
  <2>. QED
    BY <2>1, <2>2, <2>3, <2>4 DEF UploadTypeOK, Tables, SessionsKept, UploadValuesOK
<1>. QED
  BY <1>1, ServerInvariant, PTL

\* UploadPart, UploadPartCopy, Complete, Abort and ListParts answer exactly,
\* when nothing overlaps them: NoSuchUpload and InvalidPart just when they
\* must, and no 500 for want of something an earlier request left.
THEOREM UploadAnswersAreExactCorrect == UploadSpec => []UploadAnswersAreExact
<1>1. ASSUME ServerInv PROVE UploadAnswersAreExact
  <2>1. \A p \in Workers : pc[p] = "done" => UploadAnswered(p)
    BY <1>1 DEF ServerInv, UploadInv, UploadAt
  <2>. QED
    BY <2>1 DEF UploadAnswered, UploadAnswersAreExact
<1>. QED
  BY <1>1, ServerInvariant, PTL

\* The answers to object and bucket requests are as exact with multipart
\* requests beside them.
THEOREM ServerAnswersAreExact ==
    UploadSpec => [](/\ ReadsAreExact /\ PutRepairs /\ DeletesTakeEffect /\ CopiesAreExact
                     /\ ListingsAreComplete /\ BucketAnswersAreExact)
<1>1. ServerInv => IInv /\ AnswersInv
  BY DEF ServerInv
<1>. QED
  BY <1>1, ServerInvariant, ReadsSay, PutsSay, DeletesSay, CopiesSay, ListingsSay, BucketsSay,
     PTL

----------------------------------------------------------------------------
(***************************************************************************)
(* The whole server as a store of versions.                                *)
(***************************************************************************)
\* A call of Multipart acknowledges nothing, and makes no object known; only
\* a completion, about to write the metadata again, makes its own unknown.
LEMMA UploadStepUnsettles ==
    ASSUME TypeInv, PartsInv, UploadInv, NEW p \in Workers, UploadStep(p)
    PROVE  /\ UNCHANGED <<acked, dirty, req>> /\ Active(p)
           /\ \A q \in Workers \ {p} : pc'[q] = pc[q] /\ Flux(q)' = Flux(q)
           /\ Flux(p) = {} /\ Flux(p)' \subseteq Mutates(req[p])
<1>1. ASSUME NEW l, NEW g, Beside(p, l, g), l \notin FluxCalls
      PROVE  /\ UNCHANGED <<acked, dirty, req>> /\ Active(p)
             /\ \A q \in Workers \ {p} : pc'[q] = pc[q] /\ Flux(q)' = Flux(q)
             /\ Flux(p) = {} /\ Flux(p)' = {}
  <2>1. /\ UNCHANGED <<acked, dirty, req, todo>> /\ pc[p] \notin FluxCalls
        /\ pc'[p] = l /\ Active(p)
        /\ \A q \in Workers \ {p} : pc'[q] = pc[q]
    BY <1>1 DEF Beside, history, Active, TypeInv, TypesOK, ServersOK
  <2>2. Flux(p) = {} /\ Flux(p)' = {}
    BY <1>1, <2>1, NoFlux
  <2>. QED
    BY <2>1, <2>2 DEF Flux
<1>2. CASE Aside(p)
  <2>1. PICK l, g : Beside(p, l, g) /\ l \in OwnCalls \cup {"done", "PutExists"}
    BY <1>2 DEF Aside
  <2>2. l \notin FluxCalls
    BY <2>1 DEF OwnCalls, UploadLabels
  <2>. QED
    BY <1>1, <2>1, <2>2
<1>3. CASE CompleteMeta(p) /\ ~Aside(p)
  <2>1. PICK g : /\ Beside(p, "MetaMkdir", g)
                 /\ pc[p] = "CompleteMeta" /\ req[p].op = "Complete"
    BY <1>3, CompleteMetaMoves
  <2>2. /\ UNCHANGED <<acked, dirty, req, todo>> /\ pc[p] \notin FluxCalls
        /\ pc'[p] = "MetaMkdir" /\ Active(p)
        /\ \A q \in Workers \ {p} : pc'[q] = pc[q]
    BY <2>1 DEF Beside, history, Active, TypeInv, TypesOK, ServersOK
  <2>3. Flux(p) = {}
    BY <2>2, NoFlux
  <2>4. Flux(p)' \subseteq Mutates(req[p])
    BY <2>1, <2>2 DEF Flux, Mutates, Dst
  <2>. QED
    BY <2>2, <2>3, <2>4 DEF Flux
<1>4. CASE SweepUploads(p) \/ RmdirUploads(p)
  <2>1. /\ UNCHANGED <<acked, dirty, req, todo>>
        /\ pc[p] \in {"RemoveFiles", "RmdirUploads"} /\ pc'[p] \in {"RemoveFiles", "RmdirUploads"}
        /\ \A q \in Workers \ {p} : pc'[q] = pc[q]
    BY <1>4 DEF SweepUploads, RmdirUploads, Elsewhere, history, Goto, TypeInv, TypesOK, ServersOK
  <2>2. Flux(p) = {} /\ Flux(p)' = {} /\ Active(p)
    BY <2>1, NoFlux DEF Active
  <2>. QED
    BY <2>1, <2>2 DEF Flux
<1>. QED
  BY <1>2, <1>3, <1>4, UploadCallsAside

\* A rename has none of these calls, and keeps what it holds beside them.
LEMMA RenameBesideUpload ==
    ASSUME IInv, IInv', PartsInv, UploadInv, AnswersInv, NEW p \in Workers, Renaming(p),
           NEW o \in Workers, UploadStep(o)
    PROVE  Kept(p)
<1>1. /\ UNCHANGED <<acked, dirty, req>> /\ Active(o)
      /\ \A q \in Workers \ {o} : pc'[q] = pc[q] /\ Flux(q)' = Flux(q)
      /\ Flux(o) = {} /\ Flux(o)' \subseteq Mutates(req[o])
  BY UploadStepUnsettles DEF IInv
<1>2. Held(p) \in quiet[p] /\ Held(p) \notin Torn
  BY RenameHolds
<1>3. Held(p) \notin Flux(o)'
  <2>1. CASE o # p
    BY <1>1, <1>2, <2>1 DEF IInv, Exclusive
  <2>2. CASE o = p
    <3>1. pc[p] \in PutCalls \cup {"CopyMeta"} \cup DelCalls
      BY RenameHolds
    <3>. QED
      BY <2>2, <3>1, UploadStepData DEF UploadLabels, PutCalls, DelCalls
  <2>. QED
    BY <2>1, <2>2
<1>4. Held(p) \notin Torn'
  BY <1>1, <1>2, <1>3 DEF Torn
<1>. QED
  BY <1>1, <1>4, RenameFramed

\* So it is the work of a claimant, or nothing, to the store.
LEMMA StoreUploadWork ==
    ASSUME IInv, IInv', PartsInv, UploadInv, NEW p \in Workers, UploadStep(p)
    PROVE  Store!Work(p)
<1> DEFINE claims == [q \in Workers |-> IF Active(q) THEN Mutates(req[q]) ELSE {}]
<1>1. /\ UNCHANGED <<acked, dirty, req>> /\ Active(p)
      /\ \A q \in Workers \ {p} : pc'[q] = pc[q] /\ Flux(q)' = Flux(q)
      /\ Flux(p) = {} /\ Flux(p)' \subseteq Mutates(req[p])
  BY UploadStepUnsettles DEF IInv
<1>2. \A x \in Resources : OnDisk(x)' \in Values \cup {Empty}
  BY OnDiskIsNext DEF Values, IInv, TypeInv, TypesOK, HistoryTypeOK
<1>3. ASSUME NEW x \in Resources
      PROVE  OnDisk(x)' = OnDisk(x) \/ (x \in claims[p] /\ OnDisk(x)' = Empty)
  <2>1. CASE x \in Flux(p)'
    <3>1. x \in Torn' /\ x \in claims[p]
      BY <1>1, <2>1 DEF Torn
    <3>. QED
      BY <3>1, OnDiskIsNext
  <2>2. CASE x \notin Flux(p)'
    <3>1. x \in Torn' <=> x \in Torn
      BY <1>1, <2>2 DEF Torn
    <3>. QED
      BY <1>1, <3>1, OnDiskIs, OnDiskIsNext
  <2>. QED
    BY <2>1, <2>2
<1>4. claims' \in {claims, [claims EXCEPT ![p] = {}]}
  <2>1. \A q \in Workers \ {p} : claims'[q] = claims[q]
    BY <1>1 DEF Active, Mutates
  <2>2. claims'[p] \in {claims[p], {}}
    BY <1>1 DEF Mutates
  <2>. QED
    BY <2>1, <2>2
<1> HIDE DEF claims
<1>. QED
  BY <1>2, <1>3, <1>4 DEF claims, Values, Store!Work, Store!Forget

\* Durability and isolation with uploads: the calls of all requests, those of
\* multipart uploads included, behave like a store of whole versions.
THEOREM ServerImplementsVersionStore == UploadSpec => IsVersionStore
<1>1. ASSUME ServerInv, ServerInv', [UploadNext]_uploadVars
      PROVE  [Store!Next]_<<[x \in Resources |-> OnDisk(x)],
                [p \in Workers |-> IF Active(p) THEN Mutates(req[p]) ELSE {}]>>
  <2> DEFINE Same == UNCHANGED <<[x \in Resources |-> OnDisk(x)],
                         [p \in Workers |-> IF Active(p) THEN Mutates(req[p]) ELSE {}]>>
  <2>0. IInv /\ IInv' /\ PartsInv /\ UploadInv
    BY <1>1 DEF ServerInv
  <2>1. ASSUME NEW p \in Workers, UploadStep(p) \/ PlainStep(p)
        PROVE  Store!Next
    BY <2>0, <2>1, StoreUploadWork, StoreWork DEF PlainStep, Store!Next
  <2>2. ASSUME NEW p \in Workers, NEW r, NEW j, Sendable(r, j), BeginUpload(p, r, j)
        PROVE  Store!Next
    <3>1. IsRequest(r) /\ Begin(p, r)
      BY <2>2, SentIs DEF BeginUpload
    <3>. QED
      BY <2>0, <3>1, StoreClaim DEF Store!Next
  <2>3. CASE CrashUpload
    BY <2>0, <2>3, StoreRestart DEF CrashUpload, Store!Next
  <2>4. CASE UNCHANGED uploadVars
    <3>1. UNCHANGED vars
      BY <2>4 DEF uploadVars
    <3>2. \A x \in Resources : OnDisk(x)' = OnDisk(x)
      BY <2>0, <3>1, StoreKept DEF vars, Flux
    <3>3. \A p \in Workers : (IF Active(p) THEN Mutates(req[p]) ELSE {})'
                             = IF Active(p) THEN Mutates(req[p]) ELSE {}
      BY <3>1 DEF vars, Active, Mutates
    <3>. QED
      BY <3>2, <3>3
  <2>5. ASSUME NEW p \in Workers, RespondUpload(p)
        PROVE  Same
    BY <2>0, <2>5, StoreRespond DEF RespondUpload
  <2>6. ASSUME NEW p \in Workers, NEW r \in Requests, BeginUpload(p, r, None)
        PROVE  Store!Next
    BY <2>2, <2>6 DEF Sendable
  <2>7. ASSUME NEW p \in Workers, NEW c \in Calls, BeginUpload(p, c.req, c.job)
        PROVE  Store!Next
    BY <2>2, <2>7 DEF Sendable
  <2>. QED
    BY <1>1, <2>1, <2>3, <2>4, <2>5, <2>6, <2>7 DEF UploadNext
<1>2. UploadInit => Store!Init
  BY StoreInit DEF UploadInit
<1>. QED
  BY <1>1, <1>2, ServerInvariant, PTL DEF UploadSpec, IsVersionStore, Store!Spec

\* With uploads, too, the data of an object goes only by DeleteObject called for
\* it, or into a DeleteBucket that it overlaps: no completion, abort or sweep of
\* an upload takes any along.
THEOREM ServerOnlyDeletesRemoveData == UploadSpec => OnlyDeletesRemoveData
<1> DEFINE Deleting(a) ==
        \E p \in Workers :
            \/ pc[p] = "DelData" /\ Head(todo[p]) = a
            \/ pc[p] = "RemoveFiles" /\ req[p].bucket = a[1] /\ a \notin quiet[p]
<1>1. ASSUME ServerInv, [UploadNext]_uploadVars
      PROVE  [\A a \in Objects :
                data[a] # None /\ data'[a] = None => Deleting(a)]_vars
  <2>1. ASSUME NEW a \in Objects, data[a] # None, data'[a] = None
        PROVE  Deleting(a)
    <3>1. data' # data
      BY <2>1
    <3>2. ~CrashUpload /\ ~UNCHANGED uploadVars
      BY <3>1 DEF CrashUpload, Crash, uploadVars, vars
    <3>3. \A p \in Workers : ~UploadStep(p) /\ ~RespondUpload(p)
      BY <3>1, UploadStepData DEF RespondUpload, Respond, disk
    <3>4. \A p \in Workers : \A r, j : ~BeginUpload(p, r, j)
      BY <3>1 DEF BeginUpload, Begin, disk
    <3>5. PICK p \in Workers : PlainStep(p)
      BY <1>1, <3>2, <3>3, <3>4 DEF UploadNext
    <3>. QED
      BY <1>1, <2>1, <3>5, StepRemovesData DEF PlainStep, ServerInv
  <2>. QED
    BY <2>1
<1>. QED
  BY <1>1, ServerInvariant, PTL DEF UploadSpec, OnlyDeletesRemoveData

\* With uploads, too, every step leaves the body that a RenameObject has in hand
\* under one of its two names.
THEOREM ServerRenameKeepsACopy == UploadSpec => RenameKeepsACopy
<1>1. ASSUME ServerInv, ServerInv', [UploadNext]_uploadVars
      PROVE  [\A p \in Workers, s, d \in Objects :
                 /\ Active(p) /\ req[p].op = "Rename" /\ req[p].src = s /\ req[p].dst = d
                 /\ got[p].body # None /\ {s, d} \subseteq quiet[p] /\ s \notin dirty
                 => \E x \in {s, d} :
                        OnDisk(x)' \in Versions /\ OnDisk(x)'.body = got[p].body]_vars
  <2>0. IInv /\ IInv' /\ PartsInv /\ UploadInv /\ AnswersInv /\ TypeInv
    BY <1>1 DEF ServerInv, IInv
  <2>1. ASSUME NEW p \in Workers, Renaming(p), UploadNext PROVE Kept(p)
    <3>1. ASSUME NEW o \in Workers, PlainStep(o) PROVE Kept(p)
      BY <2>0, <2>1, <3>1, RenameMoves, RenameUndisturbed DEF PlainStep
    <3>2. ASSUME NEW o \in Workers, UploadStep(o) PROVE Kept(p)
      BY <2>0, <2>1, <3>2, RenameBesideUpload
    <3>3. ASSUME NEW o \in Workers, RespondUpload(o) PROVE Kept(p)
      BY <2>0, <2>1, <3>3, StoreRespond, RenameStays DEF RespondUpload
    <3>4. ASSUME NEW o \in Workers, NEW r, NEW j, Sendable(r, j), BeginUpload(o, r, j)
          PROVE  Kept(p)
      <4>1. IsRequest(r) /\ Begin(o, r)
        BY <3>4, SentIs DEF BeginUpload
      <4>. QED
        BY <2>0, <2>1, <4>1, StoreClaim, RenameStays DEF Store!Claim
    <3>5. CASE CrashUpload
      BY <2>0, <2>1, <3>5, StoreRestart, RenameStays DEF CrashUpload, Store!Restart
    <3>6. ASSUME NEW o \in Workers, NEW r \in Requests, BeginUpload(o, r, None)
          PROVE  Kept(p)
      BY <3>4, <3>6 DEF Sendable
    <3>7. ASSUME NEW o \in Workers, NEW c \in Calls, BeginUpload(o, c.req, c.job)
          PROVE  Kept(p)
      BY <3>4, <3>7 DEF Sendable
    <3>. QED
      BY <2>1, <3>1, <3>2, <3>3, <3>5, <3>6, <3>7 DEF UploadNext
  <2>2. UNCHANGED uploadVars => UNCHANGED vars
    BY DEF uploadVars
  <2>. QED
    BY <1>1, <2>1, <2>2 DEF Renaming, Kept, Src, Dst
<1>. QED
  BY <1>1, ServerInvariant, PTL DEF UploadSpec, RenameKeepsACopy

\* With uploads, too, no part of a body is ever visible, and a request that is
\* over has removed its temp file.
THEOREM ServerNoPartialBody == UploadSpec => []NoPartialBody
<1>1. ServerInv => NoPartialBody
  BY DEF ServerInv, IInv, TypeInv, BodiesOK, NoPartialBody, Active
<1>. QED
  BY <1>1, ServerInvariant, PTL

=============================================================================
