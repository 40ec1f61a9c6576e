---------------------------- MODULE BackendTypes ----------------------------
(***************************************************************************)
(* Every step of Backend keeps its variables well typed, its workers at    *)
(* calls of their requests and its bodies whole: Spec => []TypeInv.  Half  *)
(* of the file-system calls only look at the disk: a lemma per call shows  *)
(* that it is a Looks step, and LooksTypes says what those preserve.  Then *)
(* come the calls that write, the moves of the server and the theorem.     *)
(***************************************************************************)
EXTENDS BackendInvariant, SequenceTheorems, TLAPS

\* The calls at which a request is in the middle of a resource.
FluxCalls == {"MetaMkdir", "MetaOpen", "MetaWrite", "DelMeta", "CreateWrite",
              "RegistryUnlink"}

\* p goes on to call l with g in hand; it and only it moves.
Moves(p, l, g) ==
    /\ pc' = [pc EXCEPT ![p] = l]
    /\ got' = [got EXCEPT ![p] = g]
    /\ req' = req
    /\ DOMAIN scan' = DOMAIN scan
    /\ temp' \in [Workers -> Bodies \cup {None, Garbled}]
    /\ todo' \in [Workers -> Seq(Objects)]
    /\ unlinked' \in [Workers -> BOOLEAN]
    /\ \A q \in Workers \ {p} :
          /\ scan'[q] \subseteq scan[q]
          /\ todo'[q] = todo[q]
          /\ temp'[q] \in {temp[q], None}

\* What the request must then have ready at l.
Ready(p, l, g) ==
    /\ pc[p] \notin {"idle", "done"} /\ l \in AllLabels \ {"idle"}
    /\ IsAnswer(g)
    /\ ControlAt(req[p].op, l)
    /\ InHand(l, g)
    /\ ScanOK(req[p].op, scan'[p])
    /\ l = "PutRename" => temp'[p] \in {None, g.body}
    /\ l \notin {"PutCopy", "PutRename"} => temp'[p] = None
    /\ todo'[p] \in Seq(Range(req[p].dels))
    /\ l # "done" /\ req[p].op \in {"Rename", "Delete"} => todo'[p] # <<>>
    /\ l \in DelCalls => todo'[p] # <<>>

\* A worker that is not idle serves a request.
LEMMA RequestOf ==
    ASSUME TypeInv, NEW p \in Workers, pc[p] # "idle"
    PROVE  IsRequest(req[p])
BY DEF TypeInv, TypesOK, ServersOK

\* The answers a handler builds from what it reads.
LEMMA AnswerTypes ==
    ASSUME NEW g, IsAnswer(g)
    PROVE  /\ \A c \in Codes : IsAnswer([g EXCEPT !.code = c])
           /\ \A b \in Bodies \cup {None} :
                 /\ IsAnswer([g EXCEPT !.body = b])
                 /\ [g EXCEPT !.body = b].body = b
                 /\ [g EXCEPT !.body = b].attrs = g.attrs
                 /\ \A c \in Codes : IsAnswer([g EXCEPT !.body = b, !.code = c])
                 /\ \A t \in Uploads \cup {None} :
                       /\ IsAnswer([g EXCEPT !.body = b, !.attrs = t])
                       /\ [g EXCEPT !.body = b, !.attrs = t].body = b
           /\ \A e \in ETags \cup {None} :
                 /\ IsAnswer([g EXCEPT !.etag = e])
                 /\ \A c \in Codes :
                       IsAnswer([[g EXCEPT !.etag = e] EXCEPT !.code = c])
                 /\ \A t \in Uploads \cup {None} :
                       /\ IsAnswer([g EXCEPT !.etag = e, !.attrs = t])
                       /\ \A c \in Codes :
                            IsAnswer([g EXCEPT !.etag = e, !.attrs = t, !.code = c])
<1>1. \A c \in Codes : IsAnswer([g EXCEPT !.code = c])
  BY DEF IsAnswer, AnswersWith
<1>2. ASSUME NEW b \in Bodies \cup {None}
      PROVE  /\ IsAnswer([g EXCEPT !.body = b])
             /\ [g EXCEPT !.body = b].body = b
             /\ [g EXCEPT !.body = b].attrs = g.attrs
             /\ \A c \in Codes : IsAnswer([g EXCEPT !.body = b, !.code = c])
  BY DEF IsAnswer, AnswersWith
<1>3. ASSUME NEW b \in Bodies \cup {None}, NEW t \in Uploads \cup {None}
      PROVE  /\ IsAnswer([g EXCEPT !.body = b, !.attrs = t])
             /\ [g EXCEPT !.body = b, !.attrs = t].body = b
  BY DEF IsAnswer, AnswersWith
<1>4. ASSUME NEW e \in ETags \cup {None}
      PROVE  /\ IsAnswer([g EXCEPT !.etag = e])
             /\ \A c \in Codes : IsAnswer([[g EXCEPT !.etag = e] EXCEPT !.code = c])
  BY DEF IsAnswer, AnswersWith
<1>5. ASSUME NEW e \in ETags \cup {None}, NEW t \in Uploads \cup {None}
      PROVE  /\ IsAnswer([g EXCEPT !.etag = e, !.attrs = t])
             /\ \A c \in Codes : IsAnswer([g EXCEPT !.etag = e, !.attrs = t, !.code = c])
  BY DEF IsAnswer, AnswersWith
<1>. QED
  BY <1>1, <1>2, <1>3, <1>4, <1>5

\* A worker moves on: what it must have ready at its next call is enough.
LEMMA MovesTypes ==
    ASSUME TypeInv, NEW p \in Workers, NEW l, NEW g, Moves(p, l, g),
           Ready(p, l, g), DiskTypeOK', HistoryTypeOK', \A a \in Objects : data'[a] # Garbled
    PROVE  TypeInv'
<1> USE DEF Moves, Ready, TypeInv, TypesOK
<1>5. \A q \in Workers : scan'[q] \subseteq scan[q] \/ q = p
  OBVIOUS
<1>6. \A q \in Workers :
         IF pc'[q] = "idle" THEN scan'[q] = {} ELSE ScanOK(req'[q].op, scan'[q])
  BY <1>5 DEF ScanOK, ServersOK
<1>1. ServersOK'
  BY <1>6 DEF ServersOK
<1>2. ControlOK'
  BY DEF ControlOK, ServersOK
<1>3. TodoOK'
  BY DEF TodoOK, Active, ServersOK
<1>4. BodiesOK'
  BY DEF BodiesOK, ServersOK
<1>. QED
  BY <1>1, <1>2, <1>3, <1>4

----------------------------------------------------------------------------
(***************************************************************************)
(* Calls that only look.                                                   *)
(***************************************************************************)
\* p looks, is in the middle of nothing before and after, and if it goes on
\* to remove a bucket, has found the bucket empty.
Calm(p, l, g) ==
    /\ pc' = [pc EXCEPT ![p] = l]
    /\ got' = [got EXCEPT ![p] = g]
    /\ Look
    /\ DOMAIN scan' = DOMAIN scan
    /\ \A q \in Workers \ {p} : scan'[q] = scan[q]
    /\ Ready(p, l, g)
    /\ pc[p] \notin FluxCalls /\ l \notin FluxCalls
    /\ l \notin {"CreateRegistry", "CreateOpen"}
    /\ l \in RemoveCalls => \/ pc[p] \in RemoveCalls
                            \/ \A a \in ObjectsOf(req[p].bucket) : data[a] = None

Looks(p) == \E l, g : Calm(p, l, g)

\* Where a call that looks is made.
LookCalls == GetCalls \cup HeadCalls \cup ListCalls \cup
    {"PutExists", "CopyMeta", "ManyExists", "DelExists", "CreateStat",
     "DeleteStat", "DeleteScan", "RemoveList", "HeadBucketStat", "LocationRead",
     "BucketsScan", "BucketsRead"}

\* A call that only looks at the disk keeps every value in its type.
LEMMA LooksTypes ==
    ASSUME TypeInv, NEW p \in Workers, Looks(p)
    PROVE  TypeInv'
<1>1. PICK l, g : Calm(p, l, g)
  BY DEF Looks
<1> USE DEF Calm, Look, disk, history, TypeInv, TypesOK
<1>2. Moves(p, l, g)
  BY <1>1 DEF Moves, ServersOK
<1>3. DiskTypeOK' /\ HistoryTypeOK' /\ \A a \in Objects : data'[a] # Garbled
  BY <1>1 DEF DiskTypeOK, HistoryTypeOK, BodiesOK
<1>. QED
  BY <1>1, <1>2, <1>3, MovesTypes

\* Ending a request needs nothing in hand but an answer.
LEMMA FinishLooks ==
    ASSUME TypeInv, NEW p \in Workers, NEW g, IsAnswer(g), Finish(p, g), Look,
           scan' = scan, pc[p] \in LookCalls
    PROVE  Looks(p)
<1>1. ControlAt(req[p].op, "done")
  BY DEF ControlAt, GetCalls, PutCalls, HeadCalls, DelCalls, ListCalls,
         CreateCalls, DeleteCalls, RemoveCalls, UploadLabels
<1>2. pc[p] \notin FluxCalls \cup {"idle", "done", "PutCopy", "PutRename"}
  BY DEF LookCalls, FluxCalls, GetCalls, HeadCalls, ListCalls
<1>3. Ready(p, "done", g)
  BY <1>1, <1>2 DEF Ready, TypeInv, TypesOK, ServersOK, TodoOK, BodiesOK,
     InHand, PutCalls, DelCalls, AllLabels, Labels, UploadLabels, Look
<1>4. Calm(p, "done", g)
  BY <1>2, <1>3 DEF Calm, Finish, Goto, FluxCalls, RemoveCalls
<1>. QED
  BY <1>4 DEF Looks

\* The error answers (errorResponse).
LEMMA FailLooks ==
    ASSUME TypeInv, NEW p \in Workers, NEW c \in Codes, Fail(p, c), Look,
           scan' = scan, pc[p] \in LookCalls
    PROVE  Looks(p)
<1>1. IsAnswer([Nothing EXCEPT !.code = c])
  BY DEF Nothing, IsAnswer, AnswersWith, Codes
<1>. QED
  BY <1>1, FinishLooks DEF Fail

\* The answers 200 and 204.
LEMMA SucceedLooks ==
    ASSUME TypeInv, NEW p \in Workers, Succeed(p), Look,
           scan' = scan, pc[p] \in LookCalls
    PROVE  Looks(p)
<1>1. IsAnswer(got[p])
  BY DEF TypeInv, TypesOK, ServersOK
<1>2. IsAnswer([got[p] EXCEPT !.code = "OK"])
  BY <1>1, AnswerTypes DEF Codes
<1>. QED
  BY <1>2, FinishLooks DEF Succeed

\* Going on to another call that looks, or to the first one that writes.
LEMMA GoesOnLooks ==
    ASSUME TypeInv, NEW p \in Workers, Look, pc[p] \in LookCalls,
           NEW g, IsAnswer(g), got' = [got EXCEPT ![p] = g],
           NEW l \in AllLabels \ ({"idle", "PutCopy", "PutRename", "CreateRegistry",
                               "CreateOpen"} \cup FluxCalls),
           Goto(p, l), ControlAt(req[p].op, l),
           InHand(l, g),
           l \in DelCalls => todo[p] # <<>>,
           DOMAIN scan' = Workers, ScanOK(req[p].op, scan'[p]),
           \A q \in Workers \ {p} : scan'[q] = scan[q],
           l \in RemoveCalls => \/ pc[p] \in RemoveCalls
                               \/ \A a \in ObjectsOf(req[p].bucket) : data[a] = None
    PROVE  Looks(p)
<1>1. pc[p] \notin FluxCalls \cup {"idle", "done", "PutCopy", "PutRename"}
  BY DEF LookCalls, FluxCalls, GetCalls, HeadCalls, ListCalls
<1>2. Ready(p, l, g)
  BY <1>1 DEF Ready, TypeInv, TypesOK, ServersOK, TodoOK, BodiesOK, Active, Look
<1>3. Calm(p, l, g)
  BY <1>1, <1>2 DEF Calm, Goto, TypeInv, TypesOK, ServersOK
<1>. QED
  BY <1>3 DEF Looks

\* ... with something read from a file, ...
LEMMA ReadLooks ==
    ASSUME TypeInv, NEW p \in Workers, Look, pc[p] \in LookCalls, scan' = scan,
           NEW g, IsAnswer(g), got' = [got EXCEPT ![p] = g],
           NEW l \in AllLabels \ ({"idle", "PutCopy", "PutRename", "CreateRegistry",
                               "CreateOpen"} \cup FluxCalls),
           Goto(p, l), ControlAt(req[p].op, l),
           InHand(l, g),
           l \in DelCalls => todo[p] # <<>>,
           l \in RemoveCalls => \A a \in ObjectsOf(req[p].bucket) : data[a] = None
    PROVE  Looks(p)
<1>1. /\ DOMAIN scan' = Workers
      /\ ScanOK(req[p].op, scan'[p])
      /\ \A q \in Workers \ {p} : scan'[q] = scan[q]
  BY DEF TypeInv, TypesOK, ServersOK, LookCalls, GetCalls, HeadCalls, ListCalls
<1>. QED
  BY <1>1, GoesOnLooks

\* ... and with nothing new in hand.
LEMMA GotoLooks ==
    ASSUME TypeInv, NEW p \in Workers, Look, pc[p] \in LookCalls,
           UNCHANGED <<got, scan>>,
           NEW l \in AllLabels \ ({"idle", "PutCopy", "PutRename", "CreateRegistry",
                               "CreateOpen"} \cup FluxCalls),
           Goto(p, l), ControlAt(req[p].op, l),
           InHand(l, got[p]),
           l \in DelCalls => todo[p] # <<>>,
           l \in RemoveCalls => \A a \in ObjectsOf(req[p].bucket) : data[a] = None
    PROVE  Looks(p)
<1>1. got' = [got EXCEPT ![p] = got[p]] /\ IsAnswer(got[p])
  BY DEF TypeInv, TypesOK, ServersOK
<1>. QED
  BY <1>1, ReadLooks

USE DEF GetCalls, PutCalls, HeadCalls, DelCalls, ListCalls, CreateCalls,
        RemoveCalls, DeleteCalls, LookCalls, FluxCalls, InHand

\* GetObject looks for the bucket.
LEMMA GetExistsLooks ==
    ASSUME TypeInv, NEW p \in Workers, GetExists(p)
    PROVE  Looks(p)
BY FailLooks, GotoLooks
   DEF GetExists, TypeInv, ControlOK, ControlAt, AllLabels, Labels, UploadLabels, Codes

\* GetObject goes on only with a document, whose headers it has in hand.
LEMMA GetMetaLooks ==
    ASSUME TypeInv, NEW p \in Workers, GetMeta(p)
    PROVE  Looks(p)
<1> DEFINE doc == meta[Src(p)]
<1>1. CASE ReadDocument(p, Src(p))
  BY <1>1, FailLooks DEF GetMeta, ReadDocument, Missing, Codes
<1>2. CASE /\ doc \in Documents
           /\ Goto(p, "GetOpen")
           /\ got' = [got EXCEPT ![p] = [@ EXCEPT !.etag = doc.etag,
                                                       !.attrs = doc.attrs]]
  <2> DEFINE g == [got[p] EXCEPT !.etag = doc.etag, !.attrs = doc.attrs]
  <2>1. IsAnswer(g) /\ g.attrs \in Uploads
    <3>1. doc.etag \in ETags /\ doc.attrs \in Uploads /\ IsAnswer(got[p])
      BY <1>2 DEF Documents, TypeInv, TypesOK, ServersOK
    <3>2. IsAnswer(g)
      <4>1. \A e \in ETags \cup {None}, t \in Uploads \cup {None} :
               IsAnswer([got[p] EXCEPT !.etag = e, !.attrs = t])
        BY <3>1, AnswerTypes
      <4>. QED
        BY <3>1, <4>1
    <3>3. g.attrs = doc.attrs
      BY <3>1 DEF IsAnswer, AnswersWith
    <3>. QED
      BY <3>1, <3>2, <3>3
  <2>2. got' = [got EXCEPT ![p] = g]
    BY <1>2
  <2>3. ControlAt(req[p].op, "GetOpen")
    BY DEF GetMeta, TypeInv, ControlOK, ControlAt, GetCalls, PutCalls, HeadCalls,
           DelCalls, ListCalls, CreateCalls, DeleteCalls, RemoveCalls, UploadLabels
  <2> HIDE DEF g
  <2>4. "GetOpen" \in AllLabels \ ({"idle", "PutCopy", "PutRename", "CreateRegistry", "CreateOpen"} \cup FluxCalls)
    BY DEF AllLabels, Labels, FluxCalls
  <2>. QED
    BY <1>2, <2>1, <2>2, <2>3, <2>4, ReadLooks DEF GetMeta
<1>. QED
  BY <1>1, <1>2 DEF GetMeta

\* GetObject answers, or hands a whole body to PutObject.
LEMMA GetOpenLooks ==
    ASSUME TypeInv, NEW p \in Workers, GetOpen(p)
    PROVE  Looks(p)
<1> DEFINE body == data[Src(p)]
<1>1. CASE body = None
  BY <1>1, FailLooks DEF GetOpen, Missing, Codes
<1>2. CASE body # None
  <2>1. Src(p) \in Objects
    <3>1. req[p].op \in {"Get", "Copy", "Rename", "UploadPartCopy"} /\ pc[p] # "idle"
      BY DEF GetOpen, TypeInv, ControlOK, ControlAt, GetCalls
    <3>. QED
      BY <3>1, RequestOf DEF IsRequest, Src, Readers, Writers, JobOps
  <2>2. body \in Bodies /\ IsAnswer(got[p])
    BY <1>2, <2>1 DEF TypeInv, TypesOK, DiskTypeOK, ServersOK, BodiesOK
  <2> HIDE DEF body
  <2>3. CASE req[p].op = "Get"
    <3>1. IsAnswer([got[p] EXCEPT !.body = body, !.code = "OK"])
      BY <2>2, AnswerTypes DEF Codes
    <3>. QED
      BY <1>2, <2>3, <3>1, FinishLooks DEF GetOpen, body
  <2>4. CASE req[p].op # "Get"
    <3> DEFINE g == [got[p] EXCEPT !.body = body]
    <3>1. IsAnswer(g) /\ g.body \in Bodies /\ g.attrs \in Uploads
      <4>1. got[p].attrs \in Uploads
        BY DEF GetOpen, TypeInv, BodiesOK
      <4>. QED
        BY <2>2, <4>1, AnswerTypes
    <3> DEFINE l == IF req[p].op = "UploadPartCopy" THEN "PartNumber" ELSE "PutExists"
    <3>2. /\ pc[p] = "GetOpen" /\ Look /\ scan' = scan
          /\ Goto(p, l) /\ got' = [got EXCEPT ![p] = g]
      BY <1>2, <2>4 DEF GetOpen, body
    <3>3. req[p].op \in {"Copy", "Rename", "UploadPartCopy"}
      BY <2>4 DEF GetOpen, TypeInv, ControlOK, ControlAt, GetCalls
    <3>4. ControlAt(req[p].op, l)
      BY <3>3 DEF ControlAt, Writers, UploadOps, JobOps, GetCalls, PutCalls, HeadCalls,
           DelCalls, ListCalls, CreateCalls, DeleteCalls, RemoveCalls, UploadLabels
    <3>5. l \in AllLabels /\ l \in {"PartNumber", "PutExists"}
      BY DEF AllLabels, Labels, UploadLabels
    <3>6. pc[p] \in LookCalls
      BY <3>2 DEF LookCalls, GetCalls
    <3>7. l \notin DelCalls \cup RemoveCalls \cup FluxCalls
      BY <3>5 DEF DelCalls, RemoveCalls, FluxCalls
    <3> HIDE DEF g, l
    <3>8. InHand(l, g)
      BY <3>1 DEF InHand
    <3>. QED
      BY <3>1, <3>2, <3>4, <3>5, <3>6, <3>7, <3>8, ReadLooks
  <2>. QED
    BY <2>3, <2>4
<1>. QED
  BY <1>1, <1>2

\* PutObject looks for the bucket, the body in hand.
LEMMA PutExistsLooks ==
    ASSUME TypeInv, NEW p \in Workers, PutExists(p)
    PROVE  Looks(p)
BY FailLooks, SucceedLooks, GotoLooks
   DEF PutExists, TypeInv, ControlOK, ControlAt, AllLabels, Labels, UploadLabels, Codes, BodiesOK

\* CopyObject ends, or RenameObject goes on with the key still to delete.
LEMMA CopyMetaLooks ==
    ASSUME TypeInv, NEW p \in Workers, CopyMeta(p)
    PROVE  Looks(p)
<1> DEFINE doc == meta[Dst(p)]
           answer == [got[p] EXCEPT !.etag = doc.etag]
<1>1. CASE doc \in Documents
  <2>1. IsAnswer(got[p]) /\ doc.etag \in ETags
    BY <1>1 DEF TypeInv, TypesOK, ServersOK, Documents
  <2>2. IsAnswer(answer) /\ IsAnswer([answer EXCEPT !.code = "OK"])
    BY <2>1, AnswerTypes DEF Codes
  <2>3. CASE req[p].op = "Copy"
    <3>1. Finish(p, [answer EXCEPT !.code = "OK"])
      BY <1>1, <2>3 DEF CopyMeta, ReadDocument
    <3> HIDE DEF answer
    <3>. QED
      BY <2>2, <3>1, FinishLooks DEF CopyMeta
  <2>4. CASE req[p].op # "Copy"
    <3>1. /\ Goto(p, "DelExists")
          /\ got' = [got EXCEPT ![p] = answer]
          /\ req[p].op = "Rename"
      BY <1>1, <2>4 DEF CopyMeta, ReadDocument
    <3>2. ControlAt(req[p].op, "DelExists") /\ todo[p] # <<>>
      BY <3>1 DEF CopyMeta, TypeInv, ControlAt, TodoOK, Active, Deleters, GetCalls, PutCalls,
           HeadCalls, DelCalls, ListCalls, CreateCalls, DeleteCalls, RemoveCalls, UploadLabels
    <3> HIDE DEF answer
    <3>3. "DelExists" \in AllLabels \ ({"idle", "PutCopy", "PutRename", "CreateRegistry", "CreateOpen"} \cup FluxCalls)
      BY DEF AllLabels, Labels, FluxCalls
    <3>. QED
      BY <2>2, <3>1, <3>2, <3>3, ReadLooks DEF CopyMeta
  <2>. QED
    BY <2>3, <2>4
<1>2. CASE doc \notin Documents
  BY <1>2, FailLooks DEF CopyMeta, ReadDocument, Missing, Codes
<1>. QED
  BY <1>1, <1>2

\* HeadObject looks for the bucket, after a PUT as well.
LEMMA HeadExistsLooks ==
    ASSUME TypeInv, NEW p \in Workers, HeadExists(p)
    PROVE  Looks(p)
BY FailLooks, SucceedLooks, GotoLooks
   DEF HeadExists, TypeInv, ControlOK, ControlAt, AllLabels, Labels, UploadLabels, Codes

\* HeadObject reads the document, after a PUT as well.
LEMMA HeadMetaLooks ==
    ASSUME TypeInv, NEW p \in Workers, HeadMeta(p)
    PROVE  Looks(p)
<1> DEFINE doc == meta[Dst(p)]
<1>1. CASE doc \in Documents
  <2> DEFINE g == [got[p] EXCEPT !.etag = doc.etag, !.attrs = doc.attrs,
                                 !.code = "OK"]
  <2>1. IsAnswer(got[p]) /\ doc.etag \in ETags /\ doc.attrs \in Uploads
    BY <1>1 DEF TypeInv, TypesOK, ServersOK, Documents
  <2>2. IsAnswer(g)
    BY <2>1, AnswerTypes DEF Codes
  <2>3. Finish(p, g)
    BY <1>1 DEF HeadMeta, ReadDocument
  <2> HIDE DEF g
  <2>. QED
    BY <2>2, <2>3, FinishLooks DEF HeadMeta
<1>2. CASE doc \notin Documents
  BY <1>2, FailLooks, SucceedLooks DEF HeadMeta, ReadDocument, Missing, Codes
<1>. QED
  BY <1>1, <1>2

\* handleDeleteObjects starts only with a key to delete.
LEMMA ManyExistsLooks ==
    ASSUME TypeInv, NEW p \in Workers, ManyExists(p)
    PROVE  Looks(p)
BY FailLooks, SucceedLooks, GotoLooks
   DEF ManyExists, TypeInv, ControlOK, ControlAt, AllLabels, Labels, UploadLabels, Codes, Deleters

\* DeleteObject looks for the bucket of the key it is about to delete.
LEMMA DelExistsLooks ==
    ASSUME TypeInv, NEW p \in Workers, DelExists(p)
    PROVE  Looks(p)
BY FailLooks, SucceedLooks, GotoLooks
   DEF DelExists, TypeInv, ControlOK, ControlAt, AllLabels, Labels, UploadLabels, Codes, TodoOK

\* ListObjects looks for the bucket.
LEMMA ListExistsLooks ==
    ASSUME TypeInv, NEW p \in Workers, ListExists(p)
    PROVE  Looks(p)
BY FailLooks, SucceedLooks, GotoLooks
   DEF ListExists, TypeInv, ControlOK, ControlAt, AllLabels, Labels, UploadLabels, Codes

\* The entries of .metadata are objects of the bucket.
LEMMA ListScanLooks ==
    ASSUME TypeInv, NEW p \in Workers, ListScan(p)
    PROVE  Looks(p)
<1>1. got' = [got EXCEPT ![p] = got[p]] /\ IsAnswer(got[p])
  BY DEF ListScan, TypeInv, TypesOK, ServersOK
<1>2. req[p].op = "ListObjects" /\ req[p].bucket \in Buckets
  BY RequestOf DEF ListScan, TypeInv, ControlOK, ControlAt, IsRequest, BucketOps
<1>3. /\ DOMAIN scan' = Workers
      /\ ScanOK(req[p].op, scan'[p])
      /\ \A q \in Workers \ {p} : scan'[q] = scan[q]
  BY <1>2 DEF ListScan, ScanOK, Entries, ObjectsOf, Objects, TypeInv, TypesOK, ServersOK
<1>4. ControlAt(req[p].op, "ListRead")
  BY <1>2 DEF ControlAt, GetCalls, PutCalls, HeadCalls, DelCalls, ListCalls,
         CreateCalls, DeleteCalls, RemoveCalls, UploadLabels
<1>5. "ListRead" \in AllLabels \ ({"idle", "PutCopy", "PutRename", "CreateRegistry", "CreateOpen"} \cup FluxCalls)
  BY DEF AllLabels, Labels, FluxCalls
<1>. QED
  BY <1>1, <1>2, <1>3, <1>4, <1>5, GoesOnLooks DEF ListScan

\* Reading one entry of a listing.
LEMMA EntryLooks ==
    ASSUME TypeInv, NEW p \in Workers, Look, pc' = pc, pc[p] \in {"ListRead", "BucketsRead"},
           NEW x, NEW shown \in BOOLEAN,
           scan' = [scan EXCEPT ![p] = @ \ {x}],
           got' = [got EXCEPT ![p].listed = IF shown THEN @ \cup {x} ELSE @]
    PROVE  Looks(p)
<1> DEFINE g == [got[p] EXCEPT !.listed = IF shown THEN @ \cup {x} ELSE @]
<1>1. IsAnswer(g) /\ got' = [got EXCEPT ![p] = g]
  <2>1. IsAnswer(got[p]) /\ DOMAIN got = Workers
    BY DEF TypeInv, TypesOK, ServersOK
  <2>2. IsAnswer(g)
    BY <2>1 DEF IsAnswer, AnswersWith
  <2>. QED
    BY <2>1, <2>2
<1>2. /\ DOMAIN scan' = Workers
      /\ ScanOK(req[p].op, scan'[p])
      /\ \A q \in Workers \ {p} : scan'[q] = scan[q]
  BY DEF TypeInv, TypesOK, ServersOK, ScanOK
<1>3. Goto(p, pc[p]) /\ ControlAt(req[p].op, pc[p])
  BY DEF Goto, TypeInv, TypesOK, ServersOK, ControlOK
<1> HIDE DEF g
<1>. QED
  BY <1>1, <1>2, <1>3, GoesOnLooks DEF AllLabels, Labels, UploadLabels

\* ListObjects reads one entry, or ends.
LEMMA ListReadLooks ==
    ASSUME TypeInv, NEW p \in Workers, ListRead(p)
    PROVE  Looks(p)
<1>1. CASE scan[p] = {} /\ Succeed(p) /\ UNCHANGED scan
  BY <1>1, SucceedLooks DEF ListRead
<1>2. CASE ~(scan[p] = {} /\ Succeed(p) /\ UNCHANGED scan)
  <2>1. PICK a \in scan[p] :
           /\ scan' = [scan EXCEPT ![p] = @ \ {a}]
           /\ got' = [got EXCEPT ![p].listed =
                         IF meta[a] \in Documents THEN @ \cup {a} ELSE @]
           /\ UNCHANGED pc
    BY <1>2 DEF ListRead
  <2>. QED
    BY <2>1, EntryLooks DEF ListRead
<1>. QED
  BY <1>1, <1>2

\* CreateBucket looks for .bucket.json.
LEMMA CreateStatLooks ==
    ASSUME TypeInv, NEW p \in Workers, CreateStat(p)
    PROVE  Looks(p)
BY FailLooks, SucceedLooks, GotoLooks
   DEF CreateStat, TypeInv, ControlOK, ControlAt, AllLabels, Labels, UploadLabels, Codes

\* DeleteBucket looks for the directory.
LEMMA DeleteStatLooks ==
    ASSUME TypeInv, NEW p \in Workers, DeleteStat(p)
    PROVE  Looks(p)
BY FailLooks, SucceedLooks, GotoLooks
   DEF DeleteStat, TypeInv, ControlOK, ControlAt, AllLabels, Labels, UploadLabels, Codes

\* DeleteBucket goes on only when .objects has no entry.
LEMMA DeleteScanLooks ==
    ASSUME TypeInv, NEW p \in Workers, DeleteScan(p)
    PROVE  Looks(p)
<1>1. ~ObjectsEntries(Bucket(p)) =>
          \A a \in ObjectsOf(req[p].bucket) : data[a] = None
  BY DEF ObjectsEntries, Bucket
<1>. QED
  BY <1>1, FailLooks, GotoLooks
     DEF DeleteScan, TypeInv, ControlOK, ControlAt, AllLabels, Labels, UploadLabels, Codes

\* RemoveAll reads the names of the subdirectories.
LEMMA RemoveListLooks ==
    ASSUME TypeInv, NEW p \in Workers, RemoveList(p)
    PROVE  Looks(p)
<1>1. got' = [got EXCEPT ![p] = got[p]] /\ IsAnswer(got[p])
  BY DEF RemoveList, TypeInv, TypesOK, ServersOK
<1>2. req[p].op = "DeleteBucket"
  BY DEF RemoveList, TypeInv, ControlOK, ControlAt
<1>3. /\ DOMAIN scan' = Workers
      /\ ScanOK(req[p].op, scan'[p])
      /\ \A q \in Workers \ {p} : scan'[q] = scan[q]
  BY <1>2 DEF RemoveList, ScanOK, Entries, TypeInv, TypesOK, ServersOK
<1>4. ControlAt(req[p].op, "RemoveFiles")
  BY <1>2 DEF ControlAt, GetCalls, PutCalls, HeadCalls, DelCalls, ListCalls,
         CreateCalls, DeleteCalls, RemoveCalls, UploadLabels
<1>5. "RemoveFiles" \in AllLabels \ ({"idle", "PutCopy", "PutRename", "CreateRegistry", "CreateOpen"} \cup FluxCalls)
  BY DEF AllLabels, Labels, FluxCalls
<1>. QED
  BY <1>1, <1>2, <1>3, <1>4, <1>5, GoesOnLooks DEF RemoveList

\* HeadBucket looks for .bucket.json.
LEMMA HeadBucketStatLooks ==
    ASSUME TypeInv, NEW p \in Workers, HeadBucketStat(p)
    PROVE  Looks(p)
BY FailLooks, SucceedLooks, GotoLooks
   DEF HeadBucketStat, TypeInv, ControlOK, ControlAt, AllLabels, Labels, UploadLabels, Codes

\* GetBucketLocation reads .bucket.json.
LEMMA LocationReadLooks ==
    ASSUME TypeInv, NEW p \in Workers, LocationRead(p)
    PROVE  Looks(p)
BY FailLooks, SucceedLooks, GotoLooks
   DEF LocationRead, TypeInv, ControlOK, ControlAt, AllLabels, Labels, UploadLabels, Codes, TypesOK, DiskTypeOK

\* The entries of the data directory are buckets.
LEMMA BucketsScanLooks ==
    ASSUME TypeInv, NEW p \in Workers, BucketsScan(p)
    PROVE  Looks(p)
<1>1. got' = [got EXCEPT ![p] = got[p]] /\ IsAnswer(got[p])
  BY DEF BucketsScan, TypeInv, TypesOK, ServersOK
<1>2. req[p].op = "ListBuckets"
  BY DEF BucketsScan, TypeInv, ControlOK, ControlAt
<1>3. /\ DOMAIN scan' = Workers
      /\ ScanOK(req[p].op, scan'[p])
      /\ \A q \in Workers \ {p} : scan'[q] = scan[q]
  BY <1>2 DEF BucketsScan, ScanOK, Entries, TypeInv, TypesOK, ServersOK
<1>4. ControlAt(req[p].op, "BucketsRead")
  BY <1>2 DEF ControlAt, GetCalls, PutCalls, HeadCalls, DelCalls, ListCalls,
         CreateCalls, DeleteCalls, RemoveCalls, UploadLabels
<1>5. "BucketsRead" \in AllLabels \ ({"idle", "PutCopy", "PutRename", "CreateRegistry", "CreateOpen"} \cup FluxCalls)
  BY DEF AllLabels, Labels, FluxCalls
<1>. QED
  BY <1>1, <1>2, <1>3, <1>4, <1>5, GoesOnLooks DEF BucketsScan

\* ListBuckets reads one entry, or ends.
LEMMA BucketsReadLooks ==
    ASSUME TypeInv, NEW p \in Workers, BucketsRead(p)
    PROVE  Looks(p)
<1>1. CASE scan[p] = {} /\ Succeed(p) /\ UNCHANGED scan
  BY <1>1, SucceedLooks DEF BucketsRead
<1>2. CASE ~(scan[p] = {} /\ Succeed(p) /\ UNCHANGED scan)
  <2>1. PICK b \in scan[p] :
           /\ scan' = [scan EXCEPT ![p] = @ \ {b}]
           /\ got' = [got EXCEPT ![p].listed =
                         IF bucketFile[b] = Registered THEN @ \cup {b} ELSE @]
           /\ UNCHANGED pc
    BY <1>2 DEF BucketsRead
  <2>. QED
    BY <2>1, EntryLooks DEF BucketsRead
<1>. QED
  BY <1>1, <1>2

----------------------------------------------------------------------------
(***************************************************************************)
(* Calls that write.                                                       *)
(***************************************************************************)
\* A call that writes moves its worker on, with the same list of keys.
LEMMA WriteTypes ==
    ASSUME TypeInv, NEW p \in Workers, pc[p] \notin {"idle", "done"},
           NEW l \in AllLabels \ {"idle"}, Goto(p, l), ControlAt(req[p].op, l),
           NEW g, IsAnswer(g), got' = [got EXCEPT ![p] = g],
           InHand(l, g),
           UNCHANGED <<req, todo>>, l \in DelCalls => todo[p] # <<>>,
           DOMAIN scan' = Workers, scan'[p] \subseteq scan[p],
           \A q \in Workers \ {p} : scan'[q] = scan[q],
           temp' \in [Workers -> Bodies \cup {None, Garbled}],
           \A q \in Workers \ {p} : temp'[q] \in {temp[q], None},
           l = "PutRename" => temp'[p] \in {None, g.body},
           l \notin {"PutCopy", "PutRename"} => temp'[p] = None,
           unlinked' \in [Workers -> BOOLEAN],
           DiskTypeOK', HistoryTypeOK', \A a \in Objects : data'[a] # Garbled
    PROVE  TypeInv'
<1>1. Moves(p, l, g)
  BY DEF Moves, Goto, TypeInv, TypesOK, ServersOK
<1>2. Ready(p, l, g)
  BY RequestOf DEF Ready, TypeInv, TypesOK, ServersOK, ScanOK, TodoOK, Active
<1>. QED
  BY <1>1, <1>2, MovesTypes

\* The same with nothing changed in the worker's hands.
LEMMA GoesOnTypes ==
    ASSUME TypeInv, NEW p \in Workers, pc[p] \notin {"idle", "done"},
           NEW l \in AllLabels \ {"idle", "PutCopy", "PutRename"},
           Goto(p, l), ControlAt(req[p].op, l),
           InHand(l, got[p]),
           l \in DelCalls => todo[p] # <<>>,
           UNCHANGED <<req, got, todo>>,
           DOMAIN scan' = Workers, scan'[p] \subseteq scan[p],
           \A q \in Workers \ {p} : scan'[q] = scan[q],
           temp' \in [Workers -> Bodies \cup {None, Garbled}],
           \A q \in Workers \ {p} : temp'[q] \in {temp[q], None},
           temp'[p] = None, unlinked' \in [Workers -> BOOLEAN],
           DiskTypeOK', HistoryTypeOK', \A a \in Objects : data'[a] # Garbled
    PROVE  TypeInv'
<1>1. got' = [got EXCEPT ![p] = got[p]] /\ IsAnswer(got[p])
  BY DEF TypeInv, TypesOK, ServersOK
<1>. QED
  BY <1>1, WriteTypes

\* A call that ends the request.
LEMMA FailTypes ==
    ASSUME TypeInv, NEW p \in Workers, pc[p] \notin {"idle", "done"},
           NEW c \in Codes, Fail(p, c) \/ Succeed(p),
           UNCHANGED <<req, todo, scan>>,
           temp' \in [Workers -> Bodies \cup {None, Garbled}],
           \A q \in Workers \ {p} : temp'[q] \in {temp[q], None},
           temp'[p] = None, unlinked' \in [Workers -> BOOLEAN],
           DiskTypeOK', HistoryTypeOK', \A a \in Objects : data'[a] # Garbled
    PROVE  TypeInv'
<1>1. IsAnswer(Nothing) /\ IsAnswer(got[p])
  BY DEF Nothing, IsAnswer, AnswersWith, Codes, TypeInv, TypesOK, ServersOK
<1>2. /\ IsAnswer([Nothing EXCEPT !.code = c])
      /\ IsAnswer([got[p] EXCEPT !.code = "OK"])
  BY <1>1, AnswerTypes DEF Codes
<1>3. PICK g : IsAnswer(g) /\ Goto(p, "done") /\ got' = [got EXCEPT ![p] = g]
  BY <1>2 DEF Fail, Succeed, Finish
<1>4. DOMAIN scan' = Workers /\ scan'[p] = scan[p] /\ scan' = scan
  BY DEF TypeInv, TypesOK, ServersOK
<1>5. ControlAt(req[p].op, "done")
  BY DEF ControlAt, UploadLabels
<1>6. "done" \in AllLabels \ {"idle"}
  BY DEF AllLabels, Labels, UploadLabels
<1>7. InHand("done", g) /\ "done" \notin DelCalls
  OBVIOUS
<1> HIDE DEF DelCalls, InHand
<1>. QED
  BY <1>3, <1>4, <1>5, <1>6, <1>7, WriteTypes

\* What a step does to the history.
LEMMA HistoryTypes ==
    ASSUME TypeInv, NEW p \in Workers, NEW S \in SUBSET Resources,
           NEW v \in Versions \cup {None, Registered},
           \/ Disturb(p, S) \/ Commit(p, S, v) \/ Spoil(S) \/ UNCHANGED history
    PROVE  HistoryTypeOK'
BY DEF TypeInv, TypesOK, HistoryTypeOK, Disturb, Commit, Spoil, history

\* The objects and the bucket of a request are ones.
LEMMA TargetTypes ==
    ASSUME TypeInv, NEW p \in Workers
    PROVE  /\ pc[p] \in PutCalls => /\ req[p].dst \in Objects
                                    /\ req[p].dst[1] \in Buckets
           /\ pc[p] \in CreateCalls \cup DeleteCalls => req[p].bucket \in Buckets
           /\ pc[p] \in DelCalls => Head(todo[p]) \in Objects
<1>1. pc[p] \in PutCalls => req[p].dst \in Objects
  BY RequestOf DEF IsRequest, TypeInv, ControlOK, ControlAt, JobOps
<1>2. pc[p] \in CreateCalls \cup DeleteCalls => req[p].bucket \in Buckets
  BY RequestOf DEF IsRequest, TypeInv, ControlOK, ControlAt, BucketOps
<1>3. pc[p] \in DelCalls => Head(todo[p]) \in Objects
  BY DEF TypeInv, TypesOK, ServersOK, TodoOK
<1>. QED
  BY <1>1, <1>2, <1>3 DEF Objects

----------------------------------------------------------------------------
\* PutObject makes .objects.
LEMMA PutMkdirTypes ==
    ASSUME TypeInv, NEW p \in Workers, PutMkdir(p)
    PROVE  TypeInv'
<1>1. DiskTypeOK'
  BY TargetTypes DEF PutMkdir, TypeInv, TypesOK, DiskTypeOK, DirNames, SubDirs, Dst
<1>2. HistoryTypeOK' /\ \A a \in Objects : data'[a] # Garbled
  BY DEF PutMkdir, TypeInv, TypesOK, HistoryTypeOK, history, BodiesOK
<1>3. /\ ControlAt(req[p].op, "PutTemp")
      /\ got[p].body \in Bodies /\ got[p].attrs \in Uploads
      /\ temp' = temp /\ temp \in [Workers -> Bodies \cup {None, Garbled}]
      /\ temp[p] = None
      /\ unlinked' \in [Workers -> BOOLEAN] /\ DOMAIN scan = Workers
  BY DEF PutMkdir, TypeInv, TypesOK, ServersOK, ControlOK, ControlAt, UploadLabels, BodiesOK
<1>. QED
  BY <1>1, <1>2, <1>3, GoesOnTypes DEF PutMkdir, AllLabels, Labels, UploadLabels

\* PutObject makes its temp file, or fails without one.
LEMMA PutTempTypes ==
    ASSUME TypeInv, NEW p \in Workers, PutTemp(p)
    PROVE  TypeInv'
<1>1. DiskTypeOK' /\ HistoryTypeOK' /\ \A a \in Objects : data'[a] # Garbled
  BY DEF PutTemp, TypeInv, TypesOK, HistoryTypeOK, DiskTypeOK, history, disk, BodiesOK
<1>2. /\ ControlAt(req[p].op, "PutCopy")
      /\ got[p].body \in Bodies /\ got[p].attrs \in Uploads
      /\ IsAnswer(got[p])
      /\ got = [got EXCEPT ![p] = got[p]]
      /\ temp \in [Workers -> Bodies \cup {None, Garbled}]
      /\ temp[p] = None
      /\ unlinked' \in [Workers -> BOOLEAN] /\ DOMAIN scan = Workers
  BY DEF PutTemp, TypeInv, TypesOK, ServersOK, ControlOK, ControlAt, UploadLabels, BodiesOK
<1>3. CASE Goto(p, "PutCopy") /\ temp' = [temp EXCEPT ![p] = Garbled] /\ UNCHANGED got
  BY <1>1, <1>2, <1>3, WriteTypes DEF PutTemp, AllLabels, Labels, UploadLabels
<1>4. CASE Fail(p, "InternalError") /\ UNCHANGED temp
  BY <1>1, <1>2, <1>4, FailTypes DEF PutTemp, Codes
<1>. QED
  BY <1>3, <1>4 DEF PutTemp

\* After io.Copy the temp file holds the body, or is gone.
LEMMA PutCopyTypes ==
    ASSUME TypeInv, NEW p \in Workers, PutCopy(p)
    PROVE  TypeInv'
<1>1. DiskTypeOK' /\ HistoryTypeOK' /\ \A a \in Objects : data'[a] # Garbled
  BY DEF PutCopy, TypeInv, TypesOK, HistoryTypeOK, DiskTypeOK, history, disk, BodiesOK
<1>2. /\ ControlAt(req[p].op, "PutRename")
      /\ got[p].body \in Bodies /\ got[p].attrs \in Uploads
      /\ IsAnswer(got[p])
      /\ got = [got EXCEPT ![p] = got[p]]
      /\ temp \in [Workers -> Bodies \cup {None, Garbled}]
      /\ unlinked' \in [Workers -> BOOLEAN] /\ DOMAIN scan = Workers
  BY DEF PutCopy, TypeInv, TypesOK, ServersOK, ControlOK, ControlAt, UploadLabels, BodiesOK
<1>3. CASE /\ Goto(p, "PutRename") /\ UNCHANGED got
           /\ temp' = [temp EXCEPT ![p] = IF @ = None THEN None ELSE got[p].body]
  BY <1>1, <1>2, <1>3, WriteTypes DEF PutCopy, AllLabels, Labels, UploadLabels
<1>4. CASE Fail(p, "InternalError") /\ temp' = [temp EXCEPT ![p] = None]
  BY <1>1, <1>2, <1>4, FailTypes DEF PutCopy, Codes
<1>. QED
  BY <1>3, <1>4 DEF PutCopy

\* Only a whole body is renamed over the data file.
LEMMA PutRenameTypes ==
    ASSUME TypeInv, NEW p \in Workers, PutRename(p)
    PROVE  TypeInv'
<1>0. Dst(p) \in Objects /\ {Dst(p)} \in SUBSET Resources /\ None \in Versions \cup {None, Registered}
  BY TargetTypes DEF PutRename, Dst, Resources
<1>1. HistoryTypeOK'
  BY <1>0, HistoryTypes DEF PutRename
<1>2. /\ ControlAt(req[p].op, "MetaMkdir")
      /\ got[p].body \in Bodies /\ got[p].attrs \in Uploads
      /\ temp[p] \in {None, got[p].body}
      /\ temp \in [Workers -> Bodies \cup {None, Garbled}]
      /\ unlinked' \in [Workers -> BOOLEAN] /\ DOMAIN scan = Workers
  BY DEF PutRename, TypeInv, TypesOK, ServersOK, ControlOK, ControlAt, UploadLabels, BodiesOK
<1>3. DiskTypeOK' /\ \A a \in Objects : data'[a] # Garbled
  BY <1>0, <1>2, ValuesAssumption DEF PutRename, TypeInv, TypesOK, DiskTypeOK, BodiesOK
<1>4. CASE Goto(p, "MetaMkdir") /\ UNCHANGED got /\ temp' = [temp EXCEPT ![p] = None]
  BY <1>1, <1>2, <1>3, <1>4, GoesOnTypes DEF PutRename, AllLabels, Labels, UploadLabels
<1>5. CASE Fail(p, "InternalError") /\ temp' = temp /\ temp[p] = None
  BY <1>1, <1>2, <1>3, <1>5, FailTypes DEF PutRename, Codes
<1>. QED
  BY <1>4, <1>5 DEF PutRename

\* PutMetadata makes .metadata.
LEMMA MetaMkdirTypes ==
    ASSUME TypeInv, NEW p \in Workers, MetaMkdir(p)
    PROVE  TypeInv'
<1>1. DiskTypeOK'
  BY TargetTypes DEF MetaMkdir, TypeInv, TypesOK, DiskTypeOK, DirNames, SubDirs, Dst
<1>2. HistoryTypeOK' /\ \A a \in Objects : data'[a] # Garbled
  BY DEF MetaMkdir, TypeInv, TypesOK, HistoryTypeOK, history, BodiesOK
<1>3. /\ ControlAt(req[p].op, "MetaOpen")
      /\ got[p].body \in Bodies /\ got[p].attrs \in Uploads
      /\ temp' = temp /\ temp \in [Workers -> Bodies \cup {None, Garbled}]
      /\ temp[p] = None
      /\ unlinked' \in [Workers -> BOOLEAN] /\ DOMAIN scan = Workers
  BY DEF MetaMkdir, TypeInv, TypesOK, ServersOK, ControlOK, ControlAt, UploadLabels, BodiesOK
<1>. QED
  BY <1>1, <1>2, <1>3, GoesOnTypes DEF MetaMkdir, AllLabels, Labels, UploadLabels

\* WriteFile truncates the metadata file.
LEMMA MetaOpenTypes ==
    ASSUME TypeInv, NEW p \in Workers, MetaOpen(p)
    PROVE  TypeInv'
<1>1. Dst(p) \in Objects /\ {Dst(p)} \in SUBSET Resources
  BY TargetTypes DEF MetaOpen, Dst, Resources
<1>2. HistoryTypeOK'
  BY <1>1, HistoryTypes DEF MetaOpen
<1>3. DiskTypeOK' /\ \A a \in Objects : data'[a] # Garbled
  BY DEF MetaOpen, TypeInv, TypesOK, DiskTypeOK, BodiesOK
<1>4. /\ ControlAt(req[p].op, "MetaWrite")
      /\ got[p].body \in Bodies /\ got[p].attrs \in Uploads
      /\ temp' = temp /\ temp \in [Workers -> Bodies \cup {None, Garbled}]
      /\ temp[p] = None
      /\ unlinked' \in [Workers -> BOOLEAN] /\ DOMAIN scan = Workers
  BY DEF MetaOpen, TypeInv, TypesOK, ServersOK, ControlOK, ControlAt, UploadLabels, BodiesOK
<1>5. CASE Goto(p, "MetaWrite") /\ UNCHANGED got
  BY <1>2, <1>3, <1>4, <1>5, GoesOnTypes DEF MetaOpen, AllLabels, Labels, UploadLabels
<1>6. CASE Fail(p, "InternalError")
  BY <1>2, <1>3, <1>4, <1>6, FailTypes DEF MetaOpen, Codes
<1>. QED
  BY <1>5, <1>6 DEF MetaOpen

\* The document that PutMetadata writes, and what it makes of the object.
LEMMA DocumentTypes ==
    ASSUME TypeInv, NEW p \in Workers, pc[p] \in PutCalls
    PROVE  /\ NewDocument(p) \in Documents
           /\ Version(got[p].body, NewDocument(p)) \in Versions
<1>1. got[p].body \in Bodies /\ got[p].attrs \in Uploads
  BY DEF TypeInv, BodiesOK, InHand
<1>2. Md5(got[p].body) \in ETags /\ got[p].etag \in ETags \cup {None}
  BY <1>1 DEF Md5, ETags, TypeInv, TypesOK, ServersOK, IsAnswer, AnswersWith
<1>3. NewDocument(p) \in Documents
  BY <1>1, <1>2 DEF NewDocument, Documents
<1>. QED
  BY <1>1, <1>3 DEF Version, Versions, Documents

\* WriteFile writes a document, whole or not.
LEMMA MetaWriteTypes ==
    ASSUME TypeInv, NEW p \in Workers, MetaWrite(p)
    PROVE  TypeInv'
<1>1. Dst(p) \in Objects /\ {Dst(p)} \in SUBSET Resources
  BY TargetTypes DEF MetaWrite, Dst, Resources
<1>2. HistoryTypeOK'
  BY <1>1, DocumentTypes, HistoryTypes DEF MetaWrite
<1>3. DiskTypeOK' /\ \A a \in Objects : data'[a] # Garbled
  <2>1. meta' \in [Objects -> Documents \cup {None, Empty, Garbled}]
    BY <1>1, DocumentTypes DEF MetaWrite, Written, TypeInv, TypesOK, DiskTypeOK
  <2>. QED
    BY <2>1 DEF MetaWrite, TypeInv, TypesOK, DiskTypeOK, BodiesOK
<1>4. /\ ControlAt(req[p].op, AfterPut(p))
      /\ AfterPut(p) \in {"HeadExists", "CopyMeta", "CompleteExists", "RemoveNames"}
      /\ temp' = temp /\ temp \in [Workers -> Bodies \cup {None, Garbled}]
      /\ temp[p] = None
      /\ unlinked' \in [Workers -> BOOLEAN] /\ DOMAIN scan = Workers
  <2>1. pc[p] = "MetaWrite" /\ temp' = temp
    BY DEF MetaWrite
  <2>2. req[p].op \in Writers \cup {"Complete"}
    BY <2>1 DEF TypeInv, ControlOK, ControlAt
  <2>3. \/ req[p].op = "Put" /\ AfterPut(p) = "HeadExists"
        \/ req[p].op \in {"Copy", "Rename"} /\ AfterPut(p) = "CopyMeta"
        \/ req[p].op = "Complete" /\ AfterPut(p) \in {"CompleteExists", "RemoveNames"}
    <3>1. req[p].op \in {"Put", "Copy", "Rename", "Complete"}
      BY <2>2 DEF Writers
    <3>2. req[p].op = "Put" => AfterPut(p) = "HeadExists"
      BY DEF AfterPut
    <3>3. req[p].op \in {"Copy", "Rename"} => AfterPut(p) = "CopyMeta"
      BY DEF AfterPut
    <3>4. req[p].op = "Complete" => AfterPut(p) \in {"CompleteExists", "RemoveNames"}
      BY DEF AfterPut
    <3>. QED
      BY <3>1, <3>2, <3>3, <3>4
  <2>4. ControlAt(req[p].op, AfterPut(p))
    BY <2>3 DEF ControlAt, UploadLabels, UploadOps, JobOps
  <2>5. temp \in [Workers -> Bodies \cup {None, Garbled}] /\ temp[p] = None
    BY <2>1 DEF TypeInv, TypesOK, ServersOK, BodiesOK
  <2>6. unlinked' \in [Workers -> BOOLEAN] /\ DOMAIN scan = Workers
    BY DEF MetaWrite, TypeInv, TypesOK, ServersOK
  <2>. QED
    BY <2>1, <2>3, <2>4, <2>5, <2>6
<1>5. CASE Goto(p, AfterPut(p)) /\ UNCHANGED got
  BY <1>2, <1>3, <1>4, <1>5, GoesOnTypes DEF MetaWrite, AllLabels, Labels, UploadLabels
<1>6. CASE Fail(p, "InternalError")
  BY <1>2, <1>3, <1>4, <1>6, FailTypes DEF MetaWrite, Codes
<1>. QED
  BY <1>5, <1>6 DEF MetaWrite

----------------------------------------------------------------------------
\* DeleteObject is done with the first of the keys that are left.
LEMMA NextDeleteTypes ==
    ASSUME TypeInv, NEW p \in Workers, pc[p] \in DelCalls, NextDelete(p),
           UNCHANGED <<req, temp, scan>>, unlinked' \in [Workers -> BOOLEAN],
           DiskTypeOK', HistoryTypeOK', \A a \in Objects : data'[a] # Garbled
    PROVE  TypeInv'
<1>1. todo[p] \in Seq(Objects) /\ todo[p] \in Seq(Range(req[p].dels)) /\ todo[p] # <<>>
  BY DEF TypeInv, TypesOK, ServersOK, TodoOK
<1>2. /\ Tail(todo[p]) \in Seq(Objects)
      /\ Tail(todo[p]) \in Seq(Range(req[p].dels))
  <2>1. \A S : todo[p] \in Seq(S) => Tail(todo[p]) \in Seq(S)
    BY <1>1
  <2>. QED
    BY <1>1, <2>1
<1>3. /\ todo' \in [Workers -> Seq(Objects)]
      /\ todo'[p] = Tail(todo[p])
      /\ \A q \in Workers \ {p} : todo'[q] = todo[q]
  BY <1>2 DEF NextDelete, TypeInv, TypesOK, ServersOK
<1>4. /\ IsAnswer(got[p]) /\ IsAnswer([got[p] EXCEPT !.code = "OK"])
      /\ got = [got EXCEPT ![p] = got[p]]
  BY AnswerTypes DEF Codes, TypeInv, TypesOK, ServersOK
<1>5. PICK l, g :
         /\ l \in {"DelExists", "done"} /\ IsAnswer(g)
         /\ pc' = [pc EXCEPT ![p] = l] /\ got' = [got EXCEPT ![p] = g]
         /\ l = "DelExists" => Tail(todo[p]) # <<>>
  <2> DEFINE Goes(l, g) ==
               /\ l \in {"DelExists", "done"} /\ IsAnswer(g)
               /\ pc' = [pc EXCEPT ![p] = l] /\ got' = [got EXCEPT ![p] = g]
               /\ l = "DelExists" => Tail(todo[p]) # <<>>
  <2> SUFFICES \E l, g : Goes(l, g)
    OBVIOUS
  <2>1. CASE Tail(todo[p]) # <<>> /\ Goto(p, "DelExists") /\ UNCHANGED got
    <3>1. pc' = [pc EXCEPT ![p] = "DelExists"] /\ got' = [got EXCEPT ![p] = got[p]]
      BY <1>4, <2>1 DEF Goto
    <3>2. Goes("DelExists", got[p])
      BY <1>4, <2>1, <3>1
    <3>. QED
      BY <3>2
  <2>2. CASE Succeed(p)
    <3>1. pc' = [pc EXCEPT ![p] = "done"]
          /\ got' = [got EXCEPT ![p] = [got[p] EXCEPT !.code = "OK"]]
      BY <2>2 DEF Succeed, Finish, Goto
    <3>2. PICK g : g = [got[p] EXCEPT !.code = "OK"]
      OBVIOUS
    <3>3. IsAnswer(g) /\ got' = [got EXCEPT ![p] = g]
      BY <1>4, <3>1, <3>2
    <3>4. Goes("done", g)
      BY <3>1, <3>3
    <3>. QED
      BY <3>4
  <2>. QED
    BY <2>1, <2>2 DEF NextDelete
<1>6. Moves(p, l, g)
  BY <1>3, <1>5 DEF Moves, TypeInv, TypesOK, ServersOK
<1>7. ControlAt(req[p].op, l)
  <2>1. req[p].op \in Deleters \cup {"Rename"}
    BY DEF TypeInv, ControlOK, ControlAt
  <2>2. l \in DelCalls \cup {"done"}
    BY <1>5
  <2>. QED
    BY <2>1, <2>2 DEF ControlAt, UploadLabels
<1>8. Ready(p, l, g)
  BY <1>2, <1>3, <1>5, <1>7
     DEF Ready, TypeInv, TypesOK, ServersOK, BodiesOK, AllLabels, Labels, UploadLabels
<1>. QED
  BY <1>6, <1>8, MovesTypes

\* DeleteObject removes the data file, or goes on to the next key.
LEMMA DelDataTypes ==
    ASSUME TypeInv, NEW p \in Workers, DelData(p)
    PROVE  TypeInv'
<1>1. Head(todo[p]) \in Objects /\ {Head(todo[p])} \in SUBSET Resources
  BY TargetTypes DEF DelData, Resources
<1>2. HistoryTypeOK'
  BY <1>1, HistoryTypes DEF DelData
<1>3. DiskTypeOK' /\ \A a \in Objects : data'[a] # Garbled
  BY <1>1, ValuesAssumption DEF DelData, TypeInv, TypesOK, DiskTypeOK, BodiesOK
<1>4. CASE NextDelete(p)
  BY <1>2, <1>3, <1>4, NextDeleteTypes DEF DelData, TypeInv, TypesOK, ServersOK
<1>5. CASE Goto(p, "DelMeta") /\ UNCHANGED <<got, todo>>
  <2>1. /\ ControlAt(req[p].op, "DelMeta") /\ todo[p] # <<>>
        /\ temp' = temp /\ temp \in [Workers -> Bodies \cup {None, Garbled}]
        /\ temp[p] = None
        /\ unlinked' \in [Workers -> BOOLEAN] /\ DOMAIN scan = Workers
    BY DEF DelData, TypeInv, TypesOK, ServersOK, ControlOK, ControlAt, UploadLabels, BodiesOK,
           TodoOK
  <2>. QED
    BY <1>2, <1>3, <1>5, <2>1, GoesOnTypes DEF DelData, AllLabels, Labels, UploadLabels
<1>6. CASE Fail(p, "InternalError") /\ UNCHANGED todo
  <2>1. /\ temp' = temp /\ temp \in [Workers -> Bodies \cup {None, Garbled}]
        /\ temp[p] = None /\ unlinked' \in [Workers -> BOOLEAN]
    BY DEF DelData, TypeInv, TypesOK, ServersOK, BodiesOK
  <2>. QED
    BY <1>2, <1>3, <1>6, <2>1, FailTypes DEF DelData, Codes
<1>. QED
  BY <1>4, <1>5, <1>6 DEF DelData

\* DeleteObject removes the metadata file.
LEMMA DelMetaTypes ==
    ASSUME TypeInv, NEW p \in Workers, DelMeta(p)
    PROVE  TypeInv'
<1>1. Head(todo[p]) \in Objects /\ {Head(todo[p])} \in SUBSET Resources
  BY TargetTypes DEF DelMeta, Resources
<1>2. HistoryTypeOK'
  BY <1>1, HistoryTypes DEF DelMeta
<1>3. DiskTypeOK' /\ \A a \in Objects : data'[a] # Garbled
  BY <1>1 DEF DelMeta, TypeInv, TypesOK, DiskTypeOK, BodiesOK
<1>4. unlinked' \in [Workers -> BOOLEAN]
  BY DEF DelMeta, LoseFiles, TypeInv, TypesOK, ServersOK
<1>5. CASE NextDelete(p)
  BY <1>2, <1>3, <1>4, <1>5, NextDeleteTypes DEF DelMeta
<1>6. CASE Fail(p, "InternalError") /\ UNCHANGED todo
  <2>1. /\ temp' = temp /\ temp \in [Workers -> Bodies \cup {None, Garbled}]
        /\ temp[p] = None
    BY DEF DelMeta, TypeInv, TypesOK, ServersOK, BodiesOK
  <2>. QED
    BY <1>2, <1>3, <1>4, <1>6, <2>1, FailTypes DEF DelMeta, Codes
<1>. QED
  BY <1>5, <1>6 DEF DelMeta

----------------------------------------------------------------------------
\* CreateBucket makes the bucket's directory.
LEMMA CreateDirTypes ==
    ASSUME TypeInv, NEW p \in Workers, CreateDir(p)
    PROVE  TypeInv'
<1>1. DiskTypeOK'
  BY TargetTypes DEF CreateDir, MakeDirectory, Bucket, TypeInv, TypesOK, DiskTypeOK,
     DirNames
<1>2. HistoryTypeOK' /\ \A a \in Objects : data'[a] # Garbled
  BY DEF CreateDir, MakeDirectory, TypeInv, TypesOK, HistoryTypeOK, history, BodiesOK
<1>3. /\ ControlAt(req[p].op, "CreateRegistry")
      /\ temp' = temp /\ temp \in [Workers -> Bodies \cup {None, Garbled}]
      /\ temp[p] = None
      /\ unlinked' \in [Workers -> BOOLEAN] /\ DOMAIN scan = Workers
  BY DEF CreateDir, MakeDirectory, TypeInv, TypesOK, ServersOK, ControlOK,
         ControlAt, UploadLabels, BodiesOK
<1>. QED
  BY <1>1, <1>2, <1>3, GoesOnTypes DEF CreateDir, MakeDirectory, AllLabels, Labels, UploadLabels

\* CreateBucket makes the registry directory.
LEMMA CreateRegistryTypes ==
    ASSUME TypeInv, NEW p \in Workers, CreateRegistry(p)
    PROVE  TypeInv'
<1>1. DiskTypeOK'
  BY TargetTypes DEF CreateRegistry, MakeDirectory, Bucket, TypeInv, TypesOK, DiskTypeOK,
     DirNames
<1>2. HistoryTypeOK' /\ \A a \in Objects : data'[a] # Garbled
  BY DEF CreateRegistry, MakeDirectory, TypeInv, TypesOK, HistoryTypeOK, history, BodiesOK
<1>3. /\ ControlAt(req[p].op, "CreateOpen")
      /\ temp' = temp /\ temp \in [Workers -> Bodies \cup {None, Garbled}]
      /\ temp[p] = None
      /\ unlinked' \in [Workers -> BOOLEAN] /\ DOMAIN scan = Workers
  BY DEF CreateRegistry, MakeDirectory, TypeInv, TypesOK, ServersOK, ControlOK,
         ControlAt, UploadLabels, BodiesOK
<1>. QED
  BY <1>1, <1>2, <1>3, GoesOnTypes DEF CreateRegistry, MakeDirectory, AllLabels, Labels, UploadLabels

\* WriteFile truncates .bucket.json.
LEMMA CreateOpenTypes ==
    ASSUME TypeInv, NEW p \in Workers, CreateOpen(p)
    PROVE  TypeInv'
<1>1. Bucket(p) \in Buckets /\ {Bucket(p)} \in SUBSET Resources
  BY TargetTypes DEF CreateOpen, Bucket, Resources
<1>2. HistoryTypeOK'
  BY <1>1, HistoryTypes DEF CreateOpen
<1>3. DiskTypeOK' /\ \A a \in Objects : data'[a] # Garbled
  BY DEF CreateOpen, TypeInv, TypesOK, DiskTypeOK, BodiesOK
<1>4. /\ ControlAt(req[p].op, "CreateWrite")
      /\ temp' = temp /\ temp \in [Workers -> Bodies \cup {None, Garbled}]
      /\ temp[p] = None
      /\ unlinked' \in [Workers -> BOOLEAN] /\ DOMAIN scan = Workers
  BY DEF CreateOpen, TypeInv, TypesOK, ServersOK, ControlOK, ControlAt, UploadLabels, BodiesOK
<1>5. CASE Goto(p, "CreateWrite") /\ UNCHANGED got
  BY <1>2, <1>3, <1>4, <1>5, GoesOnTypes DEF CreateOpen, AllLabels, Labels, UploadLabels
<1>6. CASE Fail(p, "InternalError")
  BY <1>2, <1>3, <1>4, <1>6, FailTypes DEF CreateOpen, Codes
<1>. QED
  BY <1>5, <1>6 DEF CreateOpen

\* WriteFile writes .bucket.json, whole or not.
LEMMA CreateWriteTypes ==
    ASSUME TypeInv, NEW p \in Workers, CreateWrite(p)
    PROVE  TypeInv'
<1>1. Bucket(p) \in Buckets /\ {Bucket(p)} \in SUBSET Resources
  BY TargetTypes DEF CreateWrite, Bucket, Resources
<1>2. HistoryTypeOK'
  BY <1>1, HistoryTypes DEF CreateWrite
<1>3. DiskTypeOK' /\ \A a \in Objects : data'[a] # Garbled
  BY DEF CreateWrite, Written, TypeInv, TypesOK, DiskTypeOK, BodiesOK
<1>4. temp' = temp /\ temp \in [Workers -> Bodies \cup {None, Garbled}]
      /\ temp[p] = None
      /\ unlinked' \in [Workers -> BOOLEAN] /\ DOMAIN scan = Workers
  BY DEF CreateWrite, TypeInv, TypesOK, ServersOK, BodiesOK
<1>. QED
  BY <1>2, <1>3, <1>4, FailTypes DEF CreateWrite, Codes

\* DeleteBucket takes data files and temp files of PUTs away; who loses its
\* temp file is still in order.
LEMMA RemoveObjectsTypes ==
    ASSUME TypeInv, NEW p \in Workers, RemoveObjects(p)
    PROVE  TypeInv'
<1>1. Bucket(p) \in Buckets /\ ObjectsOf(Bucket(p)) \in SUBSET Resources
  BY TargetTypes DEF RemoveObjects, Bucket, Resources, Objects, ObjectsOf
<1>2. HistoryTypeOK'
  BY <1>1, HistoryTypes DEF RemoveObjects
<1>3. DiskTypeOK' /\ \A a \in Objects : data'[a] # Garbled
  BY ValuesAssumption DEF RemoveObjects, TypeInv, TypesOK, DiskTypeOK, BodiesOK
<1>4. /\ ControlAt(req[p].op, "RmdirObjects")
      /\ temp[p] = None /\ temp' \in [Workers -> Bodies \cup {None, Garbled}]
      /\ unlinked' \in [Workers -> BOOLEAN] /\ DOMAIN scan = Workers
  BY DEF RemoveObjects, TypeInv, TypesOK, ServersOK, ControlOK, ControlAt, UploadLabels, BodiesOK
<1>5. temp'[p] = None /\ \A q \in Workers : temp'[q] \in {temp[q], None}
  BY <1>4 DEF RemoveObjects
<1>. QED
  BY <1>2, <1>3, <1>4, <1>5, GoesOnTypes DEF RemoveObjects, AllLabels, Labels, UploadLabels

\* DeleteBucket takes the metadata files away.
LEMMA RemoveMetadataTypes ==
    ASSUME TypeInv, NEW p \in Workers, RemoveMetadata(p)
    PROVE  TypeInv'
<1>1. Bucket(p) \in Buckets /\ ObjectsOf(Bucket(p)) \in SUBSET Resources
  BY TargetTypes DEF RemoveMetadata, Bucket, Resources, Objects, ObjectsOf
<1>2. HistoryTypeOK'
  BY <1>1, HistoryTypes DEF RemoveMetadata
<1>3. DiskTypeOK' /\ \A a \in Objects : data'[a] # Garbled
  BY DEF RemoveMetadata, TypeInv, TypesOK, DiskTypeOK, BodiesOK
<1>4. /\ ControlAt(req[p].op, "RmdirMetadata")
      /\ temp' = temp /\ temp \in [Workers -> Bodies \cup {None, Garbled}]
      /\ temp[p] = None
      /\ unlinked' \in [Workers -> BOOLEAN] /\ DOMAIN scan = Workers
  BY DEF RemoveMetadata, LoseFiles, TypeInv, TypesOK, ServersOK, ControlOK,
         ControlAt, UploadLabels, BodiesOK
<1>. QED
  BY <1>2, <1>3, <1>4, GoesOnTypes DEF RemoveMetadata, AllLabels, Labels, UploadLabels

\* The end of RemoveAll for one subdirectory.
LEMMA RemoveSubdirectoryTypes ==
    ASSUME TypeInv, NEW p \in Workers, NEW label \in RemoveCalls, NEW name,
           NEW refilled, RemoveSubdirectory(p, label, name, refilled)
    PROVE  TypeInv'
<1>1. DiskTypeOK'
  BY TargetTypes DEF RemoveSubdirectory, Bucket, TypeInv, TypesOK, DiskTypeOK
<1>2. HistoryTypeOK' /\ \A a \in Objects : data'[a] # Garbled
  BY DEF RemoveSubdirectory, TypeInv, TypesOK, HistoryTypeOK, history, BodiesOK
<1>3. /\ ControlAt(req[p].op, "RemoveFiles")
      /\ temp' = temp /\ temp \in [Workers -> Bodies \cup {None, Garbled}]
      /\ temp[p] = None
      /\ unlinked' \in [Workers -> BOOLEAN] /\ DOMAIN scan = Workers
  BY DEF RemoveSubdirectory, TypeInv, TypesOK, ServersOK, ControlOK,
         ControlAt, UploadLabels, BodiesOK
<1>4. /\ DOMAIN scan' = Workers /\ scan'[p] \subseteq scan[p]
      /\ \A q \in Workers \ {p} : scan'[q] = scan[q]
  BY <1>3 DEF RemoveSubdirectory
<1>. QED
  BY <1>1, <1>2, <1>3, <1>4, GoesOnTypes DEF RemoveSubdirectory, AllLabels, Labels, UploadLabels

\* DeleteBucket removes the directory, or fails.
LEMMA RmdirBucketTypes ==
    ASSUME TypeInv, NEW p \in Workers, RmdirBucket(p)
    PROVE  TypeInv'
<1>1. Bucket(p) \in Buckets /\ {Bucket(p)} \in SUBSET Resources
  BY TargetTypes DEF RmdirBucket, Bucket, Resources
<1>2. HistoryTypeOK'
  BY <1>1, HistoryTypes DEF RmdirBucket
<1>3. DiskTypeOK' /\ \A a \in Objects : data'[a] # Garbled
  BY <1>1 DEF RmdirBucket, TypeInv, TypesOK, DiskTypeOK, BodiesOK
<1>4. /\ ControlAt(req[p].op, "RegistryUnlink")
      /\ temp' = temp /\ temp \in [Workers -> Bodies \cup {None, Garbled}]
      /\ temp[p] = None
      /\ unlinked' \in [Workers -> BOOLEAN] /\ DOMAIN scan = Workers
  BY DEF RmdirBucket, TypeInv, TypesOK, ServersOK, ControlOK, ControlAt, UploadLabels, BodiesOK
<1>5. CASE Goto(p, "RegistryUnlink") /\ UNCHANGED got
  BY <1>2, <1>3, <1>4, <1>5, GoesOnTypes DEF RmdirBucket, AllLabels, Labels, UploadLabels
<1>6. CASE Fail(p, "InternalError")
  BY <1>2, <1>3, <1>4, <1>6, FailTypes DEF RmdirBucket, Codes
<1>. QED
  BY <1>5, <1>6 DEF RmdirBucket

\* DeleteBucket removes .bucket.json.
LEMMA RegistryUnlinkTypes ==
    ASSUME TypeInv, NEW p \in Workers, RegistryUnlink(p)
    PROVE  TypeInv'
<1>1. Bucket(p) \in Buckets /\ {Bucket(p)} \in SUBSET Resources
  BY TargetTypes DEF RegistryUnlink, Bucket, Resources
<1>2. HistoryTypeOK'
  BY <1>1, HistoryTypes DEF RegistryUnlink
<1>3. DiskTypeOK' /\ \A a \in Objects : data'[a] # Garbled
  BY DEF RegistryUnlink, TypeInv, TypesOK, DiskTypeOK, BodiesOK
<1>4. /\ ControlAt(req[p].op, "RegistryRmdir")
      /\ temp' = temp /\ temp \in [Workers -> Bodies \cup {None, Garbled}]
      /\ temp[p] = None
      /\ unlinked' \in [Workers -> BOOLEAN] /\ DOMAIN scan = Workers
  BY DEF RegistryUnlink, TypeInv, TypesOK, ServersOK, ControlOK, ControlAt, UploadLabels, BodiesOK
<1>. QED
  BY <1>2, <1>3, <1>4, GoesOnTypes DEF RegistryUnlink, AllLabels, Labels, UploadLabels

\* DeleteBucket removes the registry directory, or fails.
LEMMA RegistryRmdirTypes ==
    ASSUME TypeInv, NEW p \in Workers, RegistryRmdir(p)
    PROVE  TypeInv'
<1>1. DiskTypeOK'
  BY TargetTypes DEF RegistryRmdir, Bucket, TypeInv, TypesOK, DiskTypeOK
<1>2. HistoryTypeOK' /\ \A a \in Objects : data'[a] # Garbled
  BY DEF RegistryRmdir, TypeInv, TypesOK, HistoryTypeOK, history, BodiesOK
<1>3. temp' = temp /\ temp \in [Workers -> Bodies \cup {None, Garbled}]
      /\ temp[p] = None
      /\ unlinked' \in [Workers -> BOOLEAN] /\ DOMAIN scan = Workers
  BY DEF RegistryRmdir, TypeInv, TypesOK, ServersOK, BodiesOK
<1>. QED
  BY <1>1, <1>2, <1>3, FailTypes DEF RegistryRmdir, Codes

----------------------------------------------------------------------------
\* Any call of a worker.
LEMMA StepTypes ==
    ASSUME TypeInv, NEW p \in Workers, Step(p)
    PROVE  TypeInv'
<1>1. CASE ObjectStep(p)
  <2>1. CASE \/ GetExists(p) \/ GetMeta(p) \/ GetOpen(p) \/ PutExists(p)
             \/ CopyMeta(p) \/ HeadExists(p) \/ HeadMeta(p) \/ ManyExists(p)
             \/ DelExists(p) \/ ListExists(p) \/ ListScan(p) \/ ListRead(p)
    BY <2>1, LooksTypes, GetExistsLooks, GetMetaLooks, GetOpenLooks,
       PutExistsLooks, CopyMetaLooks, HeadExistsLooks, HeadMetaLooks,
       ManyExistsLooks, DelExistsLooks, ListExistsLooks, ListScanLooks,
       ListReadLooks
  <2>2. CASE \/ PutMkdir(p) \/ PutTemp(p) \/ PutCopy(p) \/ PutRename(p)
             \/ MetaMkdir(p) \/ MetaOpen(p) \/ MetaWrite(p)
             \/ DelData(p) \/ DelMeta(p)
    BY <2>2, PutMkdirTypes, PutTempTypes, PutCopyTypes, PutRenameTypes,
       MetaMkdirTypes, MetaOpenTypes, MetaWriteTypes, DelDataTypes, DelMetaTypes
  <2>. QED
    BY <1>1, <2>1, <2>2 DEF ObjectStep
<1>2. CASE BucketStep(p)
  <2>1. CASE \/ CreateStat(p) \/ DeleteStat(p) \/ DeleteScan(p) \/ RemoveList(p)
             \/ HeadBucketStat(p) \/ LocationRead(p) \/ BucketsScan(p)
             \/ BucketsRead(p)
    BY <2>1, LooksTypes, CreateStatLooks, DeleteStatLooks, DeleteScanLooks,
       RemoveListLooks, HeadBucketStatLooks, LocationReadLooks,
       BucketsScanLooks, BucketsReadLooks
  <2>2. CASE RmdirObjects(p) \/ RmdirMetadata(p)
    BY <2>2, RemoveSubdirectoryTypes DEF RmdirObjects, RmdirMetadata
  <2>3. CASE \/ CreateDir(p) \/ CreateRegistry(p) \/ CreateOpen(p)
             \/ CreateWrite(p) \/ RemoveObjects(p) \/ RemoveMetadata(p)
             \/ RmdirBucket(p) \/ RegistryUnlink(p) \/ RegistryRmdir(p)
    BY <2>3, CreateDirTypes, CreateRegistryTypes, CreateOpenTypes,
       CreateWriteTypes, RemoveObjectsTypes, RemoveMetadataTypes,
       RmdirBucketTypes, RegistryUnlinkTypes, RegistryRmdirTypes
  <2>. QED
    BY <1>2, <2>1, <2>2, <2>3 DEF BucketStep
<1>. QED
  BY <1>1, <1>2 DEF Step

----------------------------------------------------------------------------
(***************************************************************************)
(* The moves of the server.                                                *)
(***************************************************************************)
\* The first call a request is routed to is one of its own.
LEMMA FirstCallIsOwn ==
    ASSUME NEW r, IsRequest(r)
    PROVE  /\ FirstCall[r.op] \in AllLabels \ {"idle", "done", "GetOpen", "PutCopy",
                                            "PutRename", "DelData", "DelMeta"}
           /\ ControlAt(r.op, FirstCall[r.op])
           /\ FirstCall[r.op] \in PutCalls => r.op = "Put"
           /\ FirstCall[r.op] \in DelCalls => r.op = "Delete"
BY DEF IsRequest, Ops, UploadOps, JobOps, FirstCall, Readers, Writers, Deleters, BucketOps,
       AllLabels, Labels, UploadLabels, ControlAt

\* A request names its keys in order.
LEMMA DelsTypes ==
    ASSUME NEW r, IsRequest(r)
    PROVE  /\ r.dels \in Seq(Objects) /\ r.dels \in Seq(Range(r.dels))
           /\ r.up \in Uploads \cup {None}
           /\ r.op = "Put" => r.up \in Uploads
           /\ r.op \in {"Rename", "Delete"} => r.dels # <<>>
<1>1. r.dels \in Seq(Objects)
  BY DEF IsRequest
<1>2. r.dels \in Seq(Range(r.dels))
  BY <1>1 DEF Range
<1>3. r.op \in {"Rename", "Delete"} => r.dels # <<>>
  <2>1. r.op \in {"Rename", "Delete"} => r.dels = <<r.src>>
    BY DEF IsRequest
  <2>2. \A a : <<a>> # <<>>
    OBVIOUS
  <2>. QED
    BY <2>1, <2>2
<1>4. r.up \in Uploads \cup {None} /\ (r.op = "Put" => r.up \in Uploads)
  BY DEF IsRequest
<1>. QED
  BY <1>1, <1>2, <1>3, <1>4

\* What a request touches are objects and buckets.
LEMMA TouchesTypes ==
    ASSUME NEW r, IsRequest(r)
    PROVE  Touches(r) \subseteq Resources
<1>1. r.op \in Ops \cup UploadOps
  BY DEF IsRequest
<1>2. Range(r.dels) \subseteq Objects
  BY DEF IsRequest, Range
<1>3. r.op \in Writers \cup {"Complete"} => r.dst \in Objects
  BY DEF IsRequest, JobOps
<1>4. r.op \in {"CreateBucket", "DeleteBucket"} =>
          r.bucket \in Buckets /\ ObjectsOf(r.bucket) \subseteq Objects
  BY DEF IsRequest, BucketOps, Objects, ObjectsOf
<1>5. Mutates(r) \subseteq Resources
  BY <1>2, <1>3, <1>4 DEF Mutates, Resources
<1>6. Reads(r) \subseteq Resources
  <2>1. CASE r.op = "ListBuckets"
    BY <2>1 DEF Reads, Resources, Readers, Writers
  <2>2. CASE r.op \in Readers \cup Writers \cup {"Delete", "UploadPartCopy"}
    <3>1. r.src \in Objects /\ r.dst \in Objects
      BY <2>2 DEF IsRequest, JobOps
    <3>2. {r.src, r.dst, r.src[1], r.dst[1]} \subseteq Resources
      BY <3>1 DEF Resources, Objects
    <3>3. Reads(r) = {r.src, r.dst, r.src[1], r.dst[1]}
      BY <2>2 DEF Reads, Readers, Writers
    <3>. QED
      BY <3>2, <3>3
  <2>3. CASE r.op \in BucketOps \cup {"DeleteObjects"} \cup (UploadOps \ {"UploadPartCopy"})
    <3>1. r.bucket \in Buckets
      BY <2>3 DEF IsRequest
    <3>. QED
      BY <2>3, <3>1 DEF Reads, Resources, Objects, ObjectsOf, Readers, Writers, BucketOps,
         UploadOps, JobOps
  <2>. QED
    BY <1>1, <2>1, <2>2, <2>3 DEF Ops, Deleters
<1>. QED
  BY <1>5, <1>6 DEF Touches

\* A handler starts at its first call with what the request brings.
LEMMA BeginTypes ==
    ASSUME TypeInv, NEW p \in Workers, NEW r, IsRequest(r), Begin(p, r)
    PROVE  TypeInv'
<1> DEFINE l == FirstCall[r.op]
           g == [Nothing EXCEPT !.body = r.up, !.attrs = r.up]
<1>1. /\ IsAnswer(g)
      /\ g.body = r.up /\ g.attrs = r.up
  BY DelsTypes, ValuesAssumption DEF Nothing, IsAnswer, AnswersWith, Codes
<1>2. /\ pc' = [pc EXCEPT ![p] = l]
      /\ req' = [req EXCEPT ![p] = r]
      /\ got' = [got EXCEPT ![p] = g]
      /\ todo' = [todo EXCEPT ![p] = r.dels]
      /\ scan' = scan /\ temp' = temp /\ unlinked' = unlinked
      /\ pc[p] = "idle"
  BY DEF Begin, Goto
<1> HIDE DEF l, g
<1>3. DiskTypeOK'
  BY DEF Begin, TypeInv, TypesOK, DiskTypeOK, disk
<1>4. HistoryTypeOK'
  BY TouchesTypes DEF Begin, TypeInv, TypesOK, HistoryTypeOK
<1>5. l \in AllLabels /\ l # "idle"
  BY FirstCallIsOwn DEF l
<1>6. ServersOK'
  BY <1>1, <1>2, <1>5, DelsTypes DEF TypeInv, TypesOK, ServersOK, ScanOK
<1>7. ControlOK'
  BY <1>2, FirstCallIsOwn DEF TypeInv, TypesOK, ServersOK, ControlOK, l
<1>8. TodoOK'
  BY <1>2, FirstCallIsOwn, DelsTypes
     DEF TypeInv, TypesOK, ServersOK, TodoOK, Active, l
<1>9. BodiesOK'
  <2>1. \A a \in Objects : data'[a] # Garbled
    BY DEF Begin, TypeInv, BodiesOK, disk
  <2>2. InHand(l, g)
    BY <1>1, FirstCallIsOwn, DelsTypes, ValuesAssumption DEF l
  <2>3. l \notin {"PutCopy", "PutRename"}
    BY FirstCallIsOwn DEF l
  <2>. QED
    BY <1>2, <2>1, <2>2, <2>3 DEF TypeInv, TypesOK, ServersOK, BodiesOK
<1>. QED
  BY <1>3, <1>4, <1>6, <1>7, <1>8, <1>9 DEF TypeInv, TypesOK

\* A goroutine that ends leaves nothing in memory.
LEMMA RespondTypes ==
    ASSUME TypeInv, NEW p \in Workers, Respond(p)
    PROVE  TypeInv'
<1>1. IsAnswer(Nothing)
  BY DEF Nothing, IsAnswer, AnswersWith, Codes
<1>2. DiskTypeOK' /\ HistoryTypeOK'
  BY DEF Respond, TypeInv, TypesOK, DiskTypeOK, HistoryTypeOK, disk
<1>3. ServersOK'
  <2>1. /\ req' = [q \in Workers |-> IF q = p THEN None ELSE req[q]]
        /\ got' = [q \in Workers |-> IF q = p THEN Nothing ELSE got[q]]
        /\ pc' = [q \in Workers |-> IF q = p THEN "idle" ELSE pc[q]]
    BY DEF Respond, Goto, TypeInv, TypesOK, ServersOK
  <2>2. pc' \in [Workers -> AllLabels]
    BY <2>1 DEF TypeInv, TypesOK, ServersOK, AllLabels, Labels, UploadLabels
  <2>3. DOMAIN scan' = Workers /\ \A q \in Workers : scan'[q] = IF q = p THEN {} ELSE scan[q]
    BY DEF Respond, TypeInv, TypesOK, ServersOK
  <2>4. todo' \in [Workers -> Seq(Objects)] /\ temp' = temp /\ unlinked' = unlinked
    BY DEF Respond, TypeInv, TypesOK, ServersOK
  <2>5. req' = [q \in Workers |-> req'[q]] /\ got' = [q \in Workers |-> got'[q]]
    BY <2>1
  <2>6. \A q \in Workers : /\ IsAnswer(got'[q])
                           /\ IF pc'[q] = "idle" THEN req'[q] = None ELSE IsRequest(req'[q])
                           /\ IF pc'[q] = "idle" THEN scan'[q] = {}
                              ELSE ScanOK(req'[q].op, scan'[q])
    BY <1>1, <2>1, <2>3 DEF TypeInv, TypesOK, ServersOK
  <2>. QED
    BY <2>2, <2>3, <2>4, <2>5, <2>6 DEF TypeInv, TypesOK, ServersOK
<1>4. ControlOK'
  <2>1. \A q \in Workers \ {p} : req'[q] = req[q] /\ pc'[q] = pc[q]
    BY DEF Respond, Goto, TypeInv, TypesOK, ServersOK
  <2>2. pc'[p] = "idle"
    BY DEF Respond, Goto, TypeInv, TypesOK, ServersOK
  <2>3. ControlAt(req'[p].op, "idle")
    BY DEF ControlAt, UploadLabels
  <2>. QED
    BY <2>1, <2>2, <2>3 DEF TypeInv, ControlOK
<1>5. TodoOK'
  BY DEF Respond, Goto, TypeInv, TypesOK, ServersOK, TodoOK, Active
<1>6. BodiesOK'
  BY DEF Respond, Goto, TypeInv, TypesOK, ServersOK, BodiesOK, disk
<1>. QED
  BY <1>2, <1>3, <1>4, <1>5, <1>6 DEF TypeInv, TypesOK

\* A crash leaves nothing in memory; no file that stays is a partial body.
LEMMA CrashTypes ==
    ASSUME TypeInv, Crash
    PROVE  TypeInv'
<1>1. IsAnswer(Nothing)
  BY DEF Nothing, IsAnswer, AnswersWith, Codes
<1>2. \A p \in Workers : temp[p] # None => req[p].dst[1] \in Buckets
  BY TargetTypes DEF TypeInv, BodiesOK
<1>3. \A p \in Workers : Flux(p) \subseteq Resources
  BY TargetTypes DEF Flux, Resources
<1>4. DiskTypeOK'
  BY <1>2 DEF Crash, TypeInv, TypesOK, DiskTypeOK
<1>5. HistoryTypeOK'
  BY <1>3 DEF Crash, TypeInv, TypesOK, HistoryTypeOK
<1>6. ServersOK'
  BY <1>1 DEF Crash, TypeInv, TypesOK, ServersOK, AllLabels, Labels, UploadLabels
<1>7. ControlOK' /\ TodoOK'
  BY DEF Crash, ControlOK, ControlAt, UploadLabels, TodoOK, Active
<1>8. BodiesOK'
  BY DEF Crash, TypeInv, BodiesOK
<1>. QED
  BY <1>4, <1>5, <1>6, <1>7, <1>8 DEF TypeInv, TypesOK

----------------------------------------------------------------------------
\* The directory an earlier server left in good order.
LEMMA InitTypes ==
    ASSUME NEW S, InitWith(S)
    PROVE  TypeInv
<1>1. PICK known \in SUBSET Buckets, stored \in [Objects -> Stored \cup {None}] :
         acked = [x \in Resources |->
                     CASE x \in Objects -> stored[x]
                       [] x \in known -> Registered
                       [] OTHER -> None]
  BY DEF InitWith
<1>2. Stored \subseteq Versions
  BY ValuesAssumption DEF Stored, Versions, ETags
<1>3. /\ acked \in [Resources -> Versions \cup {None, Registered}]
      /\ \A a \in Objects : acked[a] \in Versions \cup {None}
      /\ \A b \in Buckets : acked[b] \in {Registered, None}
  BY <1>1, <1>2, NamesAssumption DEF Resources
<1>4. IsAnswer(Nothing)
  BY DEF Nothing, IsAnswer, AnswersWith, Codes
<1>5. \A v \in Versions : /\ v.body \in Bodies
                          /\ [etag |-> v.etag, attrs |-> v.attrs] \in Documents
  BY DEF Versions, Documents
<1>6. DiskTypeOK /\ HistoryTypeOK
  <2>1. data \in [Objects -> Bodies \cup {None, Garbled}]
    BY <1>3, <1>5 DEF InitWith
  <2>2. meta \in [Objects -> Documents \cup {None, Empty, Garbled}]
    BY <1>3, <1>5 DEF InitWith
  <2>3. bucketFile \in [Buckets -> {None, Empty, Garbled, Registered}]
    BY <1>3 DEF InitWith
  <2>4. dirs \in [Buckets -> SUBSET DirNames] /\ litter \subseteq Buckets
    BY DEF InitWith, DirNames, SubDirs
  <2>5. HistoryTypeOK
    BY <1>3 DEF InitWith, HistoryTypeOK
  <2>. QED
    BY <2>1, <2>2, <2>3, <2>4, <2>5 DEF DiskTypeOK
<1>7. ServersOK
  BY <1>4 DEF InitWith, ServersOK, AllLabels, Labels, UploadLabels
<1>8. ControlOK /\ TodoOK
  BY DEF InitWith, ControlOK, ControlAt, UploadLabels, TodoOK, Active
<1>9. BodiesOK
  <2>1. \A a \in Objects : data[a] \in Bodies \cup {None}
    BY <1>3, <1>5 DEF InitWith
  <2>2. \A a \in Objects : data[a] # Garbled
    BY <2>1, ValuesAssumption
  <2>. QED
    BY <2>2 DEF InitWith, BodiesOK
<1>. QED
  BY <1>6, <1>7, <1>8, <1>9 DEF TypeInv, TypesOK

\* Every step keeps TypeInv.
LEMMA NextTypes ==
    ASSUME TypeInv, [Next]_vars
    PROVE  TypeInv'
<1>1. ASSUME NEW p \in Workers, Step(p) \/ Respond(p) \/ \E r \in Requests : Begin(p, r)
      PROVE  TypeInv'
  BY <1>1, StepTypes, RespondTypes, BeginTypes, RequestsAssumption
<1>2. CASE UNCHANGED vars
  BY <1>2 DEF vars, TypeInv, TypesOK, DiskTypeOK, ServersOK, HistoryTypeOK,
     ControlOK, TodoOK, BodiesOK, Active
<1>. QED
  BY <1>1, <1>2, CrashTypes DEF Next

\* Every variable holds a value of its kind, a goroutine has a request exactly
\* while it is not idle, it is at a call its handler makes, and no data file
\* ever holds anything but a body that a client sent whole.
THEOREM TypeCorrect == Spec => []TypeInv
<1>1. Init => TypeInv
  BY InitTypes DEF Init
<1>. QED
  BY <1>1, NextTypes, PTL DEF Spec

\* Without multipart requests, a worker serves one of Requests, never sweeps
\* uploads, and lists buckets and objects.
PlainWorkers ==
    \A p \in Workers : /\ pc[p] # "idle" => req[p] \in Requests
                       /\ pc[p] # "RmdirUploads"
                       /\ got[p].listed \subseteq Resources

\* A call that lists or ends a listing.
LEMMA ListsResources ==
    ASSUME TypeInv, NEW p \in Workers,
           ListRead(p) \/ BucketsRead(p), got[p].listed \subseteq Resources
    PROVE  got'[p].listed \subseteq Resources
<1>1. scan[p] \subseteq Resources
  <2>1. pc[p] \in {"ListRead", "BucketsRead"}
    BY DEF ListRead, BucketsRead
  <2>2. req[p].op \in {"ListObjects", "ListBuckets"}
    BY <2>1 DEF TypeInv, ControlOK, ControlAt
  <2>. QED
    BY <2>1, <2>2 DEF TypeInv, TypesOK, ServersOK, ScanOK, Ops, BucketOps, Entries, Resources
<1>2. IsAnswer(got[p]) /\ got = [q \in Workers |-> got[q]]
  BY DEF TypeInv, TypesOK, ServersOK
<1>3. CASE ListRead(p)
  BY <1>1, <1>2, <1>3 DEF ListRead, Succeed, Finish, IsAnswer, AnswersWith
<1>4. CASE BucketsRead(p)
  BY <1>1, <1>2, <1>4 DEF BucketsRead, Succeed, Finish, IsAnswer, AnswersWith
<1>. QED
  BY <1>3, <1>4

\* p goes on, but not to sweep uploads, with no uploads in its listing.
PlainMove(p) ==
    \E l, g :
        /\ req' = req /\ pc' = [pc EXCEPT ![p] = l] /\ got' = [got EXCEPT ![p] = g]
        /\ l # "RmdirUploads" /\ g.listed \subseteq Resources

\* A call of an object or bucket request sweeps no uploads and puts only
\* objects and buckets into a listing.
LEMMA StepPlain ==
    ASSUME TypeInv, NEW p \in Workers, Step(p),
           pc[p] # "RmdirUploads", got[p].listed \subseteq Resources
    PROVE  PlainMove(p)
<1>1. /\ IsAnswer(got[p]) /\ got = [got EXCEPT ![p] = got[p]]
      /\ pc = [pc EXCEPT ![p] = pc[p]]
      /\ pc = [q \in Workers |-> pc[q]] /\ got = [q \in Workers |-> got[q]]
  BY DEF TypeInv, TypesOK, ServersOK
<1>2. req' = req
  BY DEF Step, ObjectStep, BucketStep, Look, GetExists, GetMeta, GetOpen, PutExists, PutMkdir,
     PutTemp, PutCopy, PutRename, MetaMkdir, MetaOpen, MetaWrite, CopyMeta, HeadExists,
     HeadMeta, ManyExists, DelExists, DelData, DelMeta, ListExists, ListScan, ListRead,
     CreateStat, CreateDir, CreateRegistry, MakeDirectory, CreateOpen, CreateWrite,
     DeleteStat, DeleteScan, RemoveList, RemoveObjects, RemoveMetadata, RmdirObjects,
     RmdirMetadata, RemoveSubdirectory, RmdirBucket, RegistryUnlink, RegistryRmdir,
     HeadBucketStat, LocationRead, BucketsScan, BucketsRead
<1>3. \A l : Goto(p, l) /\ l # "RmdirUploads" /\ UNCHANGED got => PlainMove(p)
  BY <1>1, <1>2 DEF Goto, PlainMove
<1>4. \A l, g : Goto(p, l) /\ l # "RmdirUploads" /\ got' = [got EXCEPT ![p] = g]
                /\ g.listed \subseteq Resources => PlainMove(p)
  BY <1>2 DEF Goto, PlainMove
<1>5. \A g : Finish(p, g) /\ g.listed \subseteq Resources => PlainMove(p)
  BY <1>4 DEF Finish
<1>6. /\ Succeed(p) => PlainMove(p)
      /\ \A c : Fail(p, c) => PlainMove(p)
  <2>1. [got[p] EXCEPT !.code = "OK"].listed = got[p].listed
    BY <1>1 DEF IsAnswer, AnswersWith
  <2>2. \A c : [Nothing EXCEPT !.code = c].listed = {}
    BY DEF Nothing
  <2>. QED
    BY <1>5, <2>1, <2>2 DEF Succeed, Fail
<1>7. CASE ListRead(p) \/ BucketsRead(p)
  <2>1. got'[p].listed \subseteq Resources
    BY <1>7, ListsResources
  <2>2. CASE Succeed(p)
    BY <1>6, <2>2
  <2>3. CASE UNCHANGED pc
    <3>1. PICK g : got' = [got EXCEPT ![p] = g]
      BY <1>7, <2>3 DEF ListRead, BucketsRead, Succeed, Finish
    <3>2. got'[p] = g
      BY <1>1, <3>1
    <3>. QED
      BY <1>1, <1>2, <2>1, <2>3, <3>1, <3>2 DEF PlainMove
  <2>. QED
    BY <1>7, <2>2, <2>3 DEF ListRead, BucketsRead
<1>8. CASE GetMeta(p)
  <2>1. \A e, t : [got[p] EXCEPT !.etag = e, !.attrs = t].listed = got[p].listed
    BY <1>1 DEF IsAnswer, AnswersWith
  <2>2. \/ \E e, t : /\ Goto(p, "GetOpen")
                    /\ got' = [got EXCEPT ![p] = [got[p] EXCEPT !.etag = e, !.attrs = t]]
        \/ \E c : Fail(p, c)
    BY <1>8 DEF GetMeta, ReadDocument
  <2>. QED
    <3>1. ASSUME NEW c, Fail(p, c) PROVE PlainMove(p)
      BY <1>6, <3>1
    <3>2. ASSUME NEW e, NEW t, Goto(p, "GetOpen"),
                 got' = [got EXCEPT ![p] = [got[p] EXCEPT !.etag = e, !.attrs = t]]
          PROVE  PlainMove(p)
      BY <1>4, <2>1, <3>2
    <3>. QED
      BY <2>2, <3>1, <3>2
<1>9. CASE GetOpen(p)
  <2>1. \A b : [got[p] EXCEPT !.body = b].listed = got[p].listed
    BY <1>1 DEF IsAnswer, AnswersWith
  <2>2. \A b, c : [got[p] EXCEPT !.body = b, !.code = c].listed = got[p].listed
    BY <1>1 DEF IsAnswer, AnswersWith
  <2>3. [got EXCEPT ![p].body = data[Src(p)]] = [got EXCEPT ![p] = [got[p] EXCEPT !.body = data[Src(p)]]]
    OBVIOUS
  <2>4. \/ Fail(p, Missing(p))
        \/ Finish(p, [got[p] EXCEPT !.body = data[Src(p)], !.code = "OK"])
        \/ /\ \/ Goto(p, "PartNumber") \/ Goto(p, "PutExists")
           /\ got' = [got EXCEPT ![p] = [got[p] EXCEPT !.body = data[Src(p)]]]
    BY <1>9, <2>3 DEF GetOpen
  <2>5. CASE Fail(p, Missing(p))
    BY <1>6, <2>5
  <2>6. CASE Finish(p, [got[p] EXCEPT !.body = data[Src(p)], !.code = "OK"])
    BY <1>5, <2>2, <2>6
  <2>7. ASSUME NEW l, l \in {"PartNumber", "PutExists"}, Goto(p, l),
               got' = [got EXCEPT ![p] = [got[p] EXCEPT !.body = data[Src(p)]]]
        PROVE  PlainMove(p)
    BY <1>4, <2>1, <2>7
  <2>. QED
    BY <2>4, <2>5, <2>6, <2>7
<1>10. CASE CopyMeta(p)
  <2>1. \A e, c : /\ [got[p] EXCEPT !.etag = e].listed = got[p].listed
                  /\ [[got[p] EXCEPT !.etag = e] EXCEPT !.code = c].listed = got[p].listed
    BY <1>1 DEF IsAnswer, AnswersWith
  <2>2. PICK e :
           \/ Finish(p, [[got[p] EXCEPT !.etag = e] EXCEPT !.code = "OK"])
           \/ Goto(p, "DelExists") /\ got' = [got EXCEPT ![p] = [got[p] EXCEPT !.etag = e]]
           \/ \E c : Fail(p, c)
    BY <1>10 DEF CopyMeta, ReadDocument
  <2>3. CASE Finish(p, [[got[p] EXCEPT !.etag = e] EXCEPT !.code = "OK"])
    BY <1>5, <2>1, <2>3
  <2>4. CASE Goto(p, "DelExists") /\ got' = [got EXCEPT ![p] = [got[p] EXCEPT !.etag = e]]
    BY <1>4, <2>1, <2>4
  <2>5. CASE \E c : Fail(p, c)
    BY <1>6, <2>5
  <2>. QED
    BY <2>2, <2>3, <2>4, <2>5
<1>11. CASE HeadMeta(p)
  <2>1. \A e, t, c : [got[p] EXCEPT !.etag = e, !.attrs = t, !.code = c].listed
                        = got[p].listed
    BY <1>1 DEF IsAnswer, AnswersWith
  <2>2. \/ \E e, t : Finish(p, [got[p] EXCEPT !.etag = e, !.attrs = t, !.code = "OK"])
        \/ Succeed(p) \/ \E c : Fail(p, c)
    BY <1>11 DEF HeadMeta, ReadDocument
  <2>3. ASSUME NEW e, NEW t,
               Finish(p, [got[p] EXCEPT !.etag = e, !.attrs = t, !.code = "OK"])
        PROVE  PlainMove(p)
    <3> DEFINE g == [got[p] EXCEPT !.etag = e, !.attrs = t, !.code = "OK"]
    <3>1. Finish(p, g) /\ g.listed = got[p].listed
      BY <2>1, <2>3
    <3> HIDE DEF g
    <3>. QED
      BY <1>5, <3>1
  <2>4. CASE Succeed(p) \/ \E c : Fail(p, c)
    BY <1>6, <2>4
  <2>. QED
    BY <2>2, <2>3, <2>4
<1>12. CASE \/ GetExists(p) \/ PutExists(p) \/ PutMkdir(p) \/ PutTemp(p) \/ PutCopy(p)
            \/ PutRename(p) \/ MetaMkdir(p) \/ MetaOpen(p) \/ MetaWrite(p)
  BY <1>3, <1>6, <1>12 DEF GetExists, PutExists, PutMkdir, PutTemp, PutCopy, PutRename,
     MetaMkdir, MetaOpen, MetaWrite, AfterPut
<1>13. CASE \/ HeadExists(p) \/ ManyExists(p) \/ DelExists(p) \/ DelData(p) \/ DelMeta(p)
            \/ ListExists(p) \/ ListScan(p)
  BY <1>3, <1>6, <1>13 DEF HeadExists, ManyExists, DelExists, DelData, DelMeta, NextDelete,
     ListExists, ListScan
<1>14. CASE \/ CreateStat(p) \/ CreateDir(p) \/ CreateRegistry(p) \/ CreateOpen(p)
            \/ CreateWrite(p) \/ HeadBucketStat(p) \/ LocationRead(p) \/ BucketsScan(p)
  BY <1>3, <1>6, <1>14 DEF CreateStat, CreateDir, CreateRegistry, MakeDirectory, CreateOpen,
     CreateWrite, HeadBucketStat, LocationRead, BucketsScan
<1>15. CASE \/ DeleteStat(p) \/ DeleteScan(p) \/ RemoveList(p) \/ RemoveObjects(p)
            \/ RemoveMetadata(p) \/ RmdirObjects(p) \/ RmdirMetadata(p) \/ RmdirBucket(p)
            \/ RegistryUnlink(p) \/ RegistryRmdir(p)
  BY <1>3, <1>6, <1>15 DEF DeleteStat, DeleteScan, RemoveList, RemoveObjects, RemoveMetadata,
     RmdirObjects, RmdirMetadata, RemoveSubdirectory, RmdirBucket, RegistryUnlink, RegistryRmdir
<1>. QED
  BY <1>7, <1>8, <1>9, <1>10, <1>11, <1>12, <1>13, <1>14, <1>15
     DEF Step, ObjectStep, BucketStep

\* What the server does keeps it so.
LEMMA NextPlain ==
    ASSUME TypeInv, PlainWorkers, [Next]_vars
    PROVE  PlainWorkers'
<1> USE DEF PlainWorkers
<1>1. /\ pc = [q \in Workers |-> pc[q]] /\ req = [q \in Workers |-> req[q]]
      /\ got = [q \in Workers |-> got[q]]
  BY DEF TypeInv, TypesOK, ServersOK
<1>2. ASSUME NEW p \in Workers, Step(p)
      PROVE  PlainWorkers'
  <2>1. PlainMove(p)
    BY <1>2, StepPlain
  <2>2. pc[p] # "idle"
    BY <1>2 DEF Step, ObjectStep, BucketStep, GetExists, GetMeta, GetOpen, PutExists, PutMkdir,
       PutTemp, PutCopy, PutRename, MetaMkdir, MetaOpen, MetaWrite, CopyMeta, HeadExists,
       HeadMeta, ManyExists, DelExists, DelData, DelMeta, ListExists, ListScan, ListRead,
       CreateStat, CreateDir, CreateRegistry, MakeDirectory, CreateOpen, CreateWrite,
       DeleteStat, DeleteScan, RemoveList, RemoveObjects, RemoveMetadata, RmdirObjects,
       RmdirMetadata, RemoveSubdirectory, RmdirBucket, RegistryUnlink, RegistryRmdir,
       HeadBucketStat, LocationRead, BucketsScan, BucketsRead
  <2>3. PICK l, g :
           /\ req' = req /\ pc' = [pc EXCEPT ![p] = l] /\ got' = [got EXCEPT ![p] = g]
           /\ l # "RmdirUploads" /\ g.listed \subseteq Resources
    BY <2>1 DEF PlainMove
  <2>4. /\ \A q \in Workers \ {p} : pc'[q] = pc[q] /\ got'[q] = got[q]
        /\ pc'[p] = l /\ got'[p] = g
    BY <1>1, <2>3
  <2>. QED
    BY <2>2, <2>3, <2>4
<1>3. ASSUME NEW p \in Workers, Respond(p)
      PROVE  PlainWorkers'
  <2>1. /\ \A q \in Workers \ {p} :
               pc'[q] = pc[q] /\ got'[q] = got[q] /\ req'[q] = req[q]
        /\ pc'[p] = "idle" /\ got'[p] = Nothing
    BY <1>1, <1>3 DEF Respond, Goto
  <2>. QED
    BY <2>1 DEF Nothing
<1>4. ASSUME NEW p \in Workers, NEW r \in Requests, Begin(p, r)
      PROVE  PlainWorkers'
  <2>1. FirstCall[r.op] # "RmdirUploads"
    BY RequestsAssumption DEF FirstCall, Ops, Readers, Writers, Deleters, BucketOps
  <2>2. [Nothing EXCEPT !.body = r.up, !.attrs = r.up].listed = {}
    BY DEF Nothing
  <2>. QED
    BY <1>1, <1>4, <2>1, <2>2 DEF Begin, Goto
<1>5. CASE Crash
  BY <1>5 DEF Crash, Nothing
<1>6. CASE UNCHANGED vars
  BY <1>6 DEF vars
<1>. QED
  BY <1>2, <1>3, <1>4, <1>5, <1>6 DEF Next

\* TypeOK, as the runs check it.
THEOREM TypeOKCorrect == Spec => []TypeOK
<1>1. Init => TypeInv /\ PlainWorkers
  <2> SUFFICES ASSUME Init PROVE TypeInv /\ PlainWorkers
    OBVIOUS
  <2>1. TypeInv
    BY InitTypes DEF Init
  <2>2. PlainWorkers
    BY DEF Init, InitWith, PlainWorkers, Nothing
  <2>. QED
    BY <2>1, <2>2
<1>2. TypeInv /\ PlainWorkers /\ [Next]_vars => (TypeInv /\ PlainWorkers)'
  BY NextTypes, NextPlain
<1>3. TypeInv /\ PlainWorkers => TypeOK
  <2> SUFFICES ASSUME TypeInv, PlainWorkers PROVE TypeOK
    OBVIOUS
  <2>1. req \in [Workers -> Requests \cup {None}]
    BY DEF TypeInv, TypesOK, ServersOK, PlainWorkers
  <2>2. \A p \in Workers : pc[p] = "idle" <=> req[p] = None
    BY RequestsAssumption DEF TypeInv, TypesOK, ServersOK
  <2>3. pc \in [Workers -> Labels]
    <3>1. ASSUME NEW p \in Workers PROVE pc[p] \in Labels
      <4>1. CASE pc[p] = "idle"
        BY <4>1 DEF Labels
      <4>2. CASE pc[p] # "idle"
        <5>1. req[p].op \notin UploadOps
          BY <4>2, RequestsAssumption DEF PlainWorkers, Ops, Readers, Writers, Deleters,
             BucketOps, UploadOps, JobOps
        <5>2. pc[p] \notin UploadLabels
          BY <5>1 DEF TypeInv, ControlOK, ControlAt, PlainWorkers
        <5>. QED
          BY <5>2 DEF TypeInv, TypesOK, ServersOK, AllLabels
      <4>. QED
        BY <4>1, <4>2
    <3>. QED
      BY <3>1 DEF TypeInv, TypesOK, ServersOK
  <2>4. got \in [Workers -> Answers]
    <3>1. \A p \in Workers : got[p] \in Answers
      BY DEF TypeInv, TypesOK, ServersOK, IsAnswer, AnswersWith, Answers, PlainWorkers
    <3>. QED
      BY <3>1 DEF TypeInv, TypesOK, ServersOK
  <2>5. \A p \in Workers :
           IF pc[p] = "idle" THEN scan[p] = {} ELSE scan[p] \subseteq Entries(req[p].op)
    BY RequestsAssumption DEF TypeInv, TypesOK, ServersOK, PlainWorkers, ScanOK
  <2>. QED
    BY <2>1, <2>2, <2>3, <2>4, <2>5 DEF TypeInv, TypesOK, ServersOK, TypeOK, WorkerTypeOK
<1>. QED
  BY <1>1, <1>2, <1>3, PTL DEF Spec

\* PutObject renames only whole bodies over a data file, whatever uploads
\* break off and whatever DeleteBucket sweeps, and leaves no temp file behind.
THEOREM NoPartialBodyCorrect == Spec => []NoPartialBody
<1>1. TypeInv => NoPartialBody
  BY DEF TypeInv, BodiesOK, NoPartialBody, Active
<1>. QED
  BY <1>1, TypeCorrect, PTL

=============================================================================
