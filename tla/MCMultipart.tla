----------------------------- MODULE MCMultipart -----------------------------
(***************************************************************************)
(* Instances of Multipart for TLC.  Bodies are sequences of bytes.         *)
(***************************************************************************)
EXTENDS Multipart, TLC

\* Two bodies a client sends; joining them gives others.
X == <<1>>
Y == <<2>>
XandY == {X, Y}
AllBodies == Seq(Bytes)

a1 == CHOOSE a \in Objects : TRUE
i1 == CHOOSE i \in UploadIDs : TRUE
b1 == a1[1]
d1 == <<b1, i1>>

Sel(n, etag) == [part |-> n, etag |-> etag]

Plain(r) == [req |-> r, job |-> None]

\* What clients do, in mixes.  "parts": an upload is opened, a part is sent
\* twice with different bodies, listed, aborted, and completed wrongly.
PartsMix == {CreateUpload(a1, i1, X), UploadPart(a1, i1, 1, X), UploadPart(a1, i1, 1, Y),
             UploadPart(a1, i1, 3, X), ListParts(a1, i1), Abort(a1, i1),
             Complete(a1, i1, <<Sel(1, Y), Sel(1, Y)>>), Complete(a1, i1, <<>>)}

\* "race": an upload of one part is completed and aborted, any number of times
\* at once.  "gap": of two parts the second alone is completed.  "overwrite":
\* both are completed under a PUT of their key, one of each at a time.  "copy":
\* a part is copied from an object that changes and goes.  "again": a part is
\* sent again before the upload is completed.
RaceMix == {Complete(a1, i1, <<Sel(1, Y)>>), Abort(a1, i1)}
GapMix == {Complete(a1, i1, <<Sel(2, X)>>)}
OverwriteMix == {Complete(a1, i1, <<Sel(2, X), Sel(1, Y)>>), Plain(PutObject(a1, Y))}
CopyMix == {UploadPartCopy(a1, a1, i1, 1), Plain(PutObject(a1, Y)), Plain(DeleteObject(a1))}
AgainMix == {UploadPart(a1, i1, 1, Y), Complete(a1, i1, <<Sel(1, X)>>)}

\* "bucket": uploads come and go with their bucket.
BucketMix == {CreateUpload(a1, i1, X), UploadPart(a1, i1, 1, X), ListUploads(b1),
              Plain(BucketRequest("DeleteBucket", b1)),
              Plain(BucketRequest("CreateBucket", b1))}

AllMixes == [parts |-> PartsMix, race |-> RaceMix, gap |-> GapMix, overwrite |-> OverwriteMix,
             copy |-> CopyMix, again |-> AgainMix, bucket |-> BucketMix]
AllRequests == UNION {AllMixes[m] : m \in DOMAIN AllMixes}
AllCalls == {c \in AllRequests : c.req.op \in UploadOps}
PlainRequests == {c.req : c \in AllRequests \ AllCalls}

\* The parts of the upload that is open at the start, where there is one.
SentBefore == [race |-> <<Y, None>>, gap |-> <<Y, X>>, overwrite |-> <<Y, X>>,
               copy |-> <<None, None>>, again |-> <<X, None>>]

CONSTANT Mixes \* the mixes of a run

VARIABLE mix

MCInit ==
    /\ UploadInit
    /\ mix \in Mixes
    /\ acked[a1] = None
    /\ IF mix \in DOMAIN SentBefore
       THEN d1 \in folders /\ kept[d1].attrs = X
            /\ \A n \in 1..2 : kept[<<d1, n>>] = SentBefore[mix][n]
       ELSE folders = {}

MCNext ==
    /\ UploadNext
    /\ \A p \in Workers : req[p] = None /\ req'[p] # None
           => /\ [req |-> req'[p], job |-> job'[p]] \in AllMixes[mix]
              /\ mix \in {"overwrite", "copy"} =>
                     \A q \in Workers \ {p} : req'[p] # req[q]
    /\ UNCHANGED mix

MCSpec == MCInit /\ [][MCNext]_<<uploadVars, mix>>

WorkerSymmetry == Permutations(Workers)

=============================================================================
