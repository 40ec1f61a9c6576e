--------------------------- MODULE BackendAnswers ---------------------------
(***************************************************************************)
(* The inductive invariant behind what the answers say.                    *)
(*                                                                         *)
(* An answer is put together from what several calls read, so it can only  *)
(* be right if every call leaves in the worker's hands something that is   *)
(* still true at the next one.  There is an invariant for each kind of     *)
(* request.  It speaks of resources that stay quiet for the worker: other  *)
(* requests may begin and end, but what they mutate is quiet no longer.    *)
(***************************************************************************)
EXTENDS BackendInvariant

Undirtied(p, S) == S \subseteq quiet[p] \ dirty

\* GetObject and HeadObject: each call found what is there.
ReadsAt(p) ==
    LET a == req[p].src IN
    req[p].op \in Readers =>
    /\ pc[p] \in {"GetMeta", "HeadMeta"} /\ Undirtied(p, {a, a[1]})
       => acked[a[1]] # None
    /\ pc[p] = "GetOpen" /\ Undirtied(p, {a, a[1]})
       => /\ acked[a[1]] # None /\ acked[a] # None
          /\ got[p].etag = acked[a].etag /\ got[p].attrs = acked[a].attrs
    /\ pc[p] \in HeadCalls => got[p].body = None
    /\ pc[p] = "done" /\ Undirtied(p, {a, a[1]})
       => /\ got[p].code = IF acked[a[1]] = None THEN "NoSuchBucket"
                           ELSE IF acked[a] = None THEN "NoSuchKey" ELSE "OK"
          /\ got[p].code = "OK" =>
                 [body |-> got[p].body, etag |-> got[p].etag, attrs |-> got[p].attrs]
                 = IF req[p].op = "Get" THEN acked[a] ELSE [acked[a] EXCEPT !.body = None]

\* The version a PUT of u leaves.
Sent(u) == Version(u, [etag |-> Md5(u), attrs |-> u])

\* PutObject of an upload: what was sent is in hand until it is stored, and
\* the bucket found at the start is still there when the ETag is read back.
PutAt(p) ==
    LET d == req[p].dst
        u == req[p].up
    IN
    req[p].op = "Put" =>
    /\ pc[p] \in PutCalls => got[p].body = u /\ got[p].attrs = u
    /\ d \in quiet[p] =>
       /\ pc[p] \in HeadCalls \cup (PutCalls \ {"PutExists"}) => BucketExists(d[1])
       /\ pc[p] \in HeadCalls => d \notin dirty /\ acked[d] = Sent(u)
       /\ pc[p] = "done" /\ got[p].code = "OK"
          => d \notin dirty /\ acked[d] = Sent(u) /\ got[p].etag = Md5(u)

\* What a request has ticked off its list is gone, and it answers 200 only
\* when the list is empty.
DeletesAt(p) ==
    /\ pc[p] # "idle" =>
           \A a \in Range(req[p].dels) \ Range(todo[p]) :
               a \in quiet[p] \ dirty => acked[a] = None
    /\ pc[p] = "done" /\ got[p].code = "OK" => todo[p] = <<>>

\* CopyObject and RenameObject: body and headers in hand are those of the
\* source, and then also of the destination, while the source is deleted.
CopyAt(p) ==
    LET s == req[p].src
        d == req[p].dst
        copied == /\ acked[d] \in Versions
                  /\ acked[d] = Version(got[p].body, [etag |-> Md5(got[p].body),
                                                      attrs |-> got[p].attrs])
    IN
    req[p].op \in {"Copy", "Rename"} /\ s # d =>
    /\ pc[p] \in GetCalls => got[p].body = None
    /\ s \in quiet[p] \ dirty =>
       /\ pc[p] = "GetOpen" => acked[s] # None /\ got[p].attrs = acked[s].attrs
       /\ pc[p] \in PutCalls \cup {"CopyMeta"}
          => /\ acked[s] # None /\ got[p].attrs = acked[s].attrs
             /\ got[p].body = acked[s].body
    /\ pc[p] \in {"CopyMeta"} \cup DelCalls /\ d \in quiet[p]
       => d \notin dirty /\ copied
    /\ Answered(p, "Copy", "OK") /\ s \in quiet[p] \ dirty /\ d \in quiet[p]
       => /\ acked[s] # None /\ d \notin dirty
          /\ acked[d] = [acked[s] EXCEPT !.etag = Md5(acked[s].body)]
          /\ got[p].etag = acked[d].etag

\* A listing under way: what is acknowledged is listed or still to visit.
ShownOf(p, S) ==
    \A x \in S : x \in quiet[p] \ dirty =>
        /\ acked[x] # None => x \in scan[p] \cup got[p].listed
        /\ x \in got[p].listed => acked[x] # None

\* The same when there is nothing left to visit.
ListedOf(p, S) ==
    \A x \in S : x \in quiet[p] \ dirty =>
        (x \in got[p].listed <=> acked[x] # None)

ListingAt(p) ==
    /\ pc[p] \in {"ListExists", "ListScan", "BucketsScan"} => got[p].listed = {}
    /\ pc[p] = "ListRead" => ShownOf(p, ObjectsOf(req[p].bucket))
    /\ pc[p] = "BucketsRead" => ShownOf(p, Buckets)
    /\ Answered(p, "ListObjects", "OK") => ListedOf(p, ObjectsOf(req[p].bucket))
    /\ Answered(p, "ListBuckets", "OK") => ListedOf(p, Buckets)

\* The bucket requests.  DeleteBucket has calls to make after it has swept the
\* objects and after its last write.
BucketAt(p) ==
    LET b == req[p].bucket
        swept == \A a \in ObjectsOf(b) : Undisturbed(p, a) => acked[a] = None
    IN
    /\ pc[p] = "RegistryUnlink" => swept
    /\ pc[p] = "RegistryRmdir" =>
           swept /\ (b \in quiet[p] => b \notin dirty /\ acked[b] = None)
    /\ pc[p] = "done" =>
       /\ req[p].op \in {"HeadBucket", "GetBucketLocation"} /\ Undisturbed(p, b)
          => got[p].code = IF acked[b] = None THEN "NoSuchBucket" ELSE "OK"
       /\ Answered(p, "CreateBucket", "OK") /\ b \in quiet[p]
          => b \notin dirty /\ acked[b] = Registered
       /\ Answered(p, "CreateBucket", "BucketAlreadyExists") /\ Undisturbed(p, b)
          => acked[b] = Registered
       /\ Answered(p, "DeleteBucket", "OK")
          => swept /\ (b \in quiet[p] => b \notin dirty /\ acked[b] = None)
       /\ Answered(p, "DeleteBucket", "NoSuchBucket") /\ Undisturbed(p, b)
          => acked[b] = None
       /\ Answered(p, "DeleteBucket", "BucketNotEmpty")
             /\ {b} \cup ObjectsOf(b) \subseteq quiet[p]
          => b \in litter \/ \E a \in ObjectsOf(b) : data[a] # None

AnswersAt(p) ==
    /\ ReadsAt(p) /\ PutAt(p) /\ DeletesAt(p) /\ CopyAt(p)
    /\ ListingAt(p) /\ BucketAt(p)

AnswersInv == \A p \in Workers : pc[p] # "idle" => AnswersAt(p)

=============================================================================
