----------------------------- MODULE MCBackend -----------------------------
(***************************************************************************)
(* Instances of Backend for TLC: who sends what.                           *)
(***************************************************************************)
EXTENDS Backend, TLC

Gets == {GetObject(a) : a \in Objects}
Heads == {HeadObject(a) : a \in Objects}
Puts == {PutObject(a, u) : a \in Objects, u \in Uploads}
Deletes == {DeleteObject(a) : a \in Objects}
Copies == {CopyObject(s, d) : s \in Objects, d \in Objects}
Renames == {RenameObject(s, d) : s \in Objects, d \in Objects}
Lists == {BucketRequest("ListObjects", b) : b \in Buckets}
BucketWrites == {BucketRequest(op, b) :
                    op \in {"CreateBucket", "DeleteBucket"}, b \in Buckets}
BucketReads == {BucketRequest(op, b) :
                    op \in {"HeadBucket", "GetBucketLocation"}, b \in Buckets}
                    \cup {ListBuckets}
\* Batches of no key and of two keys, in either order.
Batches ==
    UNION {{DeleteObjects(b, dels) :
               dels \in {<<>>} \cup
                   {pair \in ObjectsOf(b) \X ObjectsOf(b) : pair[1] # pair[2]}} :
               b \in Buckets}

\* One object, every way to read, write and delete it.
OneObject == Gets \cup Heads \cup Puts \cup Deletes

\* Two objects and the requests that relate them.
TwoObjects == Copies \cup Renames \cup Batches \cup Lists

\* Buckets come and go under the objects in them.
BucketsAndObjects ==
    BucketWrites \cup BucketReads \cup Lists \cup Puts \cup Deletes

WorkerSymmetry == Permutations(Workers)
KeySymmetry == Permutations(Workers) \cup Permutations(Keys)

=============================================================================
