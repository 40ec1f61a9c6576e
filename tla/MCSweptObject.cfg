\* A PUT is answered while its bucket is being deleted.
CONSTANTS
    Buckets = {b1}
    Keys = {k1}
    Uploads = {u1}
    Bodies = {u1}
    Workers = {w1, w2}
    Requests <- BucketsAndObjects
    Faults = {}
    None = None
    Empty = Empty
    Garbled = Garbled
    Registered = Registered
SPECIFICATION Spec
INVARIANT
    EmptyBucketRemoved
