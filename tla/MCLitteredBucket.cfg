\* A PUT is cut short by a crash and the bucket deleted.
CONSTANTS
    Buckets = {b1}
    Keys = {k1}
    Uploads = {u1}
    Bodies = {u1}
    Workers = {w1, w2}
    Requests <- BucketsAndObjects
    Faults = {"crash"}
    None = None
    Empty = Empty
    Garbled = Garbled
    Registered = Registered
SPECIFICATION Spec
INVARIANT
    NotEmptyMeansObjects
