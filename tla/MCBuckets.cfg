\* Buckets created and deleted under the objects in them.
CONSTANTS
    Buckets = {b1}
    Keys = {k1}
    Uploads = {u1}
    Bodies = {u1}
    Workers = {w1, w2}
    Requests <- BucketsAndObjects
    Faults = {"crash", "write"}
    None = None
    Empty = Empty
    Garbled = Garbled
    Registered = Registered
SPECIFICATION Spec
SYMMETRY WorkerSymmetry
INVARIANTS
    AckedStateHolds
    BucketAnswersAreExact
    ListingsAreComplete
PROPERTIES
    OnlyDeletesRemoveData
    IsVersionStore
