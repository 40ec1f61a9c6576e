\* Two clients that copy, rename, list and delete in batches over two keys;
\* uploads break off, metadata writes and removals fail.
CONSTANTS
    Buckets = {b1}
    Keys = {k1, k2}
    Uploads = {u1}
    Bodies = {u1}
    Workers = {w1, w2}
    Requests <- TwoObjects
    Faults = {"write", "upload", "remove"}
    None = None
    Empty = Empty
    Garbled = Garbled
    Registered = Registered
SPECIFICATION Spec
SYMMETRY KeySymmetry
INVARIANTS
    AckedStateHolds
    DeletesTakeEffect
    CopiesAreExact
    ListingsAreComplete
PROPERTIES
    RenameKeepsACopy
