\* Two clients on one object of one bucket, failing writes and removals, a process that dies.
CONSTANTS
    Buckets = {b1}
    Keys = {k1}
    Uploads = {u1, u2}
    Bodies = {u1, u2}
    Workers = {w1, w2}
    Requests <- OneObject
    Faults = {"crash", "write", "upload", "remove"}
    None = None
    Empty = Empty
    Garbled = Garbled
    Registered = Registered
SPECIFICATION Spec
SYMMETRY WorkerSymmetry
INVARIANTS
    TypeOK
    AckedStateHolds
    ReadsAreExact
    PutRepairs
    NoPartialBody
PROPERTIES
    IsVersionStore
