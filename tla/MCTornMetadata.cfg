\* Two PUTs of one object, no failures.
CONSTANTS
    Buckets = {b1}
    Keys = {k1}
    Uploads = {u1, u2}
    Bodies = {u1, u2}
    Workers = {w1, w2}
    Requests <- OneObject
    Faults = {}
    None = None
    Empty = Empty
    Garbled = Garbled
    Registered = Registered
SPECIFICATION Spec
INVARIANT
    MetadataMatchesData
