\* A part is sent again, the process dies, the upload is completed.
CONSTANTS
    Buckets = {b1}
    Keys = {k1}
    Uploads <- XandY
    Bodies <- AllBodies
    Bytes = {1, 2}
    UploadIDs = {i1}
    PartCount = 2
    Calls <- AllCalls
    Workers = {w1}
    Requests <- PlainRequests
    Mixes = {"again"}
    Faults = {"crash"}
    None = None
    Empty = Empty
    Garbled = Garbled
    Registered = Registered
SPECIFICATION MCSpec
INVARIANT
    CompletedIsSelected
