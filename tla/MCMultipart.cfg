\* One upload of up to two parts, all faults; a mix of requests at a time.
CONSTANTS
    Buckets = {b1}
    Keys = {k1}
    Uploads <- XandY
    Bodies <- AllBodies
    Bytes = {1, 2}
    UploadIDs = {i1}
    PartCount = 2
    Calls <- AllCalls
    Workers = {w1, w2}
    Requests <- PlainRequests
    Mixes = {"parts", "race", "gap", "overwrite", "copy", "bucket"}
    Faults = {"crash", "write", "upload", "remove"}
    None = None
    Empty = Empty
    Garbled = Garbled
    Registered = Registered
SPECIFICATION MCSpec
SYMMETRY WorkerSymmetry
INVARIANTS
    UploadTypeOK
    AckedStateHolds
    PartsHold
    CompletesAreExact
    UploadAnswersAreExact
    UploadListingsAreExact
