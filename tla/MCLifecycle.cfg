\* Three connections, one signal after another, a listener that may fail.
CONSTANT Connections = {c1, c2, c3}
SPECIFICATION Spec
INVARIANTS
    TypeOK
    ZeroMeansAllAnswered
PROPERTIES
    SignalEndsProcess
    DrainOnlyShrinks
CHECK_DEADLOCK FALSE
