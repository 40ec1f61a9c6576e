\* A signal arrives while requests are running.
CONSTANT Connections = {c1, c2}
SPECIFICATION Spec
INVARIANT ShutdownIsGraceful
CHECK_DEADLOCK FALSE
