SPECIFICATION Spec
CONSTANTS
    Streams <- MCStreams
    Transports = {"h2c", "tls"}
    Bodies <- MCBodies
    Answers <- MCAnswers
    Fates <- MCFates
    Drains = {FALSE}
    Window = 2
    RingSlots = 1
    PtCap = 3
    CtCap = 2
    BodyUnits = 2
    Chunks = 3
    MaxGrant = 1
    MaxSpawnFail = 1
    Ends = {"data", "trailers"}
CHECK_DEADLOCK FALSE
INVARIANTS H2Sound
PROPERTIES H2Progress
