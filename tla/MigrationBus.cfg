SPECIFICATION Spec
CONSTANTS
    a = a
    b = b
    c = c
    None = None
    Runs <- MCRuns
    Publishers = {a}
    RingOrder <- MCRingOrder
    MaxMessages = 2
    MaxStreamLen = 1
    PerPoll = 2
    BufferSize = 1
    MaxImports = 1
    Disturbed = {b}
    Lapsing = {1}
    MaxTroubles = 2
VIEW MCView
INVARIANTS ImportedOnce ClaimedByConsumer NothingSkipped
PROPERTIES SavedCursorAdvances EventuallyTaken
CHECK_DEADLOCK FALSE
