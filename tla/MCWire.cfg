\* Operations: compound operations of two, payloads around the limits.  WireChannel: every
\* format, up to four elements.  Frames: two frames, counters that end.  ReceiveBudget: two
\* sessions, at the same time or one after the other with a reconnect.
CONSTANTS
    Goroutines = {1, 2}
    Lengths = {0, 1, 3}
    MaxByte = 2
    MaxOffset = 90
    MaxOperations = 2
    MaxRequestBytes = 100
    MaxBytes = 900
    MaxCount = 4
    MaxAge = 27
    DamagePoints = 40
    Payloads <- MCPayloads
    Controls <- MCControls
    Arriving <- MCArriving
    Block = 2
    Inline = 4
    LeasedPrefix = 4
    MaxSegmentBytes = 5
    MaxFrameBytes = 27
    Starts = {5}
    MaxCounter = 7
    MaxFrames = 2
    Sessions = {1, 2}
    MaxReserved = 10
    MinScratch = 2
    MaxScratch = 6
    Granule = 4
    Slots = 1
SPECIFICATION WireSpec
INVARIANTS RequestsSafe EncodingSafe FramesSafe BudgetSafe
CHECK_DEADLOCK FALSE
