SPECIFICATION ExportSpec
CONSTANTS
    MaxDuration = 7
    ChunkThreshold = 4
    ChunkSec = 3
    Tick = 3
    ReportSteps = 4
    MaxSegments = 2
    Overshoot = 1
    Times <- NearCarries
INVARIANTS ChunksTile TimelineOrdered ProgressHonest ScratchBounded TimestampsExact SubtitlesTrue
CHECK_DEADLOCK FALSE
