CONSTANTS
    Capacity = 5
    ChunkLen = 2
    ImageSize = 2
    EchoSize = 1
    NoticeSize = 1
    Texts <- MCTexts
    Events = {"image", "echo", "session_end", "status"}
    Keys = {"out", "err"}
    MaxAppends = 3
    MaxDrains = 2
    DropsDuringDrain = FALSE
    TrimsOverGaps = FALSE
SPECIFICATION Spec
INVARIANTS CharactersWhole
PROPERTIES ImplementsLog DrainExposes
CHECK_DEADLOCK FALSE
