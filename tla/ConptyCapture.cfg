CONSTANTS
    MaxTitle = 1
    RawScripts <- MCRawScripts
    IpcScripts <- MCIpcScripts
SPECIFICATION Spec
INVARIANTS
    OnlyNoiseRemoved
    LineFeedInPlace
    SessionEndLast
CHECK_DEADLOCK FALSE
