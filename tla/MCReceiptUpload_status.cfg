SPECIFICATION FairUpload
CONSTANTS
    push = push
    retry = retry
    Commands = {push, retry}
    Updates <- ThreeRefs
    NotReceipted <- Tag
    NoReceipt = NoReceipt
    Attempts = 2
    MaxFaults = 3
CHECK_DEADLOCK FALSE
INVARIANTS
    RefsAnswered
    UploadedIsAccepted
PROPERTIES
    EventuallyUploaded
