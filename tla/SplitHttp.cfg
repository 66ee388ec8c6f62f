SPECIFICATION SplitFairSpec
CONSTANTS
    MaxUpload = 2
    QueueCap = 2
    ChanCap = 1
    WriteSizes = {2, 3}
    MaxBytes = 5
    MaxDown = 1
    MaxCopies = 1
INVARIANTS SplitIntact
PROPERTIES UploadArrives
CHECK_DEADLOCK FALSE
