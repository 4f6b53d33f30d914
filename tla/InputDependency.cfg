SPECIFICATION Spec
CONSTANTS
    main = main
    worker = worker
    Threads = {main, worker}
    InitialSize = 2
    InitialLoadCount = 1
    MaxDoublings = 6
    RingSize = 2
    Names = {1}
    InfoNamed <- ReadingInfo
    Workloads <- ReadingWorkloads
    Workarounds = {}
    HashOrder <- Values
    FirstCookie = 3
    MaxFrames = 3
CHECK_DEADLOCK FALSE
INVARIANT PassSynchronised
