SPECIFICATION FairSpec
CONSTANTS
    main = main
    worker = worker
    Threads = {main, worker}
    InitialSize = 2
    InitialLoadCount = 1
    MaxDoublings = 6
    RingSize = 2
    Names <- AllNames
    InfoNamed <- AllInfos
    Workloads <- AllWorkloads
    Workarounds = {}
    HashOrder <- Values
    FirstCookie = 3
    MaxFrames = 2
CHECK_DEADLOCK FALSE
INVARIANTS
    TypeOK
    MutualExclusion
    MapsSound
    PassFits
    PassSynchronised
    AttachmentsKept
PROPERTIES
    RequestsReturn
