\* Three polls on one loop; a worker and a cron process asking three providers.
CONSTANTS
    p1 = p1  p2 = p2  p3 = p3  main = main  thread = thread
    wiki = wiki  pexels = pexels  youtube = youtube  worker = worker  cron = cron
    Poll = {p1, p2, p3}
    Loop = {main}
    LoopOf <- OneLoopOf
    SourceCap = 2
    CycleCap = 3
    Window = 2
    MaxOffer = 3
    MaxTime = 5
    Order <- ProviderOrder
    Process = {worker, cron}
    Cron = {cron}
    MinPoll <- YoutubeIsDear
    PerProviderCap = 2
    PassCap = 4
    PassTimeout = 3
    MaxAnswer = 1
    MaxDeploys = 1
    feedPoll = feedPoll  listingPoll = listingPoll
    Fetcher = {feedPoll, listingPoll}
    KindOf <- KindOfPoll
    EventLoop = {main, thread}
    LoopsOf <- OneOrTwoLoops
    RowInterval = 1
    CrawlDelay = 2
    ReaderInterval = 2
    MaxFound = 5
    ListingCap = 4
    Batch = 3
    ProbeWindow = 2
    Keys = 3
    Cooldown = 1
    CallsPerPass = 2
    song = song  dance = dance  tharu = tharu
    Terms <- TermList
    NepaliTerms = {tharu}
    PagesPerTerm = 2
    RequestBudget = 4
    ClipsPerTerm = 2
    BusyAttempts = 2
    ThrottleRetries = 1
    ReelLimit = 3
    OtherCap = 2
    IdleLimit = 1
    Heights = {0, 180, 1080, 2160}
    MinHeight = 360
    PreferredHeight = 1440
    Rungs = {120, 500, 1280, 1920}
    PosterWidth = 1440
    PlainWidth = 1080
    SourceWidths = {0, 90, 720, 1920}
    MaxFiles = 2
    MaxRow = 6
    Opening = 5
    Nepali = {2, 4}
    Editions = {"en"}
    Hidden = {4}
    Bare = {3}
    FirstSize = 1
    PollSize = 2
    PageSize = 2
    Headroom = 2
    MaxFlying <- TwoPages
    MaxSwitches = 1
    MaxLost = 1
    Aging = {2}
SPECIFICATION CapsSpec
INVARIANTS
    CapsTypeOK
    WindowCap
    PassCapHolds
    CapReachesEveryone
    RobotsAskedOnce
    UnreadIsNotBroken
    NoUsableKeyIsPassedOver
    EveryTermIsReached
    NoPlaceIsWasted
    HeardAndSharp
    FloorHolds
    PosterIsNoUpscale
    NothingIsSkipped
PROPERTIES
    ReelsPassesEnd
    ReelsKeepAsking
    HostIsPaced
    ReaderIsPacedOnOneLoop
    FetchesEnd
    DeepPagesGoRound
    FeedIsFresh
CHECK_DEADLOCK FALSE
