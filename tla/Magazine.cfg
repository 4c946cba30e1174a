\* One story among all hands on its picture, two in the workflow's backlog; three published ones and two
\* tables; two days; a worker and a cron process.
CONSTANTS
    worker = worker  cron = cron
    Story = {1, 2}
    Current = {2}
    Poller = {worker, cron}
    ArchiveAge = 1
    Retention = 2
    RunLimit = 1
    MaxStory = 3
    Held = {1}
    Table = {"logs", "reels"}
    Threshold = 2
    PruneRatio = 50
    Almanacker = {worker, cron}
    Forgetful = {cron}
    LastDay = 1
    Ahead = 1
    StaleAge = 1
    WalkAge = 2
SPECIFICATION MagazineSpec
INVARIANTS
    MagazineTypeOK
    ConfirmedUnlessBroughtBack
PROPERTIES
    HiddenIsRefreshed
    NewestSurvives
    OldRowsGo
    DaysAheadAreWhole
    TodaysHoroscope
CHECK_DEADLOCK FALSE
