SPECIFICATION Spec
CONSTANTS
    worker = worker
    cron = cron
    a1 = a1
    a2 = a2
    a3 = a3
    b1 = b1
    Poller = {worker, cron}
    Item = {a1, a2, a3, b1}
    OutletOf <- Filed
    StoryOf <- SameStory
    Feeds <- FeedsUsed
    Attempts = 2
    NoRow = NoRow
    Unbound = Unbound
    MaxGen = 2
    MaxPruned = 1
    MaxFaults = 1
INVARIANTS TypeOK CountBounded
PROPERTIES StoryStaysCovered IsACatalogue
