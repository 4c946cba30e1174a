SPECIFICATION Spec
CONSTANTS
    worker = worker
    cron = cron
    a1 = a1
    a2 = a2
    a3 = a3
    b1 = b1
    Poller = {worker, cron}
    Item = {a1, a2, a3, b1}
    OutletOf <- Filed
    StoryOf <- SameStory
    Feeds <- OnePass
    Attempts = 1
    NoRow = NoRow
    Unbound = Unbound
    MaxGen = 1
    MaxPruned = 0
    MaxFaults = 0
INVARIANT OneRowPerStory
