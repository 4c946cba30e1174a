\* Can two syncs of one source run at once?
CONSTANTS
    ekantipur = ekantipur
    Source = {ekantipur}
    Interval <- TwoTicks
    Stagger <- NoStagger
    MaxBackoff = 6
    RefreshEvery = 3
    DnsThreshold = 2
    MaxFails = 2
    MaxRestarts = 1
SPECIFICATION Spec
INVARIANT OneSyncPerSource
