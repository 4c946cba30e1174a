\* One source whose host, row and database come and go, and one restart.
CONSTANTS
    ekantipur = ekantipur
    Source = {ekantipur}
    Interval <- TwoTicks
    Stagger <- NoStagger
    MaxBackoff = 6
    RefreshEvery = 3
    DnsThreshold = 2
    MaxFails = 2
    MaxRestarts = 1
SPECIFICATION Spec
INVARIANTS
    TypeOK
    BreakerEarned
PROPERTIES
    ActiveIsPolled
    InactiveIsLetGo
    DeadHostIsDisabled
