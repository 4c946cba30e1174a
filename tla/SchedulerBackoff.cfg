\* Is a source that backs off left alone until its retry?
CONSTANTS
    ekantipur = ekantipur
    Source = {ekantipur}
    Interval <- TwoTicks
    Stagger <- NoStagger
    MaxBackoff = 6
    RefreshEvery = 3
    DnsThreshold = 2
    MaxFails = 2
    MaxRestarts = 1
SPECIFICATION Spec
PROPERTY BackoffHonoured
