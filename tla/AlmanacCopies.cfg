\* One day and the one ahead: is a copy of today's horoscope ever stored for it?
CONSTANTS
    worker = worker  cron = cron
    Almanacker = {worker, cron}
    Forgetful = {cron}
    LastDay = 0
    Ahead = 1
    StaleAge = 1
    WalkAge = 2
SPECIFICATION AlmanacSpec
INVARIANT NoCopyAhead
CHECK_DEADLOCK FALSE
