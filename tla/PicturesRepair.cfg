\* One kept story the whole run: is it repaired while it is stored bare?
CONSTANTS
    worker = worker  cron = cron
    Story = {1}
    Poller = {worker, cron}
    ArchiveAge = 1
    Retention = 2
    RunLimit = 1
SPECIFICATION PicturesSpec
PROPERTY BareRowIsRepaired
CHECK_DEADLOCK FALSE
