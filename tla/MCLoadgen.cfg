\* Up to two workers; half seconds; two ticks a second.
CONSTANTS
    MaxWorkers = 2
    Profiles <- SmallProfiles
    Bursts = {3}
    Hz = 2
    TicksPerSec = 2
SPECIFICATION FairSpec
INVARIANTS TypeOK ReportComplete RateWithinPeak OnSchedule
PROPERTY DriveEnds
