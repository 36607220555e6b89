\* Three lives of the process and two updates: a report is written, sent and
\* not sent again, and downloads of two packages interleave.
CONSTANTS
    Url = {u1, u2}
    Thread = {t1, t2}
    MaxUpdates = 2
    MaxLives = 3
SPECIFICATION FairSpec
INVARIANTS
    TypeOK
    OneDownload
    FlashOwnDownload
    ReportAtMostOnce
PROPERTIES
    ConfRecordsUpgrade
    UpdateAnswered
CHECK_DEADLOCK FALSE
