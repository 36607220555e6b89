\* Two sessions after one another, one spurious wake-up.  Each part may be heard
\* empty; no property looks at the text of a password, so it always is, and the
\* user id differs from the one heard before it when one of them is empty.
CONSTANTS
    Name = {n}
    Password = {}
    User = {u}
    Empty = Empty
    MaxSessions = 2
    MaxSpurious = 1
SPECIFICATION FairSpec
INVARIANTS
    ReportComplete
    TimeoutIsReal
    EndedIsAnswered
    FreedWhenQuit
    BindAnsweredOnce
PROPERTIES
    BindsReported
    SessionEnds
CHECK_DEADLOCK FALSE
