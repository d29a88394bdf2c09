\* Both kinds of request over an unreliable transport: two responses, sends may fail.
CONSTANTS
    Reliable = FALSE
    SendMayFail = TRUE
    Receivers = {r1, r2}
    NoResp = NoResp
    BufSize = 1
    MaxTimeA = 8
SPECIFICATION Spec
INVARIANTS PanicOnlyInRaces NeverStranded QuietAfterDone TimeoutMeansNoAnswer
PROPERTIES EventuallySettled TimerDSet
CHECK_DEADLOCK FALSE
