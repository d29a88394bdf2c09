\* Both kinds of request over an unreliable transport: two further requests, one response of the TU and timer 1xx.
CONSTANTS
    Reliable = FALSE
    SendMayFail = TRUE
    Receivers = {r1, r2}
    Responders = {p1}
    Trying = Trying
    Nil = Nil
    BufSize = 1
SPECIFICATION Spec
SYMMETRY Symmetry
INVARIANTS StaysSilent NeverStranded OneAckUp 
CHECK_DEADLOCK FALSE
