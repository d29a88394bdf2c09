\* Deletion of an answered INVITE transaction over an unreliable transport.
CONSTANTS
    Reliable = FALSE
    SendMayFail = TRUE
    Receivers = {r1}
    Responders = {p1}
    Trying = Trying
    Nil = Nil
    BufSize = 1
SPECIFICATION Spec
PROPERTY EventuallyDeleted
CHECK_DEADLOCK FALSE
