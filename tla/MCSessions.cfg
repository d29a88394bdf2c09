CONSTANTS
    a1 = a1
    a2 = a2
    a3 = a3
    None = None
    TU = TU
    Wire = Wire
    Answers <- MCAnswers
    MaxSeq = 2
SPECIFICATION Spec
INVARIANTS SessionsSound NeverReused OpenUntilBye
PROPERTIES ClosedLeavesStore
CHECK_DEADLOCK FALSE
