CONSTANTS
    EditNames <- MCEditNames
    MaxEdits = 0
    MaxBody = 0
    MaxFresh = 6
SPECIFICATION ExchangeSpec
INVARIANTS FailureAckMatches
CHECK_DEADLOCK FALSE
