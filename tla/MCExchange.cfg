CONSTANTS
    EditNames <- MCEditNames
    MaxEdits = 2
    MaxBody = 1
    MaxFresh = 11
SPECIFICATION ExchangeSpec
INVARIANTS WellFormed KeysIdentify 
CHECK_DEADLOCK FALSE
