SPECIFICATION Spec
CONSTANTS
    Files = 2
    s1 = s1
    s2 = s2
    Setter = {s1}
    MaxFaults = 1
    Unset = Unset
    Refused = Refused
    Drafts <- People
    Requests <- Wanted
    Outputs <- Environments
    FlagSets <- CommandLines
PROPERTIES
    SetsSpareOtherSettings
CHECK_DEADLOCK FALSE
