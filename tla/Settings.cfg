SPECIFICATION Spec
CONSTANTS
    Files = 2
    s1 = s1
    s2 = s2
    Setter = {s1, s2}
    MaxFaults = 1
    Unset = Unset
    Refused = Refused
    Drafts <- People
    Requests <- Wanted
    Outputs <- Environments
    FlagSets <- CommandLines
INVARIANTS
    SettingsAreLayered
    SetsKeepTheRest
SYMMETRY Interchangeable
CHECK_DEADLOCK FALSE
