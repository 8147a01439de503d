SPECIFICATION Spec
CONSTANTS
    Request = {r1, r2}
    Check = {c1}
    Conf <- MCConf
    Custom <- MCCustom
    Keys <- MCKeys
    Denied = {"asked"}
    None = none
    MaxChanges = 1
    MaxFaults = 1
INVARIANTS SlotsAreHeld RunsWhatIsAsked DeniedIsRefused
PROPERTIES ImplementsReplays EveryReplayEnds
CHECK_DEADLOCK FALSE
