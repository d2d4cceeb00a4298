SPECIFICATION Spec
CHECK_DEADLOCK FALSE
CONSTANTS
    MaxPrints = 1
    SoakTime = 2
    MaxSoakInputs = 3
    ShutdownFans = {chamber}
    PauseFans = {heatbreak}
    WarnFans = {}
    Confirm = 2
    Repeat = 3
    MaxStalls = 2
    Timeout = 2
    MaxLedInputs = 3
    chamber = chamber
    heatbreak = heatbreak
    NBoxes = 2
    Slots = {s11,s12}
    BoxOf <- MCBoxOf
    s11 = s11
    s12 = s12
    MaxOps = 1
    MaxReports = 1
    MaxLost = 1
    Configs <- MCConfigs
INVARIANT RunoutOfOwner
PROPERTIES SkipsAsAsked FansProtect LightFollows FaultStops
