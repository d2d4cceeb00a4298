SPECIFICATION Spec
CONSTANTS
    Slots = {s1}
    Ext = ext
    Tags = {plain, spoolman}
    SpoolmanTags = {spoolman}
    KnownTags = {plain}
    EventDrain = 1
    ReadAttempts = 2
    MaxInputs = 2
PROPERTIES ScanIsOfSpool SpoolmanCurrent
CHECK_DEADLOCK FALSE
