SPECIFICATION FairSpec
CONSTANTS
    usb = usb
    wifi = wifi
    Phones = {usb, wifi}
    Leavers = {wifi}
    Asks <- UsbAsksAll
    NoNonce = "none"
    NumChannels = 1
    NumConfigs = 1
    NumModules = 2
    MaxNodes = 2
    MaxToPhone = 1
    NumFiles = 1
    MaxStarts = 2
    MaxArrivals = 2
    NumOthers = 2
INVARIANTS TypeOK
PROPERTIES ConfigWhole NodesWhole Drains
