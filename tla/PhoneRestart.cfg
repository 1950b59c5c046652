SPECIFICATION Spec
CONSTANTS
    usb = usb
    wifi = wifi
    Phones = {usb}
    Leavers = {}
    Asks <- UsbAsksAll
    NoNonce = "none"
    NumChannels = 2
    NumConfigs = 1
    NumModules = 3
    MaxNodes = 1
    MaxToPhone = 1
    NumFiles = 1
    MaxStarts = 2
    MaxArrivals = 0
    NumOthers = 0
PROPERTIES ConfigRestarted
