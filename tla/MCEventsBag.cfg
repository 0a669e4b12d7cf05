\* Up to three slots, so every code can be stored twice and with holes between.
SPECIFICATION EventsSpec
CONSTANTS
  bootstrap = bootstrap
  boot = boot
  request = request
  reboot = reboot
  NoEvent = NoEvent
  Code <- AllCodes
  Multiple <- RepeatedCodes
  Boot <- BootCodes
  MaxSlots = 3
PROPERTIES
  StoreIsABag
