SPECIFICATION Spec
CONSTANTS
  Kinds = {"usb", "rfcomm", "ble"}
  Ops = {"status", "check", "start"}
  Checked = {"status", "check"}
  MaxSent = 4
  MaxFrames = 2
  MaxOpens = 2
INVARIANTS TypeOK UsbLag StaleExplained ConnectClean
PROPERTIES WaitsForAnAnswer CallEnds
CHECK_DEADLOCK FALSE
