\* Pins that the firmware has left enabled, one of each kind: the number of
\* its bit is all ones, or zero.
SPECIFICATION Spec
CONSTANTS
  led = led  reserved = reserved  button = button
  sensor = sensor  unmapped = unmapped
  Pins = {led, reserved, button, sensor, unmapped}
  Reserved = {reserved}
  PullUpNoKeeper = TRUE
  Unchange = Unchange
  PdcRegion <- MCPdcRegion
  SPIConfigBase = 1
  SPIConfigSize = 4
  NotFound = NotFound
  PdcPinNumber <- MCPdcPinNumber
  TlmmIrq = 240
  TestPin = led
  MaxEntries = 3
  Types = {"EDGE_FALLING", "LEVEL_LOW"}
  Params <- MCParams
  Setter = button
  HandlerPin = led
  LeftEnabled = {31, 32, 64}
  None = None
INVARIANT NothingLeftEnabled
CHECK_DEADLOCK FALSE
