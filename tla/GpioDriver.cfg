\* One pin that calls and handlers configure, two with a line of their own,
\* and a table of the interrupt library that failed registrations fill.
SPECIFICATION Spec
CONSTANTS
  led = led  reserved = reserved  button = button
  sensor = sensor  unmapped = unmapped
  Pins = {led, reserved, button, sensor, unmapped}
  Reserved = {reserved}
  PullUpNoKeeper = TRUE
  Unchange = Unchange
  PdcRegion <- MCPdcRegion
  SPIConfigBase = 1
  SPIConfigSize = 4
  NotFound = NotFound
  PdcPinNumber <- MCPdcPinNumber
  TlmmIrq = 240
  TestPin = led
  MaxEntries = 3
  Types = {"EDGE_FALLING", "LEVEL_LOW"}
  Params <- MCParams
  Setter = button
  HandlerPin = led
  LeftEnabled = {31, 32, 64}
  None = None
INVARIANTS TypeOK Serial ChainAgrees
PROPERTY RefinesPins
CHECK_DEADLOCK FALSE
